---------------------- MODULE WindowsPortManagerProofs ----------------------
(***************************************************************************)
(* What WindowsPortManager guarantees for every set of threads, devices    *)
(* and port objects and every number of calls.                             *)
(***************************************************************************)
EXTENDS WindowsPortManager, TLAPS

(* Both names of a device lead to it.                                      *)
LEMMA PathIsADevice == \A n \in Names : DevicePath(n) \in Devices
BY DEF Names, DevicePath

(* The inductive invariant holds at the start.                             *)
LEMMA InitIInv == Init => IInv
<1> SUFFICES ASSUME Init PROVE IInv
  OBVIOUS
<1> USE DEF Init
<1>1. TypeOK
  BY MaxCallsAssumption
  DEF TypeOK, PCs, ErrorCodes, NoListing
<1>2. CallShape /\ HeldShape /\ HandsShape
  BY DEF CallShape, HeldShape, HandsShape, Owning, HeldPorts
<1>3. TableShape /\ LockShape
  BY NobodyAssumption DEF TableShape, LockShape, IsOpen
<1>4. ListingShape /\ IdentifierShape
  BY DEF ListingShape, ListingShapeOf, IdentifierShape, ClosingShapeOf, AcquireShapeOf
<1> QED BY <1>1, <1>2, <1>3, <1>4 DEF IInv

(* What a thread in an open, a close or a use refers to.                   *)
LEMMA OneReference ==
    ASSUME HeldShape, NEW t \in Threads,
           pc[t] \in {"setup", "publish", "closing", "acquire", "in_port"}
    PROVE  \E r \in Reference : held[t] = {r} /\ HeldPorts(t) = {r.port}
BY DEF HeldShape, HeldPorts

(* An identifier names at most one entry.                                  *)
LEMMA FoundIsOne ==
    ASSUME TableShape, NEW t \in Threads, Found(t) # {}
    PROVE  \E e \in table : /\ e.id = op[t].id
                            /\ Found(t) = {e}
                            /\ {[port |-> f.port, name |-> f.name] : f \in Found(t)}
                                   = {[port |-> e.port, name |-> e.name]}
<1>1. PICK e \in table : e \in Found(t) /\ e.id = op[t].id
  BY DEF Found
<1>2. \A f \in Found(t) : f = e
  BY <1>1 DEF Found, TableShape
<1>3. Found(t) = {e}
  BY <1>1, <1>2
<1> QED BY <1>1, <1>3

(* OpenPort looks for the name with the device open, and finds nothing:    *)
(* whoever had it in ports_ would have it open.                            *)
LEMMA NameIsNew ==
    ASSUME IInv, NEW t \in Threads, pc[t] = "publish"
    PROVE  SameName(t) = {}
<1> USE DEF IInv, TypeOK
<1>1. PICK r \in Reference : held[t] = {r}
  BY OneReference
<1>2. handle[r.port] = DevicePath(op[t].name) /\ \A e \in table : e.port # r.port
  BY <1>1 DEF HandsShape, HeldShape, Owning
<1>3. DevicePath(op[t].name) # Invalid
  BY PathIsADevice, InvalidAssumption DEF CallShape
<1>4. ASSUME NEW e \in SameName(t) PROVE FALSE
  <2>1. e \in table /\ handle[e.port] = DevicePath(op[t].name)
    BY DEF SameName, TableShape
  <2>2. e.port \in Ports /\ r.port \in Ports
    BY <2>1 DEF Entry, Reference
  <2> QED BY <1>2, <1>3, <2>1, <2>2 DEF TableShape, IsOpen
<1> QED BY <1>4

(* So it always publishes the port it opened.                              *)
LEMMA PublishPublishes ==
    ASSUME IInv, NEW t \in Threads, Publish(t)
    PROVE  /\ SameName(t) = {}
           /\ mutex = Nobody
           /\ pc[t] = "publish" /\ pc' = [pc EXCEPT ![t] = "return"]
           /\ \E r \in Reference :
                 /\ held[t] = {r} /\ r.name = op[t].name
                 /\ table' = table \cup {[id |-> next_port_id, port |-> r.port, name |-> r.name]}
           /\ out' = [out EXCEPT ![t] = next_port_id]
           /\ next_port_id' = next_port_id + 1
           /\ ret' = [ret EXCEPT ![t] = "SUCCESS"]
           /\ UNCHANGED <<handle, mutex, busy, op, held, listing, budget>>
<1>1. pc[t] = "publish" /\ mutex = Nobody
  BY DEF Publish, MutexFree
<1>2. SameName(t) = {}
  BY <1>1, NameIsNew
<1>3. PICK r \in Reference : held[t] = {r}
  BY <1>1, OneReference DEF IInv
<1>4. r.name = op[t].name
  BY <1>1, <1>3 DEF IInv, HeldShape
<1>5. table' = table \cup {[id |-> next_port_id, port |-> r.port, name |-> r.name]}
  <2>1. table' = table \cup
            {[id |-> next_port_id, port |-> s.port, name |-> s.name] : s \in held[t]}
    BY <1>2 DEF Publish
  <2> QED BY <2>1, <1>3
<1> QED BY <1>1, <1>2, <1>3, <1>4, <1>5 DEF Publish, Goto, Answer

(* A step keeps the types.                                                 *)
LEMMA TypeOKStep == IInv /\ [Next]_vars => TypeOK'
<1> SUFFICES ASSUME IInv, [Next]_vars PROVE TypeOK'
  OBVIOUS
<1>0. TypeOK /\ CallShape /\ HeldShape /\ HandsShape /\ TableShape /\ LockShape /\ ListingShape
  BY DEF IInv
<1> USE <1>0
<1> USE DEF TypeOK, Goto, Answer, PCs, ErrorCodes
<1>1. ASSUME NEW t \in Threads, Call(t) PROVE TypeOK'
  <2>1. PICK o \in Callable : op' = [op EXCEPT ![t] = o] /\ Goto(t, Entering(o))
    BY <1>1 DEF Call
  <2>2. o \in Operations /\ Entering(o) \in PCs
    BY DEF Callable, Operations, Entering
  <2>3. budget' \in Nat
    BY <1>1 DEF Call
  <2> QED BY <1>1, <2>1, <2>2, <2>3 DEF Call
<1>2. ASSUME NEW t \in Threads, CreateFile(t) PROVE TypeOK'
  <2>1. op[t].name \in Names
    BY <1>2 DEF CreateFile, CallShape
  <2> QED BY <1>2, <2>1, PathIsADevice DEF CreateFile, Reference
<1>3. ASSUME NEW t \in Threads, CreateFileFails(t) PROVE TypeOK'
  BY <1>3 DEF CreateFileFails
<1>4. ASSUME NEW t \in Threads, Setup(t) PROVE TypeOK'
  BY <1>4 DEF Setup
<1>5. ASSUME NEW t \in Threads, SetupFails(t) PROVE TypeOK'
  BY <1>5 DEF SetupFails, CloseHandles
<1>6. ASSUME NEW t \in Threads, Publish(t) PROVE TypeOK'
  <2>1. PICK r \in Reference :
            table' = table \cup {[id |-> next_port_id, port |-> r.port, name |-> r.name]}
    BY <1>6, PublishPublishes
  <2>2. table' \subseteq Entry
    BY <2>1 DEF Entry, Reference
  <2>3. /\ pc' = [pc EXCEPT ![t] = "return"] /\ ret' = [ret EXCEPT ![t] = "SUCCESS"]
        /\ out' = [out EXCEPT ![t] = next_port_id] /\ next_port_id' = next_port_id + 1
        /\ UNCHANGED <<handle, mutex, busy, op, held, listing, budget>>
    BY <1>6, PublishPublishes
  <2> QED BY <2>2, <2>3
<1>7. ASSUME NEW t \in Threads, ErasePort(t) PROVE TypeOK'
  <2>1. {[port |-> e.port, name |-> e.name] : e \in Found(t)} \in SUBSET Reference
    BY DEF Found, Entry, Reference
  <2> QED BY <1>7, <2>1 DEF ErasePort
<1>8. ASSUME NEW t \in Threads, ClosePort(t) PROVE TypeOK'
  BY <1>8 DEF ClosePort, CloseHandles
<1>9. ASSUME NEW t \in Threads, GetPort(t) PROVE TypeOK'
  <2>1. {[port |-> e.port, name |-> e.name] : e \in Found(t)} \in SUBSET Reference
    BY DEF Found, Entry, Reference
  <2> QED BY <1>9, <2>1 DEF GetPort
<1>10. ASSUME NEW t \in Threads, EnsureOpen(t) PROVE TypeOK'
  <2>1. PICK p \in HeldPorts(t) : busy' = [busy EXCEPT ![p] = t] \/ busy' = busy
    BY <1>10 DEF EnsureOpen
  <2>2. busy' \in [Ports -> Threads \cup {Nobody}]
    BY <2>1
  <2>3. pc' \in [Threads -> PCs] /\ ret' \in [Threads -> ErrorCodes]
    BY <1>10 DEF EnsureOpen
  <2> QED BY <1>10, <2>2, <2>3 DEF EnsureOpen
<1>11. ASSUME NEW t \in Threads, FinishOperation(t) PROVE TypeOK'
  BY <1>11 DEF FinishOperation, OperationResults
<1>12. ASSUME NEW t \in Threads, ReadAttached(t) PROVE TypeOK'
  <2>1. PICK attached \in SUBSET [device : Devices, prefixed : {FALSE}] :
            listing' = [listing EXCEPT ![t] = [NoListing EXCEPT !.attached = attached]]
    BY <1>12 DEF ReadAttached
  <2>2. attached \in SUBSET Names
    BY DEF Names
  <2>3. [NoListing EXCEPT !.attached = attached] \in
            [attached : SUBSET Names, todo : SUBSET Entry, is_open : SUBSET Names]
    BY <2>2 DEF NoListing
  <2>4. listing' \in [Threads ->
            [attached : SUBSET Names, todo : SUBSET Entry, is_open : SUBSET Names]]
    BY <2>1, <2>3
  <2>5. pc' \in [Threads -> PCs]
    BY <1>12 DEF ReadAttached
  <2> QED BY <1>12, <2>4, <2>5 DEF ReadAttached
<1>13. ASSUME NEW t \in Threads, BeginListing(t) PROVE TypeOK'
  <2>1. ToProbe(t) \in SUBSET Entry
    BY DEF ToProbe
  <2>2. listing[t] \in [attached : SUBSET Names, todo : SUBSET Entry, is_open : SUBSET Names]
    OBVIOUS
  <2>3. listing' = [listing EXCEPT ![t].todo = ToProbe(t)]
    BY <1>13 DEF BeginListing
  <2>4. listing' \in [Threads ->
            [attached : SUBSET Names, todo : SUBSET Entry, is_open : SUBSET Names]]
    BY <2>1, <2>2, <2>3
  <2>5. pc' \in [Threads -> PCs] /\ mutex' = t
    BY <1>13 DEF BeginListing
  <2> QED BY <1>13, <2>4, <2>5 DEF BeginListing
<1>14. ASSUME NEW t \in Threads, Probe(t) PROVE TypeOK'
  <2>1. PICK e \in listing[t].todo :
            listing' = [listing EXCEPT ![t].todo = @ \ {e},
                          ![t].is_open = IF IsOpen(e.port) THEN @ \cup {e.name} ELSE @]
    BY <1>14 DEF Probe
  <2>2. listing[t] \in [attached : SUBSET Names, todo : SUBSET Entry, is_open : SUBSET Names]
    OBVIOUS
  <2>3. e \in Entry /\ e.name \in Names
    BY <2>2 DEF Entry
  <2> DEFINE found == IF IsOpen(e.port) THEN listing[t].is_open \cup {e.name}
                                        ELSE listing[t].is_open
  <2>4. found \in SUBSET Names /\ listing[t].todo \ {e} \in SUBSET Entry
    BY <2>2, <2>3
  <2>5. listing' = [listing EXCEPT ![t].todo = @ \ {e}, ![t].is_open = found]
    BY <2>1
  <2> HIDE DEF found
  <2>6. listing' \in [Threads ->
            [attached : SUBSET Names, todo : SUBSET Entry, is_open : SUBSET Names]]
    BY <2>2, <2>4, <2>5
  <2> QED BY <1>14, <2>6 DEF Probe
<1>15. ASSUME NEW t \in Threads, EndListing(t) PROVE TypeOK'
  BY <1>15 DEF EndListing
<1>16. ASSUME NEW t \in Threads, Return(t) PROVE TypeOK'
  BY <1>16 DEF Return, CloseHandles, NoListing
<1>17. CASE UNCHANGED vars
  BY <1>17 DEF vars
<1> QED
  BY <1>1, <1>2, <1>3, <1>4, <1>5, <1>6, <1>7, <1>8, <1>9, <1>10, <1>11,
     <1>12, <1>13, <1>14, <1>15, <1>16, <1>17
  DEF Next, Step

(* Where a call is goes on saying which kind of call it is.                *)
LEMMA CallShapeStep == IInv /\ [Next]_vars => CallShape'
<1> SUFFICES ASSUME IInv, [Next]_vars PROVE CallShape'
  OBVIOUS
<1>0. TypeOK /\ CallShape /\ HeldShape /\ HandsShape /\ TableShape /\ LockShape /\ ListingShape
  BY DEF IInv
<1> USE <1>0
<1> USE DEF TypeOK, CallShape, Goto, Answer, Operations
<1>1. ASSUME NEW t \in Threads, Call(t) PROVE CallShape'
  <2>1. PICK o \in Callable : op' = [op EXCEPT ![t] = o] /\ Goto(t, Entering(o))
    BY <1>1 DEF Call
  <2>2. /\ o.kind = "open" => Entering(o) = "create" /\ o \in [kind : {"open"}, name : Names]
        /\ o.kind = "close" => Entering(o) = "erase" /\ o \in [kind : {"close"}, id : Nat]
        /\ o.kind = "use" => Entering(o) = "lookup" /\ o \in [kind : {"use"}, id : Nat]
        /\ o.kind = "list" => Entering(o) = "enumerate" /\ o \in [kind : {"list"}]
        /\ o.kind \in {"open", "close", "use", "list"}
    BY DEF Callable, Entering
  <2> QED BY <1>1, <2>1, <2>2 DEF Call
<1>2. ASSUME NEW t \in Threads, CreateFile(t) PROVE CallShape'
  BY <1>2 DEF CreateFile
<1>3. ASSUME NEW t \in Threads, CreateFileFails(t) PROVE CallShape'
  BY <1>3 DEF CreateFileFails
<1>4. ASSUME NEW t \in Threads, Setup(t) PROVE CallShape'
  BY <1>4 DEF Setup
<1>5. ASSUME NEW t \in Threads, SetupFails(t) PROVE CallShape'
  BY <1>5 DEF SetupFails
<1>6. ASSUME NEW t \in Threads, Publish(t) PROVE CallShape'
  <2>1. /\ pc[t] = "publish" /\ pc' = [pc EXCEPT ![t] = "return"]
        /\ ret' = [ret EXCEPT ![t] = "SUCCESS"]
        /\ UNCHANGED <<op, held, handle, mutex, busy, listing, budget>>
    BY <1>6, PublishPublishes
  <2> QED BY <2>1
<1>7. ASSUME NEW t \in Threads, ErasePort(t) PROVE CallShape'
  BY <1>7 DEF ErasePort
<1>8. ASSUME NEW t \in Threads, ClosePort(t) PROVE CallShape'
  BY <1>8 DEF ClosePort
<1>9. ASSUME NEW t \in Threads, GetPort(t) PROVE CallShape'
  BY <1>9 DEF GetPort
<1>10. ASSUME NEW t \in Threads, EnsureOpen(t) PROVE CallShape'
  BY <1>10 DEF EnsureOpen
<1>11. ASSUME NEW t \in Threads, FinishOperation(t) PROVE CallShape'
  BY <1>11 DEF FinishOperation, OperationResults
<1>12. ASSUME NEW t \in Threads, ReadAttached(t) PROVE CallShape'
  BY <1>12 DEF ReadAttached
<1>13. ASSUME NEW t \in Threads, BeginListing(t) PROVE CallShape'
  BY <1>13 DEF BeginListing
<1>14. ASSUME NEW t \in Threads, Probe(t) PROVE CallShape'
  BY <1>14 DEF Probe
<1>15. ASSUME NEW t \in Threads, EndListing(t) PROVE CallShape'
  BY <1>15 DEF EndListing
<1>16. ASSUME NEW t \in Threads, Return(t) PROVE CallShape'
  BY <1>16 DEF Return
<1>17. CASE UNCHANGED vars
  BY <1>17 DEF vars
<1> QED
  BY <1>1, <1>2, <1>3, <1>4, <1>5, <1>6, <1>7, <1>8, <1>9, <1>10, <1>11,
     <1>12, <1>13, <1>14, <1>15, <1>16, <1>17
  DEF Next, Step

(* A call goes on having in its hands what its position says.              *)
LEMMA HeldShapeStep == IInv /\ [Next]_vars => HeldShape'
<1> SUFFICES ASSUME IInv, [Next]_vars PROVE HeldShape'
  OBVIOUS
<1>0. TypeOK /\ CallShape /\ HeldShape /\ HandsShape /\ TableShape /\ LockShape /\ ListingShape
  BY DEF IInv
<1> USE <1>0
<1> USE DEF TypeOK, HeldShape, Goto, Answer
<1>1. ASSUME NEW t \in Threads, Call(t) PROVE HeldShape'
  <2>1. PICK o \in Callable : op' = [op EXCEPT ![t] = o] /\ Goto(t, Entering(o))
    BY <1>1 DEF Call
  <2>2. Entering(o) \in {"create", "erase", "lookup", "enumerate"}
    BY DEF Callable, Entering
  <2> QED BY <1>1, <2>1, <2>2 DEF Call
<1>2. ASSUME NEW t \in Threads, CreateFile(t) PROVE HeldShape'
  <2>1. PICK p \in Ports : held' = [held EXCEPT ![t] = {[port |-> p, name |-> op[t].name]}]
    BY <1>2 DEF CreateFile
  <2>2. op[t].name \in Names
    BY <1>2 DEF CreateFile, CallShape
  <2> DEFINE r == [port |-> p, name |-> op[t].name]
  <2>3. r \in Reference /\ held'[t] = {r} /\ r.name = op[t].name
    BY <2>1, <2>2 DEF Reference
  <2>4. \A u \in Threads : u # t => held'[u] = held[u]
    BY <2>1
  <2> HIDE DEF r
  <2> QED BY <1>2, <2>3, <2>4 DEF CreateFile
<1>3. ASSUME NEW t \in Threads, CreateFileFails(t) PROVE HeldShape'
  BY <1>3 DEF CreateFileFails
<1>4. ASSUME NEW t \in Threads, Setup(t) PROVE HeldShape'
  BY <1>4 DEF Setup
<1>5. ASSUME NEW t \in Threads, SetupFails(t) PROVE HeldShape'
  BY <1>5 DEF SetupFails
<1>6. ASSUME NEW t \in Threads, Publish(t) PROVE HeldShape'
  <2>1. /\ pc[t] = "publish" /\ pc' = [pc EXCEPT ![t] = "return"]
        /\ ret' = [ret EXCEPT ![t] = "SUCCESS"]
        /\ UNCHANGED <<op, held, handle, mutex, busy, listing, budget>>
    BY <1>6, PublishPublishes
  <2> QED BY <2>1
<1>7. ASSUME NEW t \in Threads, ErasePort(t) PROVE HeldShape'
  <2>1. CASE Found(t) = {}
    BY <1>7, <2>1 DEF ErasePort
  <2>2. CASE Found(t) # {}
    <3>1. PICK e \in table :
              {[port |-> f.port, name |-> f.name] : f \in Found(t)}
                  = {[port |-> e.port, name |-> e.name]}
      BY <2>2, FoundIsOne
    <3>2. [port |-> e.port, name |-> e.name] \in Reference
      BY DEF Entry, Reference
    <3>3. \E r \in Reference : held'[t] = {r}
      BY <1>7, <3>1, <3>2 DEF ErasePort
    <3> QED BY <1>7, <2>2, <3>3 DEF ErasePort
  <2> QED BY <2>1, <2>2
<1>8. ASSUME NEW t \in Threads, ClosePort(t) PROVE HeldShape'
  BY <1>8 DEF ClosePort
<1>9. ASSUME NEW t \in Threads, GetPort(t) PROVE HeldShape'
  <2>1. CASE Found(t) = {}
    BY <1>9, <2>1 DEF GetPort
  <2>2. CASE Found(t) # {}
    <3>1. PICK e \in table :
              {[port |-> f.port, name |-> f.name] : f \in Found(t)}
                  = {[port |-> e.port, name |-> e.name]}
      BY <2>2, FoundIsOne
    <3>2. [port |-> e.port, name |-> e.name] \in Reference
      BY DEF Entry, Reference
    <3>3. \E r \in Reference : held'[t] = {r}
      BY <1>9, <3>1, <3>2 DEF GetPort
    <3> QED BY <1>9, <2>2, <3>3 DEF GetPort
  <2> QED BY <2>1, <2>2
<1>10. ASSUME NEW t \in Threads, EnsureOpen(t) PROVE HeldShape'
  BY <1>10 DEF EnsureOpen
<1>11. ASSUME NEW t \in Threads, FinishOperation(t) PROVE HeldShape'
  BY <1>11 DEF FinishOperation
<1>12. ASSUME NEW t \in Threads, ReadAttached(t) PROVE HeldShape'
  BY <1>12 DEF ReadAttached
<1>13. ASSUME NEW t \in Threads, BeginListing(t) PROVE HeldShape'
  BY <1>13 DEF BeginListing
<1>14. ASSUME NEW t \in Threads, Probe(t) PROVE HeldShape'
  BY <1>14 DEF Probe
<1>15. ASSUME NEW t \in Threads, EndListing(t) PROVE HeldShape'
  BY <1>15 DEF EndListing
<1>16. ASSUME NEW t \in Threads, Return(t) PROVE HeldShape'
  BY <1>16 DEF Return
<1>17. CASE UNCHANGED vars
  BY <1>17 DEF vars
<1> QED
  BY <1>1, <1>2, <1>3, <1>4, <1>5, <1>6, <1>7, <1>8, <1>9, <1>10, <1>11,
     <1>12, <1>13, <1>14, <1>15, <1>16, <1>17
  DEF Next, Step

(* Ports in a thread's hands: who makes or closes one has it alone.        *)
LEMMA HandsShapeStep == IInv /\ [Next]_vars => HandsShape'
<1> SUFFICES ASSUME IInv, [Next]_vars PROVE HandsShape'
  OBVIOUS
<1>0. TypeOK /\ CallShape /\ HeldShape /\ HandsShape /\ TableShape /\ LockShape /\ ListingShape
  BY DEF IInv
<1> USE <1>0
<1> USE DEF TypeOK, HeldShape, HandsShape, Owning, HeldPorts, Goto, Answer
<1>1. ASSUME NEW t \in Threads, Call(t) PROVE HandsShape'
  <2>1. PICK o \in Callable : op' = [op EXCEPT ![t] = o] /\ Goto(t, Entering(o))
    BY <1>1 DEF Call
  <2>2. Entering(o) \in {"create", "erase", "lookup", "enumerate"}
    BY DEF Callable, Entering
  <2> QED BY <1>1, <2>1, <2>2 DEF Call
<1>2. ASSUME NEW t \in Threads, CreateFile(t) PROVE HandsShape'
  <2>1. PICK p \in Ports \ Referenced :
            /\ handle' = [handle EXCEPT ![p] = DevicePath(op[t].name)]
            /\ held' = [held EXCEPT ![t] = {[port |-> p, name |-> op[t].name]}]
    BY <1>2 DEF CreateFile
  <2>2. /\ \A e \in table : e.port # p
        /\ \A u \in Threads : \A r \in held[u] : r.port # p /\ r \in Reference
    BY DEF Referenced
  <2> DEFINE n == [port |-> p, name |-> op[t].name]
  <2>3. /\ held'[t] = {n} /\ n.port = p /\ n.name = op[t].name
        /\ \A u \in Threads : u # t => held'[u] = held[u]
    BY <2>1
  <2>4. /\ handle'[p] = DevicePath(op[t].name)
        /\ \A q \in Ports : q # p => handle'[q] = handle[q]
    BY <2>1
  <2>5. pc[t] = "create" /\ pc' = [pc EXCEPT ![t] = "setup"] /\ table' = table
    BY <1>2 DEF CreateFile
  <2> HIDE DEF n
  <2> QED BY <2>2, <2>3, <2>4, <2>5 DEF Reference
<1>3. ASSUME NEW t \in Threads, CreateFileFails(t) PROVE HandsShape'
  BY <1>3 DEF CreateFileFails
<1>4. ASSUME NEW t \in Threads, Setup(t) PROVE HandsShape'
  BY <1>4 DEF Setup
<1>5. ASSUME NEW t \in Threads, SetupFails(t) PROVE HandsShape'
  <2>1. PICK s \in Reference : held[t] = {s} /\ HeldPorts(t) = {s.port}
    BY <1>5, OneReference DEF SetupFails
  <2>2. /\ pc[t] = "setup" /\ pc' = [pc EXCEPT ![t] = "return"]
        /\ UNCHANGED <<table, held>>
    BY <1>5 DEF SetupFails
  <2>3. \A q \in Ports : handle'[q] = IF q = s.port THEN Invalid ELSE handle[q]
    BY <1>5, <2>1 DEF SetupFails, CloseHandles
  <2>4. \A u \in Threads : \A r \in held[u] : r.port \in Ports
    BY DEF Reference
  <2>5. \A u \in Threads : u # t => s.port \notin HeldPorts(u)
    BY <2>1, <2>2
  <2>6. \A u \in Threads : u # t => \A r \in held[u] : handle'[r.port] = handle[r.port]
    BY <2>3, <2>4, <2>5
  <2>7. \A u \in Threads : u # t => pc'[u] = pc[u]
    BY <2>2
  <2> QED BY <2>2, <2>6, <2>7
<1>6. ASSUME NEW t \in Threads, Publish(t) PROVE HandsShape'
  <2>1. PICK r \in Reference :
            /\ held[t] = {r} /\ r.name = op[t].name
            /\ table' = table \cup {[id |-> next_port_id, port |-> r.port, name |-> r.name]}
    BY <1>6, PublishPublishes
  <2>2. /\ pc[t] = "publish" /\ pc' = [pc EXCEPT ![t] = "return"] /\ mutex = Nobody
        /\ next_port_id' = next_port_id + 1
        /\ UNCHANGED <<op, held, handle, mutex, busy, listing>>
    BY <1>6, PublishPublishes
  <2> DEFINE e == [id |-> next_port_id, port |-> r.port, name |-> r.name]
  <2>3. e.port = r.port /\ table' = table \cup {e}
    BY <2>1
  <2> HIDE DEF e
  <2> QED BY <2>1, <2>2, <2>3
<1>7. ASSUME NEW t \in Threads, ErasePort(t) PROVE HandsShape'
  <2>1. CASE Found(t) = {}
    <3>1. held'[t] = {}
      BY <1>7, <2>1 DEF ErasePort
    <3> QED BY <1>7, <2>1, <3>1 DEF ErasePort
  <2>2. CASE Found(t) # {}
    <3>1. PICK e \in table :
              /\ Found(t) = {e}
              /\ {[port |-> f.port, name |-> f.name] : f \in Found(t)}
                     = {[port |-> e.port, name |-> e.name]}
      BY <2>2, FoundIsOne
    <3> DEFINE n == [port |-> e.port, name |-> e.name]
    <3>2. n.port = e.port /\ n.name = e.name
      OBVIOUS
    <3>3. held' = [held EXCEPT ![t] = {n}]
      BY <1>7, <3>1 DEF ErasePort
    <3> HIDE DEF n
    <3>4. handle[e.port] = DevicePath(e.name) /\ \A f \in table : f.port = e.port => f = e
      BY DEF TableShape
    <3>5. /\ table' = table \ {e} /\ UNCHANGED handle
          /\ pc[t] = "erase" /\ pc' = [pc EXCEPT ![t] = "closing"]
      BY <1>7, <2>2, <3>1 DEF ErasePort
    <3> QED BY <3>2, <3>3, <3>4, <3>5
  <2> QED BY <2>1, <2>2
<1>8. ASSUME NEW t \in Threads, ClosePort(t) PROVE HandsShape'
  <2>1. PICK s \in Reference : held[t] = {s} /\ HeldPorts(t) = {s.port}
    BY <1>8, OneReference DEF ClosePort
  <2>2. /\ pc[t] = "closing" /\ pc' = [pc EXCEPT ![t] = "return"]
        /\ UNCHANGED <<table, held>>
    BY <1>8 DEF ClosePort
  <2>3. \A q \in Ports : handle'[q] = IF q = s.port THEN Invalid ELSE handle[q]
    BY <1>8, <2>1 DEF ClosePort, CloseHandles
  <2>4. \A u \in Threads : \A r \in held[u] : r.port \in Ports
    BY DEF Reference
  <2>5. \A u \in Threads : pc[u] = "in_port" => s.port \notin HeldPorts(u)
    <3>1. busy[s.port] = Nobody
      BY <1>8, <2>1 DEF ClosePort
    <3> QED BY <3>1, <2>1, NobodyAssumption DEF LockShape, Reference
  <2> QED BY <2>1, <2>2, <2>3, <2>4, <2>5
<1>9. ASSUME NEW t \in Threads, GetPort(t) PROVE HandsShape'
  <2>1. CASE Found(t) = {}
    <3>1. held'[t] = {}
      BY <1>9, <2>1 DEF GetPort
    <3> QED BY <1>9, <2>1, <3>1 DEF GetPort
  <2>2. CASE Found(t) # {}
    <3>1. PICK e \in table :
              /\ Found(t) = {e}
              /\ {[port |-> f.port, name |-> f.name] : f \in Found(t)}
                     = {[port |-> e.port, name |-> e.name]}
      BY <2>2, FoundIsOne
    <3> DEFINE n == [port |-> e.port, name |-> e.name]
    <3>2. n.port = e.port /\ n.name = e.name
      OBVIOUS
    <3>3. held' = [held EXCEPT ![t] = {n}]
      BY <1>9, <3>1 DEF GetPort
    <3> HIDE DEF n
    <3>4. handle[e.port] = DevicePath(e.name) /\ \A f \in table : f.port = e.port => f = e
      BY DEF TableShape
    <3>5. /\ UNCHANGED <<table, handle>>
          /\ pc[t] = "lookup" /\ pc' = [pc EXCEPT ![t] = "acquire"]
      BY <1>9, <2>2, <3>1 DEF GetPort
    <3> QED BY <3>2, <3>3, <3>4, <3>5
  <2> QED BY <2>1, <2>2
<1>10. ASSUME NEW t \in Threads, EnsureOpen(t) PROVE HandsShape'
  <2>1. PICK p \in HeldPorts(t) : IsOpen(p) => pc' = [pc EXCEPT ![t] = "in_port"]
    BY <1>10 DEF EnsureOpen
  <2>2. CASE IsOpen(p)
    <3>1. handle[p] # Invalid
      BY <2>2 DEF IsOpen
    <3>2. PICK s \in Reference : held[t] = {s} /\ HeldPorts(t) = {s.port}
      BY <1>10, OneReference DEF EnsureOpen
    <3>3. handle[s.port] = DevicePath(s.name)
      BY <1>10, <2>1, <3>1, <3>2 DEF EnsureOpen
    <3>4. pc' = [pc EXCEPT ![t] = "in_port"] /\ UNCHANGED <<table, handle, held>>
      BY <1>10, <2>1, <2>2 DEF EnsureOpen
    <3> QED BY <3>2, <3>3, <3>4
  <2>3. CASE ~IsOpen(p)
    <3>1. \A q \in HeldPorts(t) : q = p
      BY <1>10, OneReference DEF EnsureOpen
    <3>2. pc' = [pc EXCEPT ![t] = "return"]
      BY <1>10, <2>1, <2>3, <3>1 DEF EnsureOpen
    <3> QED BY <1>10, <3>2 DEF EnsureOpen
  <2> QED BY <2>2, <2>3
<1>11. ASSUME NEW t \in Threads, FinishOperation(t) PROVE HandsShape'
  BY <1>11 DEF FinishOperation
<1>12. ASSUME NEW t \in Threads, ReadAttached(t) PROVE HandsShape'
  BY <1>12 DEF ReadAttached
<1>13. ASSUME NEW t \in Threads, BeginListing(t) PROVE HandsShape'
  BY <1>13 DEF BeginListing
<1>14. ASSUME NEW t \in Threads, Probe(t) PROVE HandsShape'
  BY <1>14 DEF Probe
<1>15. ASSUME NEW t \in Threads, EndListing(t) PROVE HandsShape'
  BY <1>15 DEF EndListing
<1>16. ASSUME NEW t \in Threads, Return(t) PROVE HandsShape'
  <2>1. /\ pc' = [pc EXCEPT ![t] = "idle"] /\ table' = table
        /\ held' = [held EXCEPT ![t] = {}]
    BY <1>16 DEF Return
  <2>2. \A u \in Threads : \A r \in held'[u] :
            u # t /\ r \in held[u] /\ handle'[r.port] = handle[r.port]
    <3> SUFFICES ASSUME NEW u \in Threads, NEW r \in held'[u]
                 PROVE  u # t /\ r \in held[u] /\ handle'[r.port] = handle[r.port]
      OBVIOUS
    <3>1. u # t /\ r \in held[u] /\ r.port \in Ports
      BY <2>1 DEF Reference
    <3>2. r.port \in Referenced'
      BY DEF Referenced
    <3> QED BY <1>16, <3>1, <3>2 DEF Return, CloseHandles
  <2> QED BY <2>1, <2>2
<1>17. CASE UNCHANGED vars
  BY <1>17 DEF vars
<1> QED
  BY <1>1, <1>2, <1>3, <1>4, <1>5, <1>6, <1>7, <1>8, <1>9, <1>10, <1>11,
     <1>12, <1>13, <1>14, <1>15, <1>16, <1>17
  DEF Next, Step

(* The mutexes are held where the positions say.                           *)
LEMMA LockShapeStep == IInv /\ [Next]_vars => LockShape'
<1> SUFFICES ASSUME IInv, [Next]_vars PROVE LockShape'
  OBVIOUS
<1>0. TypeOK /\ CallShape /\ HeldShape /\ HandsShape /\ TableShape /\ LockShape /\ ListingShape
  BY DEF IInv
<1> USE <1>0
<1> USE DEF TypeOK, LockShape, HeldPorts, Goto, Answer
<1>1. ASSUME NEW t \in Threads, Call(t) PROVE LockShape'
  <2>1. PICK o \in Callable : op' = [op EXCEPT ![t] = o] /\ Goto(t, Entering(o))
    BY <1>1 DEF Call
  <2>2. Entering(o) \in {"create", "erase", "lookup", "enumerate"}
    BY DEF Callable, Entering
  <2> QED BY <1>1, <2>1, <2>2 DEF Call
<1>2. ASSUME NEW t \in Threads, CreateFile(t) PROVE LockShape'
  <2>1. /\ pc[t] = "create" /\ pc' = [pc EXCEPT ![t] = "setup"] /\ UNCHANGED <<mutex, busy>>
        /\ \A u \in Threads : u # t => held'[u] = held[u]
    BY <1>2 DEF CreateFile
  <2> QED BY <2>1
<1>3. ASSUME NEW t \in Threads, CreateFileFails(t) PROVE LockShape'
  BY <1>3 DEF CreateFileFails
<1>4. ASSUME NEW t \in Threads, Setup(t) PROVE LockShape'
  BY <1>4 DEF Setup
<1>5. ASSUME NEW t \in Threads, SetupFails(t) PROVE LockShape'
  BY <1>5 DEF SetupFails
<1>6. ASSUME NEW t \in Threads, Publish(t) PROVE LockShape'
  <2>1. PICK r \in Reference :
            /\ held[t] = {r} /\ r.name = op[t].name
            /\ table' = table \cup {[id |-> next_port_id, port |-> r.port, name |-> r.name]}
    BY <1>6, PublishPublishes
  <2>2. /\ pc[t] = "publish" /\ pc' = [pc EXCEPT ![t] = "return"] /\ mutex = Nobody
        /\ next_port_id' = next_port_id + 1
        /\ UNCHANGED <<op, held, handle, mutex, busy, listing>>
    BY <1>6, PublishPublishes
  <2> QED BY <2>2
<1>7. ASSUME NEW t \in Threads, ErasePort(t) PROVE LockShape'
  <2>1. /\ pc[t] = "erase" /\ UNCHANGED <<mutex, busy>>
        /\ pc' = [pc EXCEPT ![t] = "closing"] \/ pc' = [pc EXCEPT ![t] = "return"]
        /\ \A u \in Threads : u # t => held'[u] = held[u]
    BY <1>7 DEF ErasePort
  <2>2. \A u \in Threads : u # t => pc'[u] = pc[u] /\ HeldPorts(u)' = HeldPorts(u)
    BY <2>1
  <2>3. {pc[t], pc'[t]} \cap {"probing", "in_port"} = {}
    BY <2>1
  <2> HIDE DEF HeldPorts
  <2> QED BY <2>1, <2>2, <2>3
<1>8. ASSUME NEW t \in Threads, ClosePort(t) PROVE LockShape'
  BY <1>8 DEF ClosePort
<1>9. ASSUME NEW t \in Threads, GetPort(t) PROVE LockShape'
  <2>1. /\ pc[t] = "lookup" /\ UNCHANGED <<mutex, busy>>
        /\ pc' = [pc EXCEPT ![t] = "acquire"] \/ pc' = [pc EXCEPT ![t] = "return"]
        /\ \A u \in Threads : u # t => held'[u] = held[u]
    BY <1>9 DEF GetPort
  <2>2. \A u \in Threads : u # t => pc'[u] = pc[u] /\ HeldPorts(u)' = HeldPorts(u)
    BY <2>1
  <2>3. {pc[t], pc'[t]} \cap {"probing", "in_port"} = {}
    BY <2>1
  <2> HIDE DEF HeldPorts
  <2> QED BY <2>1, <2>2, <2>3
<1>10. ASSUME NEW t \in Threads, EnsureOpen(t) PROVE LockShape'
  <2>1. PICK s \in Reference : held[t] = {s} /\ HeldPorts(t) = {s.port}
    BY <1>10, OneReference DEF EnsureOpen
  <2>2. pc[t] = "acquire" /\ busy[s.port] = Nobody /\ UNCHANGED <<mutex, held>>
    BY <1>10, <2>1 DEF EnsureOpen
  <2>3. CASE IsOpen(s.port)
    <3>1. busy' = [busy EXCEPT ![s.port] = t] /\ pc' = [pc EXCEPT ![t] = "in_port"]
      BY <1>10, <2>1, <2>3 DEF EnsureOpen
    <3>2. \A q \in Ports : busy'[q] = IF q = s.port THEN t ELSE busy[q]
      BY <3>1
    <3>3. \A u \in Threads : HeldPorts(u)' = HeldPorts(u)
      BY <2>2
    <3>4. \A u \in Threads : pc'[u] = IF u = t THEN "in_port" ELSE pc[u]
      BY <3>1
    <3> HIDE DEF HeldPorts
    <3> QED BY <2>1, <2>2, <3>2, <3>3, <3>4, NobodyAssumption DEF Reference
  <2>4. CASE ~IsOpen(s.port)
    <3>1. busy' = busy /\ pc' = [pc EXCEPT ![t] = "return"]
      BY <1>10, <2>1, <2>4 DEF EnsureOpen
    <3> QED BY <2>2, <3>1
  <2> QED BY <2>3, <2>4
<1>11. ASSUME NEW t \in Threads, FinishOperation(t) PROVE LockShape'
  <2>1. /\ pc[t] = "in_port" /\ pc' = [pc EXCEPT ![t] = "return"] /\ UNCHANGED <<mutex, held>>
        /\ \A q \in Ports : busy'[q] = IF q \in HeldPorts(t) THEN Nobody ELSE busy[q]
    BY <1>11 DEF FinishOperation
  <2>2. \A u \in Threads : HeldPorts(u)' = HeldPorts(u)
    BY <2>1
  <2> HIDE DEF HeldPorts
  <2> QED BY <2>1, <2>2, NobodyAssumption
<1>12. ASSUME NEW t \in Threads, ReadAttached(t) PROVE LockShape'
  BY <1>12 DEF ReadAttached
<1>13. ASSUME NEW t \in Threads, BeginListing(t) PROVE LockShape'
  BY <1>13, NobodyAssumption DEF BeginListing, MutexFree
<1>14. ASSUME NEW t \in Threads, Probe(t) PROVE LockShape'
  BY <1>14 DEF Probe
<1>15. ASSUME NEW t \in Threads, EndListing(t) PROVE LockShape'
  BY <1>15, NobodyAssumption DEF EndListing
<1>16. ASSUME NEW t \in Threads, Return(t) PROVE LockShape'
  BY <1>16 DEF Return
<1>17. CASE UNCHANGED vars
  BY <1>17 DEF vars
<1> QED
  BY <1>1, <1>2, <1>3, <1>4, <1>5, <1>6, <1>7, <1>8, <1>9, <1>10, <1>11,
     <1>12, <1>13, <1>14, <1>15, <1>16, <1>17
  DEF Next, Step

(* ports_ and the open handles go on agreeing.                             *)
LEMMA TableShapeStep == IInv /\ [Next]_vars => TableShape'
<1> SUFFICES ASSUME IInv, [Next]_vars PROVE TableShape'
  OBVIOUS
<1>0. TypeOK /\ CallShape /\ HeldShape /\ HandsShape /\ TableShape /\ LockShape /\ ListingShape
  BY DEF IInv
<1> USE <1>0
<1> USE DEF TypeOK, TableShape, IsOpen, Goto, Answer
<1>1. ASSUME NEW t \in Threads, Call(t) PROVE TableShape'
  BY <1>1 DEF Call
<1>2. ASSUME NEW t \in Threads, CreateFile(t) PROVE TableShape'
  <2>1. PICK p \in Ports \ Referenced :
            handle' = [handle EXCEPT ![p] = DevicePath(op[t].name)]
    BY <1>2 DEF CreateFile
  <2>2. \A q \in Ports : handle[q] # DevicePath(op[t].name)
    BY <1>2 DEF CreateFile
  <2>3. \A q \in Ports : handle'[q] = IF q = p THEN DevicePath(op[t].name) ELSE handle[q]
    BY <2>1
  <2>4. \A e \in table : e.port # p /\ e.port \in Ports
    BY DEF Referenced, Entry
  <2>5. UNCHANGED <<table, next_port_id>>
    BY <1>2 DEF CreateFile
  <2>6. \A p1, p2 \in Ports : handle'[p1] = handle'[p2] /\ handle'[p1] # Invalid => p1 = p2
    BY <2>2, <2>3
  <2> QED BY <2>3, <2>4, <2>5, <2>6
<1>3. ASSUME NEW t \in Threads, CreateFileFails(t) PROVE TableShape'
  BY <1>3 DEF CreateFileFails
<1>4. ASSUME NEW t \in Threads, Setup(t) PROVE TableShape'
  BY <1>4 DEF Setup
<1>5. ASSUME NEW t \in Threads, SetupFails(t) PROVE TableShape'
  <2>1. PICK s \in Reference : held[t] = {s} /\ HeldPorts(t) = {s.port}
    BY <1>5, OneReference DEF SetupFails
  <2>2. \A e \in table : e.port # s.port /\ e.port \in Ports
    BY <1>5, <2>1 DEF SetupFails, HandsShape, Owning, Entry
  <2>3. \A q \in Ports : handle'[q] = IF q = s.port THEN Invalid ELSE handle[q]
    BY <1>5, <2>1 DEF SetupFails, CloseHandles
  <2>4. UNCHANGED <<table, next_port_id>>
    BY <1>5 DEF SetupFails
  <2>5. \A p, q \in Ports : handle'[p] = handle'[q] /\ handle'[p] # Invalid => p = q
    BY <2>3
  <2> QED BY <2>2, <2>3, <2>4, <2>5
<1>6. ASSUME NEW t \in Threads, Publish(t) PROVE TableShape'
  <2>1. PICK r \in Reference :
            /\ held[t] = {r} /\ r.name = op[t].name
            /\ table' = table \cup {[id |-> next_port_id, port |-> r.port, name |-> r.name]}
    BY <1>6, PublishPublishes
  <2>2. /\ pc[t] = "publish" /\ pc' = [pc EXCEPT ![t] = "return"] /\ mutex = Nobody
        /\ next_port_id' = next_port_id + 1
        /\ UNCHANGED <<op, held, handle, mutex, busy, listing>>
    BY <1>6, PublishPublishes
  <2> DEFINE n == [id |-> next_port_id, port |-> r.port, name |-> r.name]
  <2>3. n.id = next_port_id /\ n.port = r.port /\ n.name = r.name /\ table' = table \cup {n}
    BY <2>1
  <2> HIDE DEF n
  <2>4. handle[r.port] = DevicePath(r.name) /\ \A e \in table : e.port # r.port
    BY <2>1, <2>2 DEF HandsShape, Owning
  <2>5. \A e \in table : e.id # next_port_id /\ e.id \in 1 .. next_port_id' - 1
    BY <2>2
  <2>6. next_port_id \in 1 .. next_port_id' - 1
    BY <2>2
  <2>7. \A e, f \in table' : e.id = f.id \/ e.port = f.port => e = f
    BY <2>3, <2>4, <2>5
  <2>8. \A e \in table' : e.id \in 1 .. next_port_id' - 1 /\ handle'[e.port] = DevicePath(e.name)
    BY <2>2, <2>3, <2>4, <2>5, <2>6
  <2> QED BY <2>2, <2>7, <2>8
<1>7. ASSUME NEW t \in Threads, ErasePort(t) PROVE TableShape'
  BY <1>7 DEF ErasePort
<1>8. ASSUME NEW t \in Threads, ClosePort(t) PROVE TableShape'
  <2>1. PICK s \in Reference : held[t] = {s} /\ HeldPorts(t) = {s.port}
    BY <1>8, OneReference DEF ClosePort
  <2>2. \A e \in table : e.port # s.port /\ e.port \in Ports
    BY <1>8, <2>1 DEF ClosePort, HandsShape, Owning, Entry
  <2>3. \A q \in Ports : handle'[q] = IF q = s.port THEN Invalid ELSE handle[q]
    BY <1>8, <2>1 DEF ClosePort, CloseHandles
  <2>4. UNCHANGED <<table, next_port_id>>
    BY <1>8 DEF ClosePort
  <2>5. \A p, q \in Ports : handle'[p] = handle'[q] /\ handle'[p] # Invalid => p = q
    BY <2>3
  <2> QED BY <2>2, <2>3, <2>4, <2>5
<1>9. ASSUME NEW t \in Threads, GetPort(t) PROVE TableShape'
  BY <1>9 DEF GetPort
<1>10. ASSUME NEW t \in Threads, EnsureOpen(t) PROVE TableShape'
  BY <1>10 DEF EnsureOpen
<1>11. ASSUME NEW t \in Threads, FinishOperation(t) PROVE TableShape'
  BY <1>11 DEF FinishOperation
<1>12. ASSUME NEW t \in Threads, ReadAttached(t) PROVE TableShape'
  BY <1>12 DEF ReadAttached
<1>13. ASSUME NEW t \in Threads, BeginListing(t) PROVE TableShape'
  BY <1>13 DEF BeginListing
<1>14. ASSUME NEW t \in Threads, Probe(t) PROVE TableShape'
  BY <1>14 DEF Probe
<1>15. ASSUME NEW t \in Threads, EndListing(t) PROVE TableShape'
  BY <1>15 DEF EndListing
<1>16. ASSUME NEW t \in Threads, Return(t) PROVE TableShape'
  <2>1. UNCHANGED <<table, next_port_id>>
    BY <1>16 DEF Return
  <2>2. \A q \in Ports : handle'[q] = IF q \in Referenced' THEN handle[q] ELSE Invalid
    BY <1>16 DEF Return, CloseHandles
  <2>3. \A e \in table : e.port \in Referenced' /\ e.port \in Ports
    BY <2>1 DEF Referenced, Entry
  <2> QED BY <2>1, <2>2, <2>3
<1>17. CASE UNCHANGED vars
  BY <1>17 DEF vars
<1> QED
  BY <1>1, <1>2, <1>3, <1>4, <1>5, <1>6, <1>7, <1>8, <1>9, <1>10, <1>11,
     <1>12, <1>13, <1>14, <1>15, <1>16, <1>17
  DEF Next, Step

(* A step of a thread leaves what the others have as it is.                *)
LEMMA TouchesItsOwn ==
    ASSUME TypeOK, NEW t \in Threads, Call(t) \/ Step(t), NEW u \in Threads, u # t
    PROVE  /\ pc'[u] = pc[u] /\ op'[u] = op[u] /\ ret'[u] = ret[u] /\ out'[u] = out[u]
           /\ held'[u] = held[u] /\ listing'[u] = listing[u]
<1> USE DEF TypeOK, Goto, Answer
<1>1. CASE Call(t) \/ CreateFile(t) \/ CreateFileFails(t) \/ Setup(t) \/ SetupFails(t)
  BY <1>1 DEF Call, CreateFile, CreateFileFails, Setup, SetupFails
<1>2. CASE Publish(t) \/ ErasePort(t) \/ ClosePort(t) \/ GetPort(t) \/ EnsureOpen(t)
  BY <1>2 DEF Publish, ErasePort, ClosePort, GetPort, EnsureOpen
<1>3. CASE FinishOperation(t) \/ ReadAttached(t) \/ BeginListing(t) \/ EndListing(t) \/ Return(t)
  BY <1>3 DEF FinishOperation, ReadAttached, BeginListing, EndListing, Return
<1>4. CASE Probe(t)
  BY <1>4 DEF Probe
<1> QED BY <1>1, <1>2, <1>3, <1>4 DEF Step

(* ports_ changes while nobody holds the manager's mutex.                  *)
LEMMA TableChangesUnlocked ==
    ASSUME NEW t \in Threads, Call(t) \/ Step(t), table' # table
    PROVE  mutex = Nobody
<1>1. Publish(t) \/ ErasePort(t)
  BY DEF Step, Call, CreateFile, CreateFileFails, Setup, SetupFails, ClosePort, GetPort,
     EnsureOpen, FinishOperation, ReadAttached, BeginListing, Probe, EndListing, Return
<1> QED BY <1>1 DEF Publish, ErasePort, MutexFree

(* A listing goes on as it is when ports_ and what it gathered do.         *)
LEMMA ListingKept ==
    ASSUME NEW u \in Threads, ListingShapeOf(u), pc'[u] = pc[u], listing'[u] = listing[u],
           pc[u] = "probing" => table' = table
    PROVE  ListingShapeOf(u)'
BY DEF ListingShapeOf, ToProbe

(* A listing goes on from the ports it began with.                         *)
LEMMA ListingShapeStep == IInv /\ [Next]_vars => ListingShape'
<1> SUFFICES ASSUME IInv, [Next]_vars, NEW u \in Threads PROVE ListingShapeOf(u)'
  BY DEF ListingShape
<1>0. TypeOK /\ LockShape /\ TableShape /\ ListingShapeOf(u)
  BY DEF IInv, ListingShape
<1>1. ASSUME NEW t \in Threads, Call(t) \/ Step(t), t # u PROVE ListingShapeOf(u)'
  <2>1. pc[u] = "probing" => table' = table
    BY <1>0, <1>1, TableChangesUnlocked, NobodyAssumption DEF LockShape
  <2> QED BY <1>0, <1>1, <2>1, TouchesItsOwn, ListingKept
<1>2. CASE Call(u)
  <2>1. PICK o \in Callable : pc' = [pc EXCEPT ![u] = Entering(o)]
    BY <1>2 DEF Call, Goto
  <2>2. Entering(o) \in {"create", "erase", "lookup", "enumerate"}
    BY DEF Callable, Entering
  <2>3. pc'[u] \notin {"list", "probing"}
    BY <1>0, <2>1, <2>2 DEF TypeOK
  <2> QED BY <2>3 DEF ListingShapeOf
<1>3. CASE
        \/ CreateFile(u) \/ CreateFileFails(u) \/ Setup(u) \/ SetupFails(u) \/ Publish(u)
        \/ ErasePort(u) \/ ClosePort(u) \/ GetPort(u) \/ EnsureOpen(u) \/ FinishOperation(u)
        \/ EndListing(u) \/ Return(u)
  <2>1. pc'[u] \notin {"list", "probing"}
    BY <1>0, <1>3
    DEF TypeOK, Goto, CreateFile, CreateFileFails, Setup, SetupFails, Publish, ErasePort,
        ClosePort, GetPort, EnsureOpen, FinishOperation, EndListing, Return
  <2> QED BY <2>1 DEF ListingShapeOf
<1>4. CASE ReadAttached(u)
  <2>1. pc'[u] = "list" /\ listing'[u].is_open = {}
    BY <1>0, <1>4 DEF ReadAttached, TypeOK, Goto, NoListing
  <2> QED BY <2>1 DEF ListingShapeOf
<1>5. CASE BeginListing(u)
  <2>1. pc[u] = "list" /\ pc'[u] = "probing" /\ table' = table
    BY <1>0, <1>5 DEF BeginListing, TypeOK, Goto
  <2>2. listing[u] \in [attached : SUBSET Names, todo : SUBSET Entry, is_open : SUBSET Names]
    BY <1>0 DEF TypeOK
  <2>3. listing' = [listing EXCEPT ![u].todo = ToProbe(u)]
    BY <1>5 DEF BeginListing
  <2>4. /\ listing'[u].todo = ToProbe(u) /\ listing'[u].is_open = listing[u].is_open
        /\ listing'[u].attached = listing[u].attached
    BY <1>0, <2>2, <2>3 DEF TypeOK
  <2>5. ToProbe(u)' = ToProbe(u) /\ ToProbe(u) \subseteq table
    BY <2>1, <2>4 DEF ToProbe
  <2>6. listing[u].is_open = {}
    BY <1>0, <2>1 DEF ListingShapeOf
  <2> QED BY <2>1, <2>4, <2>5, <2>6 DEF ListingShapeOf
<1>6. CASE Probe(u)
  <2>1. PICK e \in listing[u].todo :
            listing' = [listing EXCEPT ![u].todo = @ \ {e},
                          ![u].is_open = IF IsOpen(e.port) THEN @ \cup {e.name} ELSE @]
    BY <1>6 DEF Probe
  <2>2. pc[u] = "probing" /\ pc'[u] = pc[u] /\ table' = table
    BY <1>6 DEF Probe
  <2>3. listing[u].todo \subseteq table
    BY <1>0, <2>2 DEF ListingShapeOf
  <2>4. IsOpen(e.port)
    <3>1. e \in table /\ e.name \in Names
      BY <1>0, <2>3 DEF TypeOK, Entry
    <3> QED BY <1>0, <3>1, PathIsADevice, InvalidAssumption DEF TableShape, IsOpen
  <2>5. listing[u] \in [attached : SUBSET Names, todo : SUBSET Entry, is_open : SUBSET Names]
    BY <1>0 DEF TypeOK
  <2>6. /\ listing'[u].todo = listing[u].todo \ {e}
        /\ listing'[u].is_open = listing[u].is_open \cup {e.name}
        /\ listing'[u].attached = listing[u].attached
    BY <1>0, <2>1, <2>4, <2>5 DEF TypeOK
  <2>7. ToProbe(u)' = ToProbe(u)
    BY <2>2, <2>6 DEF ToProbe
  <2>8. \A n \in Names :
            n \in listing'[u].is_open \/ (\E f \in listing'[u].todo : f.name = n)
                <=> n \in listing[u].is_open \/ (\E f \in listing[u].todo : f.name = n)
    BY <2>6
  <2>9. \A n \in Names :
            n \in listing[u].is_open \/ (\E f \in listing[u].todo : f.name = n)
                <=> \E f \in ToProbe(u) : f.name = n
    BY <1>0, <2>2 DEF ListingShapeOf
  <2>10. listing'[u].todo \subseteq table'
    BY <2>2, <2>3, <2>6
  <2> HIDE DEF ToProbe
  <2>11. \A n \in Names :
            n \in listing'[u].is_open \/ (\E f \in listing'[u].todo : f.name = n)
                <=> \E f \in ToProbe(u)' : f.name = n
    BY <2>7, <2>8, <2>9
  <2> QED BY <2>2, <2>10, <2>11 DEF ListingShapeOf
<1>7. CASE UNCHANGED vars
  BY <1>0, <1>7, ListingKept DEF vars
<1> QED BY <1>1, <1>2, <1>3, <1>4, <1>5, <1>6, <1>7 DEF Next, Step

(* An entry that is new in ports_ has the next identifier.                 *)
LEMMA NewEntry ==
    ASSUME IInv, NEW t \in Threads, Call(t) \/ Step(t), NEW e \in table', e \notin table
    PROVE  e.id = next_port_id
<1>1. Publish(t)
  BY DEF Step, Call, CreateFile, CreateFileFails, Setup, SetupFails, ErasePort, ClosePort,
     GetPort, EnsureOpen, FinishOperation, ReadAttached, BeginListing, Probe, EndListing, Return
<1> QED BY <1>1, PublishPublishes

(* Identifiers only grow.                                                  *)
LEMMA IdentifiersGrow ==
    ASSUME IInv, NEW t \in Threads, Call(t) \/ Step(t)
    PROVE  next_port_id \in Nat /\ next_port_id' \in Nat /\ next_port_id <= next_port_id'
<1>1. next_port_id \in Nat
  BY DEF IInv, TypeOK
<1>2. CASE Publish(t)
  BY <1>1, <1>2, PublishPublishes
<1>3. CASE ~Publish(t)
  <2>1. next_port_id' = next_port_id
    BY <1>3
    DEF Step, Call, CreateFile, CreateFileFails, Setup, SetupFails, ErasePort, ClosePort,
        GetPort, EnsureOpen, FinishOperation, ReadAttached, BeginListing, Probe, EndListing, Return
  <2> QED BY <1>1, <2>1
<1> QED BY <1>2, <1>3

(* An entry leaves ports_ when the call that closes it begins to.          *)
LEMMA GoneEntry ==
    ASSUME IInv, NEW t \in Threads, Call(t) \/ Step(t), NEW e \in table, e \notin table'
    PROVE  ErasePort(t) /\ e.id = op[t].id
<1>1. Publish(t) \/ ErasePort(t)
  BY DEF Step, Call, CreateFile, CreateFileFails, Setup, SetupFails, ClosePort, GetPort,
     EnsureOpen, FinishOperation, ReadAttached, BeginListing, Probe, EndListing, Return
<1>2. ~Publish(t)
  BY PublishPublishes
<1> QED BY <1>1, <1>2 DEF ErasePort, Found

(* A close begins with its entry in ports_.                                *)
LEMMA BeginsToClose ==
    ASSUME IInv, NEW t \in Threads, Call(t) \/ Step(t), pc'[t] = "closing"
    PROVE  ErasePort(t) /\ Found(t) # {}
<1> USE DEF IInv, TypeOK, Goto
<1>1. CASE Call(t)
  <2>1. PICK o \in Callable : pc' = [pc EXCEPT ![t] = Entering(o)]
    BY <1>1 DEF Call
  <2>2. Entering(o) # "closing"
    BY DEF Callable, Entering
  <2> QED BY <2>1, <2>2
<1>2. CASE Step(t) /\ ~ErasePort(t)
  BY <1>2
  DEF Step, CreateFile, CreateFileFails, Setup, SetupFails, Publish, ClosePort, GetPort,
      EnsureOpen, FinishOperation, ReadAttached, BeginListing, Probe, EndListing, Return
<1>3. CASE ErasePort(t)
  BY <1>3 DEF ErasePort
<1> QED BY <1>1, <1>2, <1>3

(* A port that somebody refers to is not opened.                           *)
LEMMA NotOpenedAnew ==
    ASSUME IInv, NEW t \in Threads, Call(t) \/ Step(t),
           NEW v \in Threads, NEW r \in held[v], IsOpen(r.port)'
    PROVE  IsOpen(r.port)
<1>1. r.port \in Ports /\ r.port \in Referenced
  BY DEF IInv, TypeOK, Reference, Referenced
<1>2. handle \in [Ports -> Devices \cup {Invalid}]
  BY DEF IInv, TypeOK
<1>3. CASE CreateFile(t)
  <2>1. PICK p \in Ports \ Referenced : handle' = [handle EXCEPT ![p] = DevicePath(op[t].name)]
    BY <1>3 DEF CreateFile
  <2> QED BY <1>1, <1>2, <2>1 DEF IsOpen
<1>4. CASE ~CreateFile(t)
  <2>1. handle' = handle \/ \E ports : CloseHandles(ports)
    BY <1>4
    DEF Step, Call, CreateFileFails, Setup, SetupFails, Publish, ErasePort, ClosePort, GetPort,
        EnsureOpen, FinishOperation, ReadAttached, BeginListing, Probe, EndListing, Return
  <2> QED BY <1>1, <1>2, <2>1 DEF IsOpen, CloseHandles
<1> QED BY <1>3, <1>4

(* An identifier is closed once.                                           *)
LEMMA ClosingShapeStep ==
    ASSUME IInv, [Next]_vars
    PROVE  \A u \in Threads : ClosingShapeOf(u)'
<1> SUFFICES ASSUME NEW u \in Threads, pc'[u] = "closing" PROVE ClosingShapeOf(u)'
  BY DEF ClosingShapeOf
<1>0. TypeOK /\ TableShape /\ \A w \in Threads : ClosingShapeOf(w)
  BY DEF IInv, IdentifierShape
<1>1. CASE UNCHANGED vars
  BY <1>0, <1>1 DEF vars, ClosingShapeOf
<1>2. ASSUME NEW t \in Threads, Call(t) \/ Step(t) PROVE ClosingShapeOf(u)'
  <2>1. /\ next_port_id \in Nat /\ next_port_id' \in Nat /\ next_port_id <= next_port_id'
        /\ \A e \in table : e.id \in Nat /\ e.id < next_port_id
    BY <1>0, <1>2, IdentifiersGrow DEF TypeOK, TableShape, Entry
  <2>2. CASE u = t
    <3>1. ErasePort(u) /\ Found(u) # {}
      BY <1>2, <2>2, BeginsToClose
    <3>2. PICK f \in table : f.id = op[u].id
      BY <3>1 DEF Found
    <3>3. op' = op /\ table' = table \ Found(u) /\ next_port_id' = next_port_id
      BY <3>1 DEF ErasePort
    <3>4. \A e \in table' : e.id # op'[u].id
      BY <3>3 DEF Found
    <3>5. \A w \in Threads : pc'[w] = "closing" /\ op'[w].id = op'[u].id => w = u
      BY <1>0, <1>2, <2>2, <3>2, <3>3, TouchesItsOwn DEF ClosingShapeOf
    <3> QED BY <2>1, <3>2, <3>3, <3>4, <3>5 DEF ClosingShapeOf
  <2>3. CASE u # t
    <3>1. /\ pc[u] = "closing" /\ op'[u] = op[u]
          /\ \A w \in Threads : w # t => pc'[w] = pc[w] /\ op'[w] = op[w]
      BY <1>0, <1>2, <2>3, TouchesItsOwn
    <3>2. /\ op[u].id < next_port_id /\ \A e \in table : e.id # op[u].id
          /\ \A w \in Threads : pc[w] = "closing" /\ op[w].id = op[u].id => w = u
      BY <1>0, <3>1 DEF ClosingShapeOf
    <3>3. op[u].id \in Nat
      BY <3>1 DEF IInv, CallShape
    <3>4. \A e \in table' : e.id # op'[u].id
      BY <1>2, <2>1, <3>1, <3>2, <3>3, NewEntry
    <3>5. pc'[t] = "closing" => op'[t].id # op[u].id
      <4> SUFFICES ASSUME pc'[t] = "closing" PROVE op'[t].id # op[u].id
        OBVIOUS
      <4>1. ErasePort(t) /\ Found(t) # {}
        BY <1>2, BeginsToClose
      <4> QED BY <3>2, <4>1 DEF ErasePort, Found
    <3> QED BY <2>1, <3>1, <3>2, <3>3, <3>4, <3>5 DEF ClosingShapeOf
  <2> QED BY <2>2, <2>3
<1> QED BY <1>1, <1>2 DEF Next

(* A port that was looked up stays tied to its identifier.                 *)
LEMMA AcquireShapeStep ==
    ASSUME IInv, [Next]_vars
    PROVE  \A v \in Threads : AcquireShapeOf(v)'
<1> SUFFICES ASSUME NEW v \in Threads, pc'[v] = "acquire" PROVE AcquireShapeOf(v)'
  BY DEF AcquireShapeOf
<1>0. TypeOK /\ TableShape /\ HeldShape /\ AcquireShapeOf(v)
  BY DEF IInv, IdentifierShape
<1>1. CASE UNCHANGED vars
  BY <1>0, <1>1 DEF vars, AcquireShapeOf, IsOpen, HeldPorts
<1>2. ASSUME NEW t \in Threads, Call(t) \/ Step(t) PROVE AcquireShapeOf(v)'
  <2>1. /\ next_port_id \in Nat /\ next_port_id' \in Nat /\ next_port_id <= next_port_id'
        /\ \A e \in table : e.id \in Nat /\ e.id < next_port_id
    BY <1>0, <1>2, IdentifiersGrow DEF TypeOK, TableShape, Entry
  <2>2. CASE v = t
    <3>1. GetPort(v) /\ Found(v) # {}
      <4> USE <1>0 DEF TypeOK, Goto
      <4>1. CASE Call(v)
        <5>1. PICK o \in Callable : pc' = [pc EXCEPT ![v] = Entering(o)]
          BY <4>1 DEF Call
        <5>2. Entering(o) # "acquire"
          BY DEF Callable, Entering
        <5> QED BY <5>1, <5>2
      <4>2. CASE Step(v) /\ ~GetPort(v)
        BY <4>2
        DEF Step, CreateFile, CreateFileFails, Setup, SetupFails, Publish, ErasePort, ClosePort,
            EnsureOpen, FinishOperation, ReadAttached, BeginListing, Probe, EndListing, Return
      <4>3. CASE GetPort(v)
        BY <4>3 DEF GetPort
      <4> QED BY <1>2, <2>2, <4>1, <4>2, <4>3
    <3>2. /\ op' = op /\ table' = table /\ handle' = handle /\ next_port_id' = next_port_id
          /\ held'[v] = {[port |-> e.port, name |-> e.name] : e \in Found(v)}
      BY <1>0, <3>1 DEF GetPort, TypeOK
    <3>3. PICK e \in table : e.id = op[v].id
      BY <3>1 DEF Found
    <3>4. \A f \in table : f.id = op[v].id => f = e
      BY <1>0, <3>3 DEF TableShape
    <3>5. \A r \in held'[v] : r.port = e.port
      BY <3>2, <3>4 DEF Found
    <3> QED BY <2>1, <3>2, <3>3, <3>4, <3>5 DEF AcquireShapeOf
  <2>3. CASE v # t
    <3> SUFFICES ASSUME NEW r \in held'[v]
                 PROVE  /\ op'[v].id < next_port_id'
                        /\ \A e \in table' : e.id = op'[v].id => e.port = r.port
                        /\ IsOpen(r.port)' =>
                              \/ \E e \in table' : e.id = op'[v].id
                              \/ \E u \in Threads : /\ pc'[u] = "closing" /\ op'[u].id = op'[v].id
                                                    /\ r.port \in HeldPorts(u)'
      BY DEF AcquireShapeOf, IsOpen
    <3>1. pc[v] = "acquire" /\ op'[v] = op[v] /\ r \in held[v]
      BY <1>0, <1>2, <2>3, TouchesItsOwn
    <3>2. /\ op[v].id < next_port_id
          /\ \A e \in table : e.id = op[v].id => e.port = r.port
          /\ IsOpen(r.port) =>
                \/ \E e \in table : e.id = op[v].id
                \/ \E u \in Threads :
                      pc[u] = "closing" /\ op[u].id = op[v].id /\ r.port \in HeldPorts(u)
      BY <1>0, <3>1 DEF AcquireShapeOf
    <3>3. op[v].id \in Nat
      BY <3>1 DEF IInv, CallShape
    <3>4. op'[v].id < next_port_id' /\ \A e \in table' : e.id = op'[v].id => e.port = r.port
      BY <1>2, <2>1, <3>1, <3>2, <3>3, NewEntry
    <3>5. ASSUME IsOpen(r.port)', NEW e \in table, e.id = op[v].id
          PROVE  \/ \E f \in table' : f.id = op[v].id
                 \/ pc'[t] = "closing" /\ op'[t].id = op[v].id /\ r.port \in HeldPorts(t)'
      <4>1. CASE e \in table'
        BY <3>5, <4>1
      <4>2. CASE e \notin table'
        <5>1. ErasePort(t) /\ e \in Found(t) /\ e.id = op[t].id
          BY <1>2, <4>2, GoneEntry DEF Found
        <5>2. /\ pc'[t] = "closing" /\ op' = op
              /\ held'[t] = {[port |-> f.port, name |-> f.name] : f \in Found(t)}
          BY <1>0, <5>1 DEF ErasePort, TypeOK, Goto
        <5>3. e.port \in HeldPorts(t)' /\ e.port = r.port
          <6>1. e.port = r.port
            BY <3>2, <3>5
          <6>2. [port |-> e.port, name |-> e.name] \in held'[t]
            BY <5>1, <5>2
          <6>3. [port |-> e.port, name |-> e.name].port \in HeldPorts(t)'
            BY <6>2 DEF HeldPorts
          <6> QED BY <6>1, <6>3
        <5>4. op'[t].id = op[v].id
          BY <3>5, <5>1, <5>2
        <5>5. r.port \in HeldPorts(t)'
          BY <5>3
        <5> QED BY <5>2, <5>4, <5>5
      <4> QED BY <4>1, <4>2
    <3>6. ASSUME IsOpen(r.port)', NEW u \in Threads,
                 pc[u] = "closing", op[u].id = op[v].id, r.port \in HeldPorts(u)
          PROVE  pc'[u] = "closing" /\ op'[u].id = op[v].id /\ r.port \in HeldPorts(u)'
      <4>1. u # t
        <5> SUFFICES ASSUME u = t PROVE FALSE
          OBVIOUS
        <5>1. ClosePort(t)
          BY <1>2, <3>6
          DEF Step, Call, CreateFile, CreateFileFails, Setup, SetupFails, Publish, ErasePort,
              GetPort, EnsureOpen, FinishOperation, ReadAttached, BeginListing, Probe,
              EndListing, Return
        <5>2. handle'[r.port] = Invalid
          BY <1>0, <3>1, <3>6, <5>1 DEF ClosePort, CloseHandles, TypeOK, Reference
        <5> QED BY <3>6, <5>2 DEF IsOpen
      <4> QED BY <1>0, <1>2, <3>6, <4>1, TouchesItsOwn DEF HeldPorts
    <3>7. IsOpen(r.port)' => IsOpen(r.port)
      BY <1>2, <3>1, NotOpenedAnew
    <3> QED BY <3>1, <3>2, <3>4, <3>5, <3>6, <3>7
  <2> QED BY <2>2, <2>3
<1> QED BY <1>1, <1>2 DEF Next

(* Every step keeps the inductive invariant.                               *)
LEMMA IInvStep == IInv /\ [Next]_vars => IInv'
<1>1. ASSUME IInv, [Next]_vars PROVE IInv'
  <2>1. TypeOK' /\ CallShape' /\ HeldShape' /\ HandsShape'
    BY <1>1, TypeOKStep, CallShapeStep, HeldShapeStep, HandsShapeStep
  <2>2. TableShape' /\ LockShape' /\ ListingShape'
    BY <1>1, TableShapeStep, LockShapeStep, ListingShapeStep
  <2>3. IdentifierShape'
    BY <1>1, ClosingShapeStep, AcquireShapeStep DEF IdentifierShape
  <2> QED BY <2>1, <2>2, <2>3 DEF IInv
<1> QED BY <1>1

(* The inductive invariant holds in every state the manager can reach.     *)
THEOREM Invariance == Spec => []IInv
BY InitIInv, IInvStep, PTL DEF Spec

(* The manager's, the ports' and the calls' state keep their types.        *)
THEOREM TypeCorrect == Spec => []TypeOK
<1>1. IInv => TypeOK
  BY DEF IInv
<1> QED BY <1>1, Invariance, PTL

(* No device is twice in ports_, under whichever of its names, and what is *)
(* there is open, although OpenPort looks only after it opened the device. *)
THEOREM DeviceOpenOnce == Spec => []OneOpenPortPerDevice
<1>1. IInv => OneOpenPortPerDevice
  <2> SUFFICES ASSUME IInv PROVE OneOpenPortPerDevice
    OBVIOUS
  <2> USE DEF IInv, TypeOK
  <2>1. \A e \in table : handle[e.port] = DevicePath(e.name) /\ e.port \in Ports
    BY DEF TableShape, Entry
  <2>2. \A e \in table : handle[e.port] # Invalid
    BY <2>1, PathIsADevice, InvalidAssumption DEF Entry
  <2> QED BY <2>1, <2>2 DEF OneOpenPortPerDevice, TableShape, IsOpen
<1> QED BY <1>1, Invariance, PTL

(* A device operation runs on an open handle to its end, whoever closes    *)
(* the port meanwhile.                                                     *)
THEOREM HandleOutlives == Spec => []HandleOutlivesItsUse
<1>1. IInv => HandleOutlivesItsUse
  BY DEF IInv, TypeOK, HeldShape, HandsShape, LockShape, HeldPorts, Reference,
     HandleOutlivesItsUse
<1> QED BY <1>1, Invariance, PTL

(* A listing is a snapshot of ports_, although it asks port after port.    *)
THEOREM ListingsAreSnapshots == Spec => []ListingIsASnapshot
<1>1. IInv => ListingIsASnapshot
  <2> SUFFICES ASSUME IInv, NEW t \in Threads, pc[t] = "probing", listing[t].todo = {}
               PROVE  listing[t].is_open = {e.name : e \in ToProbe(t)}
    BY DEF ListingIsASnapshot
  <2>1. listing[t].is_open \subseteq Names /\ \A e \in ToProbe(t) : e.name \in Names
    BY DEF IInv, TypeOK, ToProbe, Entry
  <2>2. \A n \in Names : n \in listing[t].is_open <=> \E e \in ToProbe(t) : e.name = n
    BY DEF IInv, ListingShape, ListingShapeOf
  <2> QED BY <2>1, <2>2
<1> QED BY <1>1, Invariance, PTL

-----------------------------------------------------------------------------
(* The calls are regular: each step of the manager is one step of the      *)
(* shared registry, or none.                                               *)

(* What the registry has open.                                             *)
LEMMA InOpenPorts ==
    /\ \A x : x \in OpenPorts <=>
          \/ \E e \in table : x = [id |-> e.id, device |-> DevicePath(e.name)]
          \/ \E u \in Threads :
                /\ pc[u] = "closing"
                /\ \E r \in held[u] : x = [id |-> op[u].id, device |-> DevicePath(r.name)]
    /\ \A x : x \in OpenPorts' <=>
          \/ \E e \in table' : x = [id |-> e.id, device |-> DevicePath(e.name)]
          \/ \E u \in Threads :
                /\ pc'[u] = "closing"
                /\ \E r \in held'[u] : x = [id |-> op'[u].id, device |-> DevicePath(r.name)]
BY DEF OpenPorts, Closing, DevicePath

(* A step of a thread changes the registry's view of its call alone.       *)
LEMMA CallsChange ==
    ASSUME TypeOK, NEW t \in Threads, Call(t) \/ Step(t)
    PROVE  Calls' = [Calls EXCEPT ![t] = [op |-> RegistryOperation(t)', state |-> CallState(t)']]
<1>1. \A u \in Threads : u # t => op'[u] = op[u] /\ pc'[u] = pc[u] /\ ret'[u] = ret[u]
  BY TouchesItsOwn
<1>2. \A u \in Threads : u # t =>
          RegistryOperation(u)' = RegistryOperation(u) /\ CallState(u)' = CallState(u)
  BY <1>1 DEF RegistryOperation, CallState, Outcome, DevicePath
<1> QED BY <1>2 DEF Calls

(* A call whose state changes settles in the registry.                     *)
LEMMA CallsSettle ==
    ASSUME TypeOK, NEW t \in Threads, Call(t) \/ Step(t), op' = op,
           NEW from, NEW to, CallState(t) = from, CallState(t)' = to
    PROVE  Registry!Settle(t, from, to)
<1>1. RegistryOperation(t)' = RegistryOperation(t)
  BY DEF RegistryOperation, DevicePath
<1>2. Calls' = [Calls EXCEPT ![t] = [op |-> RegistryOperation(t), state |-> to]]
  BY <1>1, CallsChange
<1>3. Calls[t] = [op |-> RegistryOperation(t), state |-> from]
  BY DEF Calls
<1>4. [Calls[t] EXCEPT !.state = to] = [op |-> RegistryOperation(t), state |-> to]
  BY <1>3
<1>5. Calls' = [Calls EXCEPT ![t].state = to]
  BY <1>2, <1>4
<1> QED BY <1>3, <1>5 DEF Registry!Settle

(* A step that changes no call's state leaves the registry's calls.        *)
LEMMA CallsStutter ==
    ASSUME TypeOK, NEW t \in Threads, Call(t) \/ Step(t), op' = op, CallState(t)' = CallState(t)
    PROVE  Calls' = Calls
<1>1. RegistryOperation(t)' = RegistryOperation(t)
  BY DEF RegistryOperation, DevicePath
<1>2. /\ Calls[t] = [op |-> RegistryOperation(t), state |-> CallState(t)]
      /\ Calls = [u \in Threads |-> Calls[u]]
  BY DEF Calls
<1> QED BY <1>1, <1>2, CallsChange

(* A step outside a close leaves the registry's ports when it leaves       *)
(* ports_.                                                                 *)
LEMMA RegistryKept ==
    ASSUME TypeOK, NEW t \in Threads, Call(t) \/ Step(t),
           table' = table, pc[t] # "closing", pc'[t] # "closing"
    PROVE  OpenPorts' = OpenPorts /\ ClosingIds' = ClosingIds
<1>1. \A u \in Threads : (pc'[u] = "closing" <=> pc[u] = "closing")
  BY TouchesItsOwn
<1>2. \A u \in Threads : pc[u] = "closing" => op'[u] = op[u] /\ held'[u] = held[u]
  BY TouchesItsOwn
<1>3. \A x : x \in OpenPorts' <=> x \in OpenPorts
  BY <1>1, <1>2, InOpenPorts
<1>4. ClosingIds' = ClosingIds
  BY <1>1, <1>2 DEF ClosingIds
<1> QED BY <1>3, <1>4

(* The registry finds a port when the manager does, and otherwise only one *)
(* that is being closed.                                                   *)
LEMMA Lookups ==
    ASSUME IInv, NEW t \in Threads, op[t].kind \in {"close", "use"}
    PROVE  /\ Calls[t].op = op[t]
           /\ Found(t) # {} => Registry!Port(op[t]) # {} /\ op[t].id \notin ClosingIds
           /\ Found(t) = {} => Registry!Port(op[t]) = {} \/ op[t].id \in ClosingIds
<1>1. Calls[t].op = op[t]
  BY DEF Calls, RegistryOperation
<1>2. ASSUME NEW e \in Found(t) PROVE Registry!Port(op[t]) # {} /\ op[t].id \notin ClosingIds
  <2>1. e \in table /\ e.id = op[t].id
    BY <1>2 DEF Found
  <2>2. [id |-> e.id, device |-> DevicePath(e.name)] \in OpenPorts
    BY <2>1, InOpenPorts
  <2>3. \A u \in Threads : pc[u] = "closing" => op[u].id # e.id
    BY <2>1 DEF IInv, IdentifierShape, ClosingShapeOf
  <2> QED BY <2>1, <2>2, <2>3 DEF Registry!Port, ClosingIds
<1>3. ASSUME Found(t) = {}, NEW x \in Registry!Port(op[t]) PROVE op[t].id \in ClosingIds
  <2>1. x \in OpenPorts /\ x.id = op[t].id
    BY <1>3 DEF Registry!Port
  <2>2. \A e \in table : e.id # op[t].id
    BY <1>3 DEF Found
  <2>3. PICK u \in Threads : pc[u] = "closing" /\ op[u].id = op[t].id
    BY <2>1, <2>2, InOpenPorts
  <2> QED BY <2>3 DEF ClosingIds
<1> QED BY <1>1, <1>2, <1>3

(* No open port of the registry is on the device of one about to be        *)
(* published.                                                              *)
LEMMA DeviceIsFree ==
    ASSUME IInv, NEW t \in Threads, pc[t] = "publish"
    PROVE  \A x \in OpenPorts : x.device # DevicePath(op[t].name)
<1>1. PICK r \in Reference : held[t] = {r} /\ r.name = op[t].name
  BY OneReference DEF IInv, HeldShape
<1>2. /\ handle[r.port] = DevicePath(op[t].name) /\ r.port \in Ports
      /\ \A e \in table : e.port # r.port
      /\ \A u \in Threads : Owning(u) /\ r.port \in HeldPorts(u) => u = t
  BY <1>1 DEF IInv, HandsShape, Owning, Reference
<1>3. IsOpen(r.port)
  <2>1. op[t].name \in Names
    BY DEF IInv, CallShape
  <2> QED BY <1>2, <2>1, PathIsADevice, InvalidAssumption DEF IsOpen
<1>4. \A p \in Ports : handle[p] = handle[r.port] => p = r.port
  BY <1>2, <1>3 DEF IInv, TableShape, IsOpen
<1>5. ASSUME NEW e \in table PROVE DevicePath(e.name) # DevicePath(op[t].name)
  <2>1. handle[e.port] = DevicePath(e.name) /\ e.port \in Ports
    BY DEF IInv, TypeOK, Entry, TableShape
  <2> QED BY <1>2, <1>4, <2>1
<1>6. ASSUME NEW u \in Threads, pc[u] = "closing", NEW s \in held[u]
      PROVE  DevicePath(s.name) # DevicePath(op[t].name)
  <2>1. handle[s.port] = DevicePath(s.name) /\ s.port \in Ports /\ s.port \in HeldPorts(u)
    BY <1>6 DEF IInv, TypeOK, HandsShape, Owning, Reference, HeldPorts
  <2>2. s.port # r.port
    BY <1>2, <1>6, <2>1 DEF Owning
  <2> QED BY <1>2, <1>4, <2>1, <2>2
<1> QED BY <1>5, <1>6, InOpenPorts

(* A new manager is an empty registry.                                     *)
LEMMA RegistryInitial == Init => Registry!RegistryInit
<1> SUFFICES ASSUME Init PROVE Registry!RegistryInit
  OBVIOUS
<1>1. OpenPorts = {} /\ ClosingIds = {}
  BY InOpenPorts DEF Init, ClosingIds
<1>2. Calls = [t \in Threads |-> [op |-> Registry!NoOperation, state |-> "idle"]]
  BY DEF Init, Calls, CallState, RegistryOperation, NoOperation, Registry!NoOperation
<1>3. 1 .. next_port_id - 1 = {}
  BY DEF Init
<1> QED BY <1>1, <1>2, <1>3 DEF Registry!RegistryInit

(* Each step of the manager is a step of the registry or leaves it as it   *)
(* is.                                                                     *)
LEMMA RegistryStep ==
    IInv /\ [Next]_vars => [Registry!RegistryNext]_(Registry!rvars)
<1> SUFFICES ASSUME IInv, [Next]_vars
             PROVE  Registry!RegistryNext \/ UNCHANGED Registry!rvars
  OBVIOUS
<1>0. TypeOK /\ CallShape /\ HeldShape /\ HandsShape /\ TableShape
  BY DEF IInv
<1>1. ASSUME NEW t \in Threads, Call(t) PROVE Registry!Invoke(t)
  <2>1. PICK o \in Callable : op' = [op EXCEPT ![t] = o] /\ pc' = [pc EXCEPT ![t] = Entering(o)]
    BY <1>1 DEF Call, Goto
  <2>2. /\ o.kind = "open" => o \in [kind : {"open"}, name : Names]
        /\ o.kind # "open" => o \in [kind : {"close", "use"}, id : Nat] \cup [kind : {"list"}]
        /\ Entering(o) \in {"create", "erase", "lookup", "enumerate"}
    BY <1>0 DEF Callable, Entering, TypeOK
  <2>3. pc[t] = "idle" /\ op'[t] = o /\ pc'[t] = Entering(o) /\ UNCHANGED <<table, next_port_id>>
    BY <1>0, <1>1, <2>1 DEF Call, TypeOK
  <2>4. CallState(t) = "idle" /\ CallState(t)' = "pending"
    BY <2>2, <2>3 DEF CallState
  <2>5. RegistryOperation(t)' \in Registry!Operations
    BY <2>2, <2>3, PathIsADevice DEF RegistryOperation, Registry!Operations, DevicePath
  <2>6. Calls' = [Calls EXCEPT ![t] = [op |-> RegistryOperation(t)', state |-> "pending"]]
    BY <1>0, <1>1, <2>4, CallsChange
  <2>7. Calls'[t].op = RegistryOperation(t)' /\ Calls[t].state = "idle"
    BY <2>4 DEF Calls
  <2>8. OpenPorts' = OpenPorts /\ ClosingIds' = ClosingIds
    BY <1>0, <1>1, <2>2, <2>3, RegistryKept
  <2> QED BY <2>3, <2>5, <2>6, <2>7, <2>8 DEF Registry!Invoke
<1>2. ASSUME NEW t \in Threads,
             \/ CreateFile(t) \/ Setup(t) \/ ReadAttached(t)
             \/ BeginListing(t) \/ Probe(t) \/ GetPort(t),
             GetPort(t) => Found(t) # {}
      PROVE  UNCHANGED Registry!rvars
  <2>1. /\ Step(t) /\ UNCHANGED <<op, table, next_port_id>>
        /\ pc[t] # "closing" /\ pc'[t] # "closing"
    BY <1>0, <1>2
    DEF Step, TypeOK, Goto, CreateFile, Setup, ReadAttached, BeginListing, Probe, GetPort
  <2>2. CallState(t)' = CallState(t)
    <3>1. /\ pc[t] \in {"create", "setup", "enumerate", "list", "probing", "lookup"}
          /\ pc'[t] \in {"setup", "publish", "list", "probing", "acquire"}
      BY <1>0, <1>2
      DEF TypeOK, Goto, CreateFile, Setup, ReadAttached, BeginListing, Probe, GetPort
    <3> QED BY <3>1 DEF CallState
  <2>3. Calls' = Calls
    BY <1>0, <2>1, <2>2, CallsStutter
  <2>4. OpenPorts' = OpenPorts /\ ClosingIds' = ClosingIds
    BY <1>0, <2>1, RegistryKept
  <2> QED BY <2>1, <2>3, <2>4 DEF Registry!rvars
<1>3. ASSUME NEW t \in Threads, CreateFileFails(t) \/ SetupFails(t) PROVE Registry!OpenFails(t)
  <2>1. /\ Step(t) /\ UNCHANGED <<op, table, next_port_id>>
        /\ pc[t] \in {"create", "setup"} /\ pc'[t] = "return"
        /\ ret'[t] \in {"FILE_NOT_FOUND", "ACCESS_DENIED", "OTHER"}
    BY <1>0, <1>3 DEF Step, TypeOK, Goto, Answer, CreateFileFails, SetupFails
  <2>2. op[t].kind = "open"
    BY <1>0, <2>1 DEF CallShape
  <2>3. CallState(t) = "pending" /\ CallState(t)' = "failed"
    BY <2>1, <2>2 DEF CallState, Outcome, StatusFromErrorCode
  <2>4. Registry!Settle(t, "pending", "failed")
    BY <1>0, <2>1, <2>3, CallsSettle
  <2>5. Calls[t].op.kind = "open"
    BY <2>2 DEF Calls, RegistryOperation
  <2>6. OpenPorts' = OpenPorts /\ ClosingIds' = ClosingIds
    BY <1>0, <2>1, RegistryKept
  <2> QED BY <2>1, <2>4, <2>5, <2>6 DEF Registry!OpenFails
<1>4. ASSUME NEW t \in Threads, Publish(t) PROVE Registry!OpenTakesEffect(t)
  <2>1. PICK r \in Reference :
            /\ held[t] = {r} /\ r.name = op[t].name
            /\ table' = table \cup {[id |-> next_port_id, port |-> r.port, name |-> r.name]}
    BY <1>4, PublishPublishes
  <2>2. /\ pc[t] = "publish" /\ pc' = [pc EXCEPT ![t] = "return"] /\ op' = op /\ held' = held
        /\ next_port_id' = next_port_id + 1 /\ ret' = [ret EXCEPT ![t] = "SUCCESS"]
    BY <1>4, PublishPublishes
  <2>3. op[t].kind = "open"
    BY <1>0, <2>2 DEF CallShape
  <2>4. pc'[t] = "return" /\ ret'[t] = "SUCCESS" /\ op'[t] = op[t]
    BY <1>0, <2>2 DEF TypeOK
  <2>5. CallState(t) = "pending" /\ CallState(t)' = "ok"
    BY <2>2, <2>3, <2>4 DEF CallState, Outcome, StatusFromErrorCode
  <2>6. Registry!Settle(t, "pending", "ok")
    BY <1>0, <1>4, <2>2, <2>5, CallsSettle DEF Step
  <2>7. Calls[t].op = [kind |-> "open", device |-> DevicePath(op[t].name)]
    BY <2>3 DEF Calls, RegistryOperation
  <2> DEFINE port == [id |-> next_port_id, device |-> DevicePath(op[t].name)]
             entry == [id |-> next_port_id, port |-> r.port, name |-> r.name]
  <2>8. [id |-> entry.id, device |-> DevicePath(entry.name)] = port
    BY <2>1 DEF DevicePath
  <2>9. \A u \in Threads : (pc'[u] = "closing" <=> pc[u] = "closing")
    BY <1>0, <2>2 DEF TypeOK
  <2>10. OpenPorts' = OpenPorts \cup {port}
    <3>1. \A x : x \in OpenPorts' <=> x \in OpenPorts \/ x = port
      <4> HIDE DEF entry, port
      <4>1. \A e : e \in table' <=> e \in table \/ e = entry
        BY <2>1 DEF entry
      <4> QED BY <2>2, <2>8, <2>9, <4>1, InOpenPorts
    <3> QED BY <3>1
  <2>11. ClosingIds' = ClosingIds
    BY <2>2, <2>9 DEF ClosingIds
  <2>12. next_port_id \in Nat \ {0}
    BY <1>0 DEF TypeOK
  <2>13. /\ port.id \in Nat \ (1 .. next_port_id - 1)
         /\ 1 .. next_port_id' - 1 = (1 .. next_port_id - 1) \cup {port.id}
    BY <2>2, <2>12
  <2>14. \A x \in OpenPorts : x.device # Calls[t].op.device
    BY <2>2, <2>7, DeviceIsFree
  <2>15. port = [id |-> port.id, device |-> Calls[t].op.device] /\ Calls[t].op.kind = "open"
    BY <2>7
  <2> HIDE DEF port, entry
  <2> QED BY <2>6, <2>10, <2>11, <2>13, <2>14, <2>15 DEF Registry!OpenTakesEffect
<1>5. ASSUME NEW t \in Threads, ErasePort(t) PROVE Registry!CloseBegins(t) \/ Registry!NoSuchPort(t)
  <2>1. /\ pc[t] = "erase" /\ op' = op /\ next_port_id' = next_port_id /\ Step(t)
        /\ table' = table \ Found(t)
    BY <1>5 DEF ErasePort, Step
  <2>2. op[t].kind = "close" /\ CallState(t) = "pending"
    BY <1>0, <2>1 DEF CallShape, CallState
  <2>3. Calls[t].op = op[t]
    BY <2>2, Lookups
  <2>4. CASE Found(t) = {}
    <3>1. pc'[t] = "return" /\ ret'[t] = "FILE_NOT_FOUND" /\ table' = table
      BY <1>0, <1>5, <2>1, <2>4 DEF ErasePort, TypeOK, Goto, Answer
    <3>2. CallState(t)' = "no port"
      BY <2>1, <2>2, <3>1 DEF CallState, Outcome, StatusFromErrorCode
    <3>3. Registry!Settle(t, "pending", "no port")
      BY <1>0, <2>1, <2>2, <3>2, CallsSettle
    <3>4. OpenPorts' = OpenPorts /\ ClosingIds' = ClosingIds
      BY <1>0, <2>1, <3>1, RegistryKept
    <3>5. Registry!Port(op[t]) = {} \/ op[t].id \in ClosingIds
      BY <2>2, <2>4, Lookups
    <3> QED BY <2>1, <2>2, <2>3, <3>3, <3>4, <3>5 DEF Registry!NoSuchPort
  <2>5. CASE Found(t) # {}
    <3>1. /\ pc'[t] = "closing" /\ op'[t] = op[t]
          /\ held'[t] = {[port |-> e.port, name |-> e.name] : e \in Found(t)}
      BY <1>0, <1>5, <2>1, <2>5 DEF ErasePort, TypeOK, Goto
    <3>2. \A u \in Threads : u # t => pc'[u] = pc[u] /\ op'[u] = op[u] /\ held'[u] = held[u]
      BY <1>0, <2>1, TouchesItsOwn
    <3>3. CallState(t)' = "closing"
      BY <3>1 DEF CallState
    <3>4. Registry!Settle(t, "pending", "closing")
      BY <1>0, <2>1, <2>2, <3>3, CallsSettle
    <3>5. ClosingIds' = ClosingIds \cup {op[t].id}
      BY <2>1, <3>1, <3>2 DEF ClosingIds
    <3>6. \A e \in Found(t) : e \in table /\ e.id = op[t].id
      BY DEF Found
    <3>7. \A x : (\E r \in held'[t] : x = [id |-> op[t].id, device |-> DevicePath(r.name)])
             <=> \E e \in Found(t) : x = [id |-> e.id, device |-> DevicePath(e.name)]
      <4>1. PICK e \in Found(t) : TRUE
        BY <2>5
      <4>2. Found(t) = {e}
        BY <1>0, <3>6 DEF TableShape
      <4>3. held'[t] = {[port |-> e.port, name |-> e.name]}
        BY <3>1, <4>2
      <4>4. \A r \in held'[t] : r.name = e.name
        BY <4>3
      <4>5. \E r \in held'[t] : r.name = e.name
        BY <4>3
      <4> QED BY <3>6, <4>2, <4>4, <4>5
    <3>8. OpenPorts' = OpenPorts
      <4>1. \A x : x \in OpenPorts' <=> x \in OpenPorts
        BY <2>1, <3>1, <3>2, <3>6, <3>7, InOpenPorts
      <4> QED BY <4>1
    <3>9. Registry!Port(op[t]) # {} /\ op[t].id \notin ClosingIds
      BY <2>2, <2>5, Lookups
    <3> QED BY <2>1, <2>2, <2>3, <3>4, <3>5, <3>8, <3>9 DEF Registry!CloseBegins
  <2> QED BY <2>4, <2>5
<1>6. ASSUME NEW t \in Threads, ClosePort(t) PROVE Registry!CloseEnds(t)
  <2>1. /\ pc[t] = "closing" /\ pc'[t] = "return" /\ Step(t)
        /\ UNCHANGED <<op, table, next_port_id>>
    BY <1>0, <1>6 DEF ClosePort, Step, TypeOK, Goto
  <2>2. op[t].kind = "close"
    BY <1>0, <2>1 DEF CallShape
  <2>3. \A p \in HeldPorts(t) : IsOpen(p)
    <3> SUFFICES ASSUME NEW r \in held[t] PROVE IsOpen(r.port)
      BY DEF HeldPorts
    <3>1. handle[r.port] = DevicePath(r.name) /\ r.name \in Names
      BY <1>0, <2>1 DEF HandsShape, Owning, TypeOK, Reference
    <3> QED BY <3>1, PathIsADevice, InvalidAssumption DEF IsOpen
  <2>4. ret'[t] = "SUCCESS"
    BY <1>0, <1>6, <2>3 DEF ClosePort, TypeOK, Answer
  <2>5. CallState(t) = "closing" /\ CallState(t)' = "ok"
    BY <2>1, <2>2, <2>4 DEF CallState, Outcome, StatusFromErrorCode
  <2>6. Registry!Settle(t, "closing", "ok")
    BY <1>0, <2>1, <2>5, CallsSettle
  <2>7. Calls[t].op = op[t]
    BY <2>2 DEF Calls, RegistryOperation
  <2>8. \A u \in Threads : u # t => pc'[u] = pc[u] /\ held'[u] = held[u]
    BY <1>0, <2>1, TouchesItsOwn
  <2>9. /\ \A e \in table : e.id # op[t].id
        /\ \A u \in Threads : pc[u] = "closing" /\ op[u].id = op[t].id => u = t
    BY <2>1 DEF IInv, IdentifierShape, ClosingShapeOf
  <2>10. ClosingIds' = ClosingIds \ {op[t].id}
    BY <2>1, <2>8, <2>9 DEF ClosingIds
  <2>11. OpenPorts' = OpenPorts \ Registry!Port(op[t])
    <3>1. \A x : x \in OpenPorts' <=> x \in OpenPorts /\ x.id # op[t].id
      BY <2>1, <2>8, <2>9, InOpenPorts
    <3> QED BY <3>1 DEF Registry!Port
  <2> QED BY <2>1, <2>2, <2>6, <2>7, <2>10, <2>11 DEF Registry!CloseEnds
<1>7. ASSUME NEW t \in Threads, GetPort(t), Found(t) = {} PROVE Registry!NoSuchPort(t)
  <2>1. /\ pc[t] = "lookup" /\ pc'[t] = "return" /\ ret'[t] = "FILE_NOT_FOUND" /\ Step(t)
        /\ UNCHANGED <<op, table, next_port_id>>
    BY <1>0, <1>7 DEF GetPort, Step, TypeOK, Goto, Answer
  <2>2. op[t].kind = "use"
    BY <1>0, <2>1 DEF CallShape
  <2>3. CallState(t) = "pending" /\ CallState(t)' = "no port"
    BY <2>1, <2>2 DEF CallState, Outcome, StatusFromErrorCode
  <2>4. Registry!Settle(t, "pending", "no port")
    BY <1>0, <2>1, <2>3, CallsSettle
  <2>5. Calls[t].op = op[t] /\ (Registry!Port(op[t]) = {} \/ op[t].id \in ClosingIds)
    BY <1>7, <2>2, Lookups
  <2>6. OpenPorts' = OpenPorts /\ ClosingIds' = ClosingIds
    BY <1>0, <2>1, RegistryKept
  <2> QED BY <2>1, <2>2, <2>4, <2>5, <2>6 DEF Registry!NoSuchPort
<1>8. ASSUME NEW t \in Threads, EnsureOpen(t)
      PROVE  Registry!UseIsServed(t) \/ Registry!NoSuchPort(t)
  <2>1. /\ pc[t] = "acquire" /\ Step(t) /\ UNCHANGED <<op, table, next_port_id>>
    BY <1>8 DEF EnsureOpen, Step
  <2>2. op[t].kind = "use" /\ op[t].id \in Nat /\ CallState(t) = "pending"
    BY <1>0, <2>1 DEF CallShape, CallState
  <2>3. PICK r \in Reference : held[t] = {r} /\ HeldPorts(t) = {r.port}
    BY <1>0, <2>1, OneReference
  <2>4. Calls[t].op = op[t]
    BY <2>2, Lookups
  <2>5. /\ \A e \in table : e.id = op[t].id => e.port = r.port
        /\ IsOpen(r.port) =>
              \/ \E e \in table : e.id = op[t].id
              \/ \E u \in Threads :
                    pc[u] = "closing" /\ op[u].id = op[t].id /\ r.port \in HeldPorts(u)
    BY <2>1, <2>3 DEF IInv, IdentifierShape, AcquireShapeOf
  <2>6. CASE IsOpen(r.port)
    <3>1. pc'[t] = "in_port"
      BY <1>0, <1>8, <2>3, <2>6 DEF EnsureOpen, TypeOK, Goto
    <3>2. CallState(t)' = "served"
      BY <3>1 DEF CallState
    <3>3. Registry!Settle(t, "pending", "served")
      BY <1>0, <2>1, <2>2, <3>2, CallsSettle
    <3>4. OpenPorts' = OpenPorts /\ ClosingIds' = ClosingIds
      BY <1>0, <2>1, <3>1, RegistryKept
    <3>5. Registry!Port(op[t]) # {}
      <4>1. CASE \E e \in table : e.id = op[t].id
        BY <2>2, <4>1, Lookups DEF Found
      <4>2. CASE \E u \in Threads :
                    pc[u] = "closing" /\ op[u].id = op[t].id /\ r.port \in HeldPorts(u)
        <5>1. PICK u \in Threads :
                  pc[u] = "closing" /\ op[u].id = op[t].id /\ r.port \in HeldPorts(u)
          BY <4>2
        <5>2. PICK w \in held[u] : w.port = r.port
          BY <5>1 DEF HeldPorts
        <5>3. [id |-> op[u].id, device |-> DevicePath(w.name)] \in OpenPorts
          BY <5>1, <5>2, InOpenPorts
        <5>4. [id |-> op[u].id, device |-> DevicePath(w.name)].id = op[t].id
          BY <5>1
        <5> QED BY <5>3, <5>4 DEF Registry!Port
      <4> QED BY <2>5, <2>6, <4>1, <4>2
    <3> QED BY <2>1, <2>2, <2>4, <3>3, <3>4, <3>5 DEF Registry!UseIsServed
  <2>7. CASE ~IsOpen(r.port)
    <3>1. pc'[t] = "return" /\ ret'[t] = "INVALID_HANDLE"
      BY <1>0, <1>8, <2>3, <2>7 DEF EnsureOpen, TypeOK, Goto, Answer
    <3>2. CallState(t)' = "no port"
      BY <2>1, <2>2, <3>1 DEF CallState, Outcome, StatusFromErrorCode
    <3>3. Registry!Settle(t, "pending", "no port")
      BY <1>0, <2>1, <2>2, <3>2, CallsSettle
    <3>4. OpenPorts' = OpenPorts /\ ClosingIds' = ClosingIds
      BY <1>0, <2>1, <3>1, RegistryKept
    <3>5. \A e \in table : IsOpen(e.port)
      <4> SUFFICES ASSUME NEW e \in table PROVE IsOpen(e.port)
        OBVIOUS
      <4>1. handle[e.port] = DevicePath(e.name) /\ e.name \in Names
        BY <1>0 DEF TableShape, TypeOK, Entry
      <4> QED BY <4>1, PathIsADevice, InvalidAssumption DEF IsOpen
    <3>6. Found(t) = {}
      BY <2>5, <2>7, <3>5 DEF Found
    <3>7. Registry!Port(op[t]) = {} \/ op[t].id \in ClosingIds
      BY <2>2, <3>6, Lookups
    <3> QED BY <2>1, <2>2, <2>4, <3>3, <3>4, <3>7 DEF Registry!NoSuchPort
  <2> QED BY <2>6, <2>7
<1>9. ASSUME NEW t \in Threads, EndListing(t) PROVE Registry!Lists(t)
  <2>1. /\ pc[t] = "probing" /\ pc'[t] = "return" /\ ret'[t] = "SUCCESS" /\ Step(t)
        /\ UNCHANGED <<op, table, next_port_id>>
    BY <1>0, <1>9 DEF EndListing, Step, TypeOK, Goto, Answer
  <2>2. op[t].kind = "list"
    BY <1>0, <2>1 DEF CallShape
  <2>3. CallState(t) = "pending" /\ CallState(t)' = "ok"
    BY <2>1, <2>2 DEF CallState, Outcome, StatusFromErrorCode
  <2>4. Registry!Settle(t, "pending", "ok")
    BY <1>0, <2>1, <2>3, CallsSettle
  <2>5. Calls[t].op.kind = "list"
    BY <2>2 DEF Calls, RegistryOperation
  <2>6. OpenPorts' = OpenPorts /\ ClosingIds' = ClosingIds
    BY <1>0, <2>1, RegistryKept
  <2> QED BY <2>1, <2>4, <2>5, <2>6 DEF Registry!Lists
<1>10. ASSUME NEW t \in Threads, Return(t) PROVE Registry!Finish(t)
  <2>1. /\ pc[t] = "return" /\ pc'[t] = "idle" /\ op'[t] = NoOperation /\ Step(t)
        /\ UNCHANGED <<table, next_port_id>>
    BY <1>0, <1>10 DEF Return, Step, TypeOK, Goto
  <2>2. CallState(t) \in {"ok", "failed", "served", "no port"}
    BY <2>1 DEF CallState, Outcome
  <2>3. RegistryOperation(t)' = Registry!NoOperation /\ CallState(t)' = "idle"
    BY <2>1 DEF RegistryOperation, CallState, NoOperation, Registry!NoOperation
  <2>4. Calls' = [Calls EXCEPT ![t] = [op |-> Registry!NoOperation, state |-> "idle"]]
    BY <1>0, <2>1, <2>3, CallsChange
  <2>5. Calls[t].state = CallState(t)
    BY DEF Calls
  <2>6. OpenPorts' = OpenPorts /\ ClosingIds' = ClosingIds
    BY <1>0, <2>1, RegistryKept
  <2> QED BY <2>1, <2>2, <2>4, <2>5, <2>6 DEF Registry!Finish
<1>11. CASE UNCHANGED vars
  <2>1. Calls' = Calls
    BY <1>11 DEF vars, Calls, RegistryOperation, CallState, Outcome, DevicePath
  <2>2. OpenPorts' = OpenPorts /\ ClosingIds' = ClosingIds
    BY <1>11 DEF vars, OpenPorts, Closing, ClosingIds, DevicePath
  <2> QED BY <1>11, <2>1, <2>2 DEF vars, Registry!rvars
<1>12. ASSUME NEW t \in Threads, FinishOperation(t)
       PROVE  UNCHANGED Registry!rvars \/ Registry!DeviceIsGone(t)
  <2>1. /\ Step(t) /\ UNCHANGED <<op, table, next_port_id>>
        /\ pc[t] = "in_port" /\ pc'[t] = "return"
    BY <1>0, <1>12 DEF Step, FinishOperation, TypeOK, Goto
  <2>2. op[t].kind = "use"
    BY <1>0, <2>1 DEF CallShape
  <2>3. CallState(t) = "served" /\ CallState(t)' \in {"served", "no port"}
    BY <2>1, <2>2 DEF CallState, Outcome
  <2>4. OpenPorts' = OpenPorts /\ ClosingIds' = ClosingIds
    BY <1>0, <2>1, RegistryKept
  <2>5. CASE CallState(t)' = "served"
    <3>1. Calls' = Calls
      BY <1>0, <2>1, <2>3, <2>5, CallsStutter
    <3> QED BY <2>1, <2>4, <3>1 DEF Registry!rvars
  <2>6. CASE CallState(t)' = "no port"
    <3>1. Registry!Settle(t, "served", "no port")
      BY <1>0, <2>1, <2>3, <2>6, CallsSettle
    <3>2. Calls[t].op.kind = "use"
      BY <2>2 DEF Calls, RegistryOperation
    <3> QED BY <2>1, <2>4, <3>1, <3>2 DEF Registry!DeviceIsGone
  <2> QED BY <2>3, <2>5, <2>6
<1>13. CASE \E t \in Threads : Call(t) \/ Step(t)
  <2>1. PICK t \in Threads : Call(t) \/ Step(t)
    BY <1>13
  <2>2. CASE
          /\ \/ CreateFile(t) \/ Setup(t) \/ ReadAttached(t)
             \/ BeginListing(t) \/ Probe(t)
          /\ ~GetPort(t)
    BY <1>2, <2>2
  <2>3. CASE Call(t)
    BY <1>1, <2>3 DEF Registry!RegistryNext
  <2>4. CASE CreateFileFails(t) \/ SetupFails(t)
    BY <1>3, <2>4 DEF Registry!RegistryNext
  <2>5. CASE Publish(t)
    BY <1>4, <2>5 DEF Registry!RegistryNext
  <2>6. CASE ErasePort(t)
    BY <1>5, <2>6 DEF Registry!RegistryNext
  <2>7. CASE ClosePort(t)
    BY <1>6, <2>7 DEF Registry!RegistryNext
  <2>8. CASE GetPort(t)
    BY <1>2, <1>7, <2>8 DEF Registry!RegistryNext
  <2>9. CASE EnsureOpen(t)
    BY <1>8, <2>9 DEF Registry!RegistryNext
  <2>10. CASE EndListing(t)
    BY <1>9, <2>10 DEF Registry!RegistryNext
  <2>11. CASE Return(t)
    BY <1>10, <2>11 DEF Registry!RegistryNext
  <2>12. CASE FinishOperation(t)
    BY <1>12, <2>12 DEF Registry!RegistryNext
  <2> QED
    BY <2>1, <2>2, <2>3, <2>4, <2>5, <2>6, <2>7, <2>8, <2>9, <2>10, <2>11, <2>12 DEF Step
<1> QED BY <1>11, <1>13 DEF Next

(* The manager implements the shared registry: an open or a refusal takes  *)
(* effect in one step, a close in two, and a use is refused only if no port *)
(* has its identifier, or a close of it has begun, or the device is gone.  *)
THEOREM ManagerImplementsSharedRegistry == Spec => CallsAreRegular
BY RegistryInitial, RegistryStep, Invariance, PTL
DEF Spec, CallsAreRegular, Registry!RegistrySpec

=============================================================================
