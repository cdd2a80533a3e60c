----------------------- MODULE LinuxPortManagerProofs -----------------------
(***************************************************************************)
(* What LinuxPortManager guarantees for every set of threads, names and    *)
(* descriptors and every number of calls.                                  *)
(***************************************************************************)
EXTENDS LinuxPortManager, TLAPS

(* The inductive invariant holds of a new manager.                         *)
LEMMA InitIInv == Init => IInv
<1> SUFFICES ASSUME Init PROVE IInv
  OBVIOUS
<1> USE DEF Init
<1>1. TypeOK
  BY MaxCallsAssumption DEF TypeOK, PCs, Entry, NoOperation
<1>2. CallShape
  BY NobodyAssumption DEF CallShape, Opening, Undecided, NoOperation
<1>3. HandlesIssued /\ OnePortPerName /\ ConsistentLifetime
  BY DEF HandlesIssued, OnePortPerName, ConsistentLifetime
<1>4. DescriptorsAccounted
  BY ClosedAssumption DEF DescriptorsAccounted, Owned, Owning
<1> QED BY <1>1, <1>2, <1>3, <1>4 DEF IInv

(* A step of the manager preserves the types.                              *)
LEMMA TypeOKStep == TypeOK /\ CallShape /\ [Next]_vars => TypeOK'
<1> SUFFICES ASSUME TypeOK, CallShape, [Next]_vars PROVE TypeOK'
  OBVIOUS
<1> USE DEF TypeOK, Goto, Answer, PCs
<1>1. ASSUME NEW t \in Threads, Call(t) PROVE TypeOK'
  <2>1. PICK o \in Callable : op' = [op EXCEPT ![t] = o] /\ Goto(t, Entering(o))
    BY <1>1 DEF Call
  <2>2. o \in Operations /\ Entering(o) \in PCs
    BY DEF Callable, Operations, Entering
  <2>3. budget' \in [Threads -> Nat]
    BY <1>1 DEF Call
  <2> QED BY <1>1, <2>1, <2>2, <2>3 DEF Call
<1>2. ASSUME NEW t \in Threads, OpenCheck(t) PROVE TypeOK'
  BY <1>2 DEF OpenCheck
<1>3. ASSUME NEW t \in Threads, OpenDevice(t) PROVE TypeOK'
  <2>1. op[t].name \in Names
    BY <1>3 DEF OpenDevice, CallShape, Opening
  <2> QED BY <1>3, <2>1 DEF OpenDevice, Entry, Unnumbered
<1>4. ASSUME NEW t \in Threads, OpenDeviceFails(t) PROVE TypeOK'
  BY <1>4 DEF OpenDeviceFails
<1>5. ASSUME NEW t \in Threads, Configure(t) PROVE TypeOK'
  BY <1>5 DEF Configure
<1>6. ASSUME NEW t \in Threads, ConfigureFails(t) PROVE TypeOK'
  BY <1>6 DEF ConfigureFails, CloseHeld
<1>7. ASSUME NEW t \in Threads, OpenInsert(t) PROVE TypeOK'
  <2> DEFINE entries == {[e EXCEPT !.handle = next_handle] : e \in held[t]}
  <2>1. entries \subseteq Entry
    BY DEF Entry
  <2> QED BY <1>7, <2>1 DEF OpenInsert
<1>8. ASSUME NEW t \in Threads, OpenLosesRace(t) PROVE TypeOK'
  BY <1>8 DEF OpenLosesRace
<1>9. ASSUME NEW t \in Threads, DiscardPort(t) PROVE TypeOK'
  BY <1>9 DEF DiscardPort, CloseHeld
<1>10. ASSUME NEW t \in Threads, ReportHandle(t) PROVE TypeOK'
  BY <1>10 DEF ReportHandle
<1>11. ASSUME NEW t \in Threads, CloseDetach(t) PROVE TypeOK'
  BY <1>11 DEF CloseDetach, Found
<1>12. ASSUME NEW t \in Threads, CloseDescriptor(t) PROVE TypeOK'
  BY <1>12 DEF CloseDescriptor, CloseHeld
<1>13. ASSUME NEW t \in Threads, EnterPort(t) PROVE TypeOK'
  BY <1>13 DEF EnterPort, Found
<1>14. ASSUME NEW t \in Threads, LeavePort(t) PROVE TypeOK'
  BY <1>14 DEF LeavePort
<1>15. ASSUME NEW t \in Threads, FindHandle(t) PROVE TypeOK'
  <2>1. \A e \in Found(t) : e.handle \in Nat
    BY DEF Found, Entry
  <2> QED BY <1>15, <2>1 DEF FindHandle
<1>16. ASSUME NEW t \in Threads, ListPorts(t) PROVE TypeOK'
  BY <1>16 DEF ListPorts
<1>17. ASSUME NEW t \in Threads, Return(t) PROVE TypeOK'
  BY <1>17 DEF Return
<1>18. CASE Destroy
  BY <1>18 DEF Destroy
<1>19. CASE UNCHANGED vars
  BY <1>19 DEF vars
<1> QED
  BY <1>1, <1>2, <1>3, <1>4, <1>5, <1>6, <1>7, <1>8, <1>9, <1>10, <1>11,
     <1>12, <1>13, <1>14, <1>15, <1>16, <1>17, <1>18, <1>19
  DEF Next, Step, OpenStep, Terminated

(* The shape of a call changes only for the thread that takes the step,    *)
(* except that a step may take or release the mutex.                       *)
LEMMA CallShapeStep == IInv /\ [Next]_vars => CallShape'
<1> SUFFICES ASSUME IInv, [Next]_vars PROVE CallShape'
  OBVIOUS
<1> USE DEF IInv, TypeOK, CallShape, Opening, Undecided, Goto, Answer, PCs
<1>1. ASSUME NEW t \in Threads, Call(t) PROVE CallShape'
  <2>1. PICK o \in Callable : op' = [op EXCEPT ![t] = o] /\ Goto(t, Entering(o))
    BY <1>1 DEF Call
  <2>2. /\ o.kind = "open" => Entering(o) = "check" /\ o \in [kind : {"open"}, name : Names]
        /\ o.kind = "close" => Entering(o) = "detach"
        /\ o.kind = "use" => Entering(o) = "enter" /\ o \in [kind : {"use"}, handle : Nat]
        /\ o.kind = "find" => Entering(o) = "find"
        /\ o.kind = "list" => Entering(o) = "list"
        /\ o.kind \in {"open", "close", "use", "find", "list"}
    BY DEF Callable, Entering
  <2>3. ret[t] = "none" /\ mutex # t
    BY <1>1 DEF Call
  <2> QED BY <1>1, <2>1, <2>2, <2>3 DEF Call
<1>2. ASSUME NEW t \in Threads, OpenCheck(t) PROVE CallShape'
  BY <1>2 DEF OpenCheck
<1>3. ASSUME NEW t \in Threads, OpenDevice(t) PROVE CallShape'
  <2>1. PICK d \in Fds :
          held' = [held EXCEPT ![t] = {[handle |-> Unnumbered, name |-> op[t].name, fd |-> d]}]
    BY <1>3 DEF OpenDevice
  <2> DEFINE e == [handle |-> Unnumbered, name |-> op[t].name, fd |-> d]
  <2>2. held'[t] = {e} /\ e.name = op[t].name /\ e \in {e}
    BY <2>1
  <2>3. \A u \in Threads : u # t => held'[u] = held[u]
    BY <2>1
  <2> HIDE DEF e
  <2> QED BY <1>3, <2>2, <2>3 DEF OpenDevice
<1>4. ASSUME NEW t \in Threads, OpenDeviceFails(t) PROVE CallShape'
  BY <1>4 DEF OpenDeviceFails
<1>5. ASSUME NEW t \in Threads, Configure(t) PROVE CallShape'
  BY <1>5 DEF Configure
<1>6. ASSUME NEW t \in Threads, ConfigureFails(t) PROVE CallShape'
  BY <1>6 DEF ConfigureFails
<1>7. ASSUME NEW t \in Threads, OpenInsert(t) PROVE CallShape'
  BY <1>7 DEF OpenInsert
<1>8. ASSUME NEW t \in Threads, OpenLosesRace(t) PROVE CallShape'
  BY <1>8 DEF OpenLosesRace
<1>9. ASSUME NEW t \in Threads, DiscardPort(t) PROVE CallShape'
  BY <1>9 DEF DiscardPort
<1>10. ASSUME NEW t \in Threads, ReportHandle(t) PROVE CallShape'
  BY <1>10 DEF ReportHandle
<1>11. ASSUME NEW t \in Threads, CloseDetach(t) PROVE CallShape'
  BY <1>11 DEF CloseDetach
<1>12. ASSUME NEW t \in Threads, CloseDescriptor(t) PROVE CallShape'
  BY <1>12 DEF CloseDescriptor
<1>13. ASSUME NEW t \in Threads, EnterPort(t) PROVE CallShape'
  BY <1>13, NobodyAssumption DEF EnterPort, MutexFree
<1>14. ASSUME NEW t \in Threads, LeavePort(t) PROVE CallShape'
  BY <1>14, NobodyAssumption DEF LeavePort
<1>15. ASSUME NEW t \in Threads, FindHandle(t) PROVE CallShape'
  BY <1>15 DEF FindHandle
<1>16. ASSUME NEW t \in Threads, ListPorts(t) PROVE CallShape'
  BY <1>16 DEF ListPorts
<1>17. ASSUME NEW t \in Threads, Return(t) PROVE CallShape'
  BY <1>17 DEF Return
<1>18. CASE Destroy
  BY <1>18 DEF Destroy
<1>19. CASE UNCHANGED vars
  BY <1>19 DEF vars
<1> QED
  BY <1>1, <1>2, <1>3, <1>4, <1>5, <1>6, <1>7, <1>8, <1>9, <1>10, <1>11,
     <1>12, <1>13, <1>14, <1>15, <1>16, <1>17, <1>18, <1>19
  DEF Next, Step, OpenStep, Terminated

(* Only OpenInsert adds to the table, and it looked the name up under the  *)
(* mutex that it still holds; everything else leaves the table as it is or *)
(* removes from it.                                                        *)
LEMMA TableShrinks ==
    ASSUME [Next]_vars, \A t \in Threads : ~OpenInsert(t)
    PROVE  table' \subseteq table /\ next_handle' = next_handle
BY DEF Next, Step, OpenStep, Terminated, vars, Call, Return, OpenCheck, OpenDevice,
       OpenDeviceFails, Configure, ConfigureFails, OpenLosesRace, DiscardPort,
       ReportHandle, CloseDetach, CloseDescriptor, EnterPort, LeavePort, FindHandle,
       ListPorts, Destroy

(* A step keeps the handles issued, and one port per name.                 *)
LEMMA TableStep == IInv /\ [Next]_vars => HandlesIssued' /\ OnePortPerName'
<1> SUFFICES ASSUME IInv, [Next]_vars PROVE HandlesIssued' /\ OnePortPerName'
  OBVIOUS
<1> USE DEF IInv, HandlesIssued, OnePortPerName
<1>1. ASSUME NEW t \in Threads, OpenInsert(t) PROVE HandlesIssued' /\ OnePortPerName'
  <2>1. PICK e \in held[t] : held[t] = {e} /\ e.name = op[t].name
    BY <1>1 DEF OpenInsert, CallShape
  <2> DEFINE new == [e EXCEPT !.handle = next_handle]
  <2>2. table' = table \cup {new} /\ next_handle' = next_handle + 1
    BY <1>1, <2>1 DEF OpenInsert
  <2>3. new.handle = next_handle /\ new.name = op[t].name
    BY <2>1 DEF TypeOK, Entry
  <2>4. \A f \in table : f.name # op[t].name
    BY <1>1 DEF OpenInsert, Found, Matches, CallShape, Opening
  <2>5. next_handle \in Nat \ {0}
    BY DEF TypeOK
  <2> HIDE DEF new
  <2>6. HandlesIssued'
    BY <2>2, <2>3, <2>5
  <2>7. OnePortPerName'
    BY <2>2, <2>3, <2>4
  <2> QED BY <2>6, <2>7
<1>2. CASE \A t \in Threads : ~OpenInsert(t)
  BY <1>2, TableShrinks
<1> QED BY <1>1, <1>2

(* Steps that neither open, close, publish nor detach a port leave the     *)
(* ownership of every descriptor as it was.                                *)
LEMMA SameOwners ==
    ASSUME DescriptorsAccounted, UNCHANGED <<kernel, table>>,
           \A t \in Threads : Owned(t)' = Owned(t)
    PROVE  DescriptorsAccounted'
BY DEF DescriptorsAccounted

(* A thread that closes the port it owns gives up exactly the descriptors  *)
(* the kernel closes.                                                      *)
LEMMA ClosingOwned ==
    ASSUME TypeOK, DescriptorsAccounted, NEW t \in Threads,
           pc[t] \in Owning, CloseHeld(t), table' = table,
           Owned(t)' = {}, \A u \in Threads \ {t} : Owned(u)' = Owned(u)
    PROVE  DescriptorsAccounted'
<1> DEFINE mine == {e.fd : e \in held[t]}
<1>1. /\ Owned(t) = held[t]
      /\ \A d \in Fds : kernel'[d] = IF d \in mine THEN Closed ELSE kernel[d]
  BY DEF CloseHeld, Owned
<1>2. \A f \in table : f.fd \in Fds /\ f.fd \notin mine
  BY <1>1 DEF DescriptorsAccounted, TypeOK, Entry
<1>3. \A u \in Threads \ {t} : \A f \in Owned(u) : f.fd \in Fds /\ f.fd \notin mine
  BY <1>1 DEF DescriptorsAccounted, TypeOK, Entry, Owned
<1>4. \A u \in Threads : \A f \in Owned(u)' : u # t /\ f \in Owned(u)
  OBVIOUS
<1>5. \A d \in Fds : d \notin mine => \A e \in Owned(t) : e.fd # d
  BY <1>1
<1> QED
  BY <1>1, <1>2, <1>3, <1>4, <1>5 DEF DescriptorsAccounted

(* A step keeps every descriptor accounted for.                            *)
LEMMA AccountedStep == IInv /\ [Next]_vars => DescriptorsAccounted'
<1> SUFFICES ASSUME IInv, [Next]_vars PROVE DescriptorsAccounted'
  OBVIOUS
<1> USE DEF IInv
<1>1. ASSUME NEW t \in Threads,
             \/ Call(t) \/ OpenCheck(t) \/ OpenDeviceFails(t) \/ Configure(t)
             \/ OpenLosesRace(t) \/ ReportHandle(t) \/ EnterPort(t) \/ LeavePort(t)
             \/ FindHandle(t) \/ ListPorts(t) \/ Return(t)
      PROVE  DescriptorsAccounted'
  <2>1. UNCHANGED <<kernel, table>>
    BY <1>1 DEF Call, OpenCheck, OpenDeviceFails, Configure, OpenLosesRace, ReportHandle,
                EnterPort, LeavePort, FindHandle, ListPorts, Return
  <2>2. \A u \in Threads : u # t => pc'[u] = pc[u] /\ held'[u] = held[u]
    BY <1>1 DEF Call, OpenCheck, OpenDeviceFails, Configure, OpenLosesRace, ReportHandle,
                EnterPort, LeavePort, FindHandle, ListPorts, Return, Goto, TypeOK
  <2>3. \/ pc[t] \notin Owning /\ pc'[t] \notin Owning
        \/ pc[t] \in Owning /\ pc'[t] \in Owning /\ held'[t] = held[t]
    <3>1. CASE Call(t)
      <4>1. \A o \in Callable : Entering(o) \in {"check", "detach", "enter", "find", "list"}
        BY DEF Callable, Entering
      <4> QED BY <3>1, <4>1 DEF Call, Goto, TypeOK, Owning
    <3>2. CASE ~Call(t)
      BY <1>1, <3>2 DEF OpenCheck, OpenDeviceFails, Configure, OpenLosesRace, ReportHandle,
                EnterPort, LeavePort, FindHandle, ListPorts, Return, Goto, TypeOK, Owning
    <3> QED BY <3>1, <3>2
  <2>4. \A u \in Threads : Owned(u)' = Owned(u)
    BY <2>2, <2>3 DEF Owned
  <2> QED BY <2>1, <2>4, SameOwners
<1>2. ASSUME NEW t \in Threads, OpenDevice(t) PROVE DescriptorsAccounted'
  <2>1. PICK d \in Fds :
          /\ kernel[d] = Closed
          /\ kernel' = [kernel EXCEPT ![d] = op[t].name]
          /\ held' = [held EXCEPT ![t] = {[handle |-> Unnumbered, name |-> op[t].name, fd |-> d]}]
    BY <1>2 DEF OpenDevice
  <2> DEFINE e == [handle |-> Unnumbered, name |-> op[t].name, fd |-> d]
  <2>2. e.name = op[t].name /\ e.fd = d
    OBVIOUS
  <2> HIDE DEF e
  <2>3. Owned(t) = {} /\ Owned(t)' = {e}
    BY <1>2, <2>1 DEF OpenDevice, Owned, Owning, Goto, TypeOK, e
  <2>4. \A u \in Threads \ {t} : Owned(u)' = Owned(u)
    BY <1>2, <2>1 DEF OpenDevice, Owned, Goto, TypeOK
  <2>5. op[t].name \in Names
    BY <1>2 DEF OpenDevice, CallShape, Opening
  <2>6. \A f \in table : f.fd # d /\ f.fd \in Fds
    BY <2>1, ClosedAssumption DEF DescriptorsAccounted, TypeOK, Entry
  <2>7. \A u \in Threads : \A f \in Owned(u) : f.fd # d /\ f.fd \in Fds
    BY <2>1, ClosedAssumption DEF DescriptorsAccounted, TypeOK, Entry, Owned
  <2>8. kernel'[d] = e.name /\ \A c \in Fds : c # d => kernel'[c] = kernel[c]
    BY <2>1, <2>2 DEF TypeOK
  <2>9. table' = table
    BY <1>2 DEF OpenDevice
  <2> QED
    BY <2>2, <2>3, <2>4, <2>6, <2>7, <2>8, <2>9 DEF DescriptorsAccounted
<1>3. ASSUME NEW t \in Threads, ConfigureFails(t) \/ DiscardPort(t) \/ CloseDescriptor(t)
      PROVE  DescriptorsAccounted'
  <2>1. pc[t] \in Owning /\ CloseHeld(t) /\ table' = table
    BY <1>3 DEF ConfigureFails, DiscardPort, CloseDescriptor, Owning
  <2>2. Owned(t)' = {} /\ \A u \in Threads \ {t} : Owned(u)' = Owned(u)
    BY <1>3 DEF ConfigureFails, DiscardPort, CloseDescriptor, Owned, Owning, Goto, TypeOK
  <2> QED BY <2>1, <2>2, ClosingOwned
<1>4. ASSUME NEW t \in Threads, OpenInsert(t) PROVE DescriptorsAccounted'
  <2>1. PICK e \in held[t] : held[t] = {e} /\ e.name = op[t].name
    BY <1>4 DEF OpenInsert, CallShape
  <2> DEFINE new == [e EXCEPT !.handle = next_handle]
  <2>2. table' = table \cup {new} /\ kernel' = kernel
    BY <1>4, <2>1 DEF OpenInsert
  <2>3. new.fd = e.fd /\ new.name = e.name
    BY <2>1 DEF TypeOK, Entry
  <2> HIDE DEF new
  <2>4. Owned(t) = {e} /\ Owned(t)' = {}
    BY <1>4, <2>1 DEF OpenInsert, Owned, Owning, Goto, TypeOK
  <2>5. \A u \in Threads \ {t} : Owned(u)' = Owned(u)
    BY <1>4 DEF OpenInsert, Owned, Goto, TypeOK
  <2> QED BY <2>2, <2>3, <2>4, <2>5 DEF DescriptorsAccounted
<1>5. ASSUME NEW t \in Threads, CloseDetach(t) PROVE DescriptorsAccounted'
  <2>1. Owned(t) = {} /\ Owned(t)' = Found(t)
    BY <1>5 DEF CloseDetach, Owned, Owning, Goto, TypeOK
  <2>2. \A u \in Threads \ {t} : Owned(u)' = Owned(u)
    BY <1>5 DEF CloseDetach, Owned, Goto, TypeOK
  <2>3. table' = table \ Found(t) /\ Found(t) \subseteq table /\ kernel' = kernel
    BY <1>5 DEF CloseDetach, Found
  <2> QED BY <2>1, <2>2, <2>3 DEF DescriptorsAccounted
<1>6. CASE Destroy
  <2>1. \A t \in Threads : Owned(t) = {} /\ Owned(t)' = {}
    BY <1>6 DEF Destroy, Owned, Owning
  <2>2. \A d \in Fds : kernel[d] # Closed => \E e \in table : e.fd = d
    BY <2>1 DEF DescriptorsAccounted
  <2>3. table' = {} /\ \A d \in Fds : kernel'[d] = Closed
    BY <1>6, <2>2 DEF Destroy
  <2> QED BY <2>1, <2>3 DEF DescriptorsAccounted
<1>7. CASE UNCHANGED vars
  BY <1>7 DEF vars, DescriptorsAccounted, Owned
<1> QED
  BY <1>1, <1>2, <1>3, <1>4, <1>5, <1>6, <1>7 DEF Next, Step, OpenStep, Terminated

(* While a thread is inside a port it holds the mutex, so no other thread  *)
(* can detach an entry, and what a thread closes is not in the table.      *)
LEMMA LifetimeStep == IInv /\ [Next]_vars => ConsistentLifetime'
<1> SUFFICES ASSUME IInv, [Next]_vars,
                    NEW u \in Threads, pc'[u] = "in_port"
             PROVE  /\ held'[u] # {}
                    /\ \A e \in held'[u] :
                         e \in table' /\ e.handle = op'[u].handle /\ kernel'[e.fd] = e.name
  BY DEF ConsistentLifetime
<1> USE DEF IInv
<1>1. CASE pc[u] = "in_port"
  <2>1. mutex = u /\ mutex # Nobody
    BY <1>1, NobodyAssumption DEF CallShape
  <2>2. /\ held[u] # {}
        /\ \A e \in held[u] : e \in table /\ e.handle = op[u].handle /\ kernel[e.fd] = e.name
    BY <1>1 DEF ConsistentLifetime
  <2>3. ~Destroy
    BY <1>1 DEF Destroy
  <2>4. \A t \in Threads : ~OpenInsert(t) /\ ~CloseDetach(t) /\ ~EnterPort(t)
    BY <2>1 DEF OpenInsert, CloseDetach, EnterPort, MutexFree
  <2>5. table \subseteq table'
    BY <2>3, <2>4 DEF Next, Step, OpenStep, Terminated, vars, Call, Return, OpenCheck,
       OpenDevice, OpenDeviceFails, Configure, ConfigureFails, OpenLosesRace, DiscardPort,
       ReportHandle, CloseDescriptor, LeavePort, FindHandle, ListPorts
  <2>6. held'[u] = held[u] /\ op'[u] = op[u]
    BY <1>1, <2>1, <2>3, <2>4 DEF Next, Step, OpenStep, Terminated, vars, Call, Return, OpenCheck,
       OpenDevice, OpenDeviceFails, Configure, ConfigureFails, OpenLosesRace, DiscardPort,
       ReportHandle, CloseDescriptor, LeavePort, FindHandle, ListPorts, TypeOK, Goto
  <2>7. DescriptorsAccounted'
    BY AccountedStep
  <2> QED BY <2>2, <2>5, <2>6, <2>7 DEF DescriptorsAccounted
<1>2. CASE pc[u] # "in_port"
  <2>1. EnterPort(u) /\ Found(u) # {}
    <3>1. ~Call(u)
      <4>1. \A o \in Callable : Entering(o) \in {"check", "detach", "enter", "find", "list"}
        BY DEF Callable, Entering
      <4> QED BY <4>1, <1>2 DEF Call, Goto, TypeOK
    <3> QED
      BY <1>2, <3>1 DEF Next, Step, OpenStep, Terminated, vars, Call, Return, OpenCheck,
       OpenDevice, OpenDeviceFails, Configure, ConfigureFails, OpenInsert, OpenLosesRace,
       DiscardPort, ReportHandle, CloseDetach, CloseDescriptor, EnterPort, LeavePort,
       FindHandle, ListPorts, Destroy, TypeOK, Goto
  <2>2. held'[u] = Found(u) /\ table' = table /\ kernel' = kernel /\ op' = op
    BY <2>1 DEF EnterPort, TypeOK
  <2>3. \A e \in Found(u) : e \in table /\ e.handle = op[u].handle
    BY <2>1 DEF EnterPort, Found, Matches, CallShape
  <2> QED BY <2>1, <2>2, <2>3 DEF DescriptorsAccounted
<1> QED BY <1>1, <1>2

(* The invariant is inductive.                                             *)
LEMMA IInvStep == IInv /\ [Next]_vars => IInv'
BY TypeOKStep, CallShapeStep, TableStep, AccountedStep, LifetimeStep DEF IInv

(* The invariant holds in every reachable state.                           *)
LEMMA Inductive == Spec => []IInv
BY InitIInv, IInvStep, PTL DEF Spec

(* Every state of the manager is well typed.                               *)
THEOREM TypeCorrect == Spec => []TypeOK
BY Inductive, PTL DEF IInv

(* However many threads open the same path at once, the table holds it at  *)
(* most once.                                                              *)
THEOREM NameOpenOnce == Spec => []OnePortPerName
BY Inductive, PTL DEF IInv

(* No interleaving of open, close and destroy leaks a descriptor or closes *)
(* one that a port still stands on.                                        *)
THEOREM NoDescriptorLost == Spec => []DescriptorsAccounted
BY Inductive, PTL DEF IInv

(* A port operation always runs on a live, open port of its own handle.    *)
THEOREM LifetimeIsConsistent == Spec => []ConsistentLifetime
BY Inductive, PTL DEF IInv

-----------------------------------------------------------------------------
(* The calls are atomic: each step of the manager is one step of the       *)
(* registry, or none.                                                      *)

(* A step of one thread changes the registry's view of its call alone.     *)
LEMMA CallsChange ==
    ASSUME NEW t \in Threads, \A u \in Threads : u # t =>
             op'[u] = op[u] /\ pc'[u] = pc[u] /\ ret'[u] = ret[u]
    PROVE  Calls' = [Calls EXCEPT ![t] = [op |-> op'[t], state |-> CallState(t)']]
BY DEF Calls, CallState

(* A call whose outcome is decided settles in the registry.                *)
LEMMA CallsSettle ==
    ASSUME NEW t \in Threads, NEW r, op' = op,
           CallState(t) = "pending", CallState(t)' = r,
           \A u \in Threads : u # t => pc'[u] = pc[u] /\ ret'[u] = ret[u]
    PROVE  Registry!Settle(t, r)
<1>1. Calls' = [Calls EXCEPT ![t] = [op |-> op[t], state |-> r]]
  BY CallsChange
<1>2. [Calls EXCEPT ![t].state = r] = [Calls EXCEPT ![t] = [op |-> op[t], state |-> r]]
  <2>1. Calls[t] = [op |-> op[t], state |-> CallState(t)]
    BY DEF Calls
  <2>2. [Calls[t] EXCEPT !.state = r] = [op |-> op[t], state |-> r]
    BY <2>1
  <2> QED BY <2>2
<1>3. Calls[t].state = "pending"
  BY DEF Calls
<1> QED BY <1>1, <1>2, <1>3 DEF Registry!Settle

(* A step that decides nothing leaves the registry's calls.                *)
LEMMA CallsStutter ==
    ASSUME op' = op, \A u \in Threads : CallState(u)' = CallState(u)
    PROVE  Calls' = Calls
BY DEF Calls

(* The registry finds a port exactly when the manager does.                *)
LEMMA SameFound ==
    ASSUME NEW t \in Threads
    PROVE  /\ Calls[t].op = op[t]
           /\ Registry!Found(op[t]) = {[handle |-> e.handle, name |-> e.name] : e \in Found(t)}
           /\ Registry!Found(op[t]) = {} <=> Found(t) = {}
<1>1. Calls[t].op = op[t]
  BY DEF Calls
<1>2. \A e : Matches(op[t], e) <=> Registry!Matches(op[t], [handle |-> e.handle, name |-> e.name])
  BY DEF Matches, Registry!Matches
<1>3. Registry!Found(op[t]) = {[handle |-> e.handle, name |-> e.name] : e \in Found(t)}
  BY <1>2 DEF Registry!Found, OpenPorts, Found
<1> QED BY <1>1, <1>3

(* A call at work in the manager is pending in the registry.               *)
LEMMA Undetermined ==
    ASSUME IInv, NEW t \in Threads, pc[t] \in Undecided, pc[t] # "idle"
    PROVE  CallState(t) = "pending"
BY DEF IInv, CallShape, CallState

(* A new manager is an empty registry.                                     *)
LEMMA RegistryInitial == Init => Registry!RegistryInit
BY DEF Init, Registry!RegistryInit, OpenPorts, Calls, CallState, NoOperation,
       Registry!NoOperation

(* Each step of the manager is a step of the registry or leaves it as it is.*)
LEMMA RegistryStep ==
    IInv /\ IInv' /\ [Next]_vars => [Registry!RegistryNext]_(Registry!rvars)
<1> SUFFICES ASSUME IInv, IInv', [Next]_vars
             PROVE  Registry!RegistryNext \/ UNCHANGED Registry!rvars
  OBVIOUS
<1> USE DEF Goto, Answer
<1>t. TypeOK /\ TypeOK'
  BY DEF IInv
<1>1. ASSUME NEW t \in Threads, Call(t) PROVE Registry!Invoke(t)
  <2>1. PICK o \in Callable : op' = [op EXCEPT ![t] = o] /\ Goto(t, Entering(o))
    BY <1>1 DEF Call
  <2>2. o \in Registry!Operations /\ Entering(o) \in Undecided \ {"idle"}
    <3>1. next_handle \in Nat
      BY <1>t DEF TypeOK
    <3> QED BY <3>1 DEF Callable, Registry!Operations, Entering, Undecided
  <2>3. ret' = ret /\ pc[t] = "idle" /\ ret[t] = "none"
    BY <1>1 DEF Call, IInv, CallShape, Undecided
  <2>4. op'[t] = o /\ pc'[t] = Entering(o)
    BY <2>1, <1>t DEF TypeOK
  <2>5. CallState(t) = "idle" /\ CallState(t)' = "pending"
    BY <2>2, <2>3, <2>4 DEF CallState, Undecided
  <2>6. Calls' = [Calls EXCEPT ![t] = [op |-> o, state |-> "pending"]]
    BY <2>1, <2>3, <2>4, <2>5, CallsChange, <1>t DEF TypeOK
  <2>7. Calls'[t].op = o /\ Calls[t].state = "idle"
    BY <2>4, <2>5 DEF Calls
  <2>8. UNCHANGED <<OpenPorts, 1 .. next_handle - 1>>
    BY <1>1 DEF Call, OpenPorts
  <2> QED BY <2>2, <2>6, <2>7, <2>8 DEF Registry!Invoke
<1>2. ASSUME NEW t \in Threads,
             \/ OpenDevice(t) \/ Configure(t) \/ DiscardPort(t) \/ ReportHandle(t)
             \/ CloseDescriptor(t) \/ LeavePort(t)
             \/ OpenCheck(t) /\ Found(t) = {}
      PROVE  UNCHANGED Registry!rvars
  <2>1. op' = op /\ ret' = ret /\ UNCHANGED <<table, next_handle>>
    BY <1>2 DEF OpenDevice, Configure, DiscardPort, ReportHandle, CloseDescriptor,
                LeavePort, OpenCheck
  <2>2. \A u \in Threads : pc'[u] = "idle" <=> pc[u] = "idle"
    BY <1>2, <1>t DEF OpenDevice, Configure, DiscardPort, ReportHandle, CloseDescriptor,
                LeavePort, OpenCheck, TypeOK
  <2>3. Calls' = Calls
    BY <2>1, <2>2, CallsStutter DEF CallState
  <2> QED BY <2>1, <2>3 DEF Registry!rvars, OpenPorts
<1>3. ASSUME NEW t \in Threads, OpenDeviceFails(t) \/ ConfigureFails(t)
      PROVE  Registry!OpenFails(t)
  <2>1. op' = op /\ ret'[t] = "failed" /\ pc'[t] = "return" /\ UNCHANGED <<table, next_handle>>
    BY <1>3, <1>t DEF OpenDeviceFails, ConfigureFails, TypeOK
  <2>2. \A u \in Threads : u # t => pc'[u] = pc[u] /\ ret'[u] = ret[u]
    BY <1>3, <1>t DEF OpenDeviceFails, ConfigureFails, TypeOK
  <2>3. op[t].kind = "open" /\ CallState(t) = "pending"
    BY <1>3, Undetermined DEF OpenDeviceFails, ConfigureFails, IInv, CallShape, Opening, Undecided
  <2>4. Registry!Settle(t, "failed")
    BY <2>1, <2>2, <2>3, CallsSettle DEF CallState
  <2> QED BY <2>1, <2>3, <2>4, SameFound DEF Registry!OpenFails, OpenPorts
<1>4. ASSUME NEW t \in Threads,
             (OpenCheck(t) /\ Found(t) # {}) \/ OpenLosesRace(t)
      PROVE  Registry!OpenRefused(t)
  <2>1. op' = op /\ ret'[t] = "already" /\ pc'[t] # "idle" /\ UNCHANGED <<table, next_handle>>
    BY <1>4, <1>t DEF OpenCheck, OpenLosesRace, TypeOK
  <2>2. \A u \in Threads : u # t => pc'[u] = pc[u] /\ ret'[u] = ret[u]
    BY <1>4, <1>t DEF OpenCheck, OpenLosesRace, TypeOK
  <2>3. op[t].kind = "open" /\ CallState(t) = "pending" /\ Found(t) # {}
    BY <1>4, Undetermined DEF OpenCheck, OpenLosesRace, IInv, CallShape, Opening, Undecided
  <2>4. Registry!Settle(t, "already")
    BY <2>1, <2>2, <2>3, CallsSettle DEF CallState
  <2> QED BY <2>1, <2>3, <2>4, SameFound DEF Registry!OpenRefused, OpenPorts
<1>5. ASSUME NEW t \in Threads, OpenInsert(t) PROVE Registry!OpenTakesEffect(t)
  <2>1. PICK e \in held[t] : held[t] = {e} /\ e.name = op[t].name
    BY <1>5 DEF OpenInsert, IInv, CallShape
  <2> DEFINE new == [e EXCEPT !.handle = next_handle]
             port == [handle |-> next_handle, name |-> op[t].name]
  <2>2. table' = table \cup {new} /\ next_handle' = next_handle + 1
    BY <1>5, <2>1 DEF OpenInsert
  <2>3. new.handle = next_handle /\ new.name = op[t].name
    BY <2>1, <1>t DEF TypeOK, Entry
  <2>4. OpenPorts' = OpenPorts \cup {port}
    BY <2>2, <2>3 DEF OpenPorts
  <2>5. next_handle \in Nat \ {0}
    BY <1>t DEF TypeOK
  <2>6. /\ port.handle \in Nat \ (1 .. next_handle - 1)
        /\ 1 .. next_handle' - 1 = (1 .. next_handle - 1) \cup {port.handle}
    BY <2>2, <2>5
  <2>7. op' = op /\ ret'[t] = "ok" /\ pc'[t] = "report"
    BY <1>5, <1>t DEF OpenInsert, TypeOK
  <2>8. \A u \in Threads : u # t => pc'[u] = pc[u] /\ ret'[u] = ret[u]
    BY <1>5, <1>t DEF OpenInsert, TypeOK
  <2>9. op[t].kind = "open" /\ CallState(t) = "pending" /\ Found(t) = {}
    BY <1>5, Undetermined DEF OpenInsert, IInv, CallShape, Opening, Undecided
  <2>10. Registry!Settle(t, "ok")
    BY <2>7, <2>8, <2>9, CallsSettle DEF CallState
  <2>11. port = [handle |-> port.handle, name |-> op[t].name]
    OBVIOUS
  <2> HIDE DEF port, new
  <2> QED
    BY <2>4, <2>6, <2>9, <2>10, <2>11, SameFound DEF Registry!OpenTakesEffect
<1>6. ASSUME NEW t \in Threads, CloseDetach(t)
      PROVE  Registry!CloseTakesEffect(t) \/ Registry!NoSuchPort(t)
  <2>1. op' = op /\ pc'[t] # "idle" /\ UNCHANGED next_handle /\ table' = table \ Found(t)
    BY <1>6, <1>t DEF CloseDetach, TypeOK
  <2>2. \A u \in Threads : u # t => pc'[u] = pc[u] /\ ret'[u] = ret[u]
    BY <1>6, <1>t DEF CloseDetach, TypeOK
  <2>3. op[t].kind = "close" /\ CallState(t) = "pending"
    BY <1>6, Undetermined DEF CloseDetach, IInv, CallShape, Undecided
  <2>4. CASE Found(t) = {}
    <3>1. ret'[t] = "noent" /\ table' = table
      BY <1>6, <1>t, <2>1, <2>4 DEF CloseDetach, TypeOK
    <3>2. Registry!Settle(t, "noent")
      BY <2>1, <2>2, <2>3, <3>1, CallsSettle DEF CallState
    <3> QED BY <2>1, <2>3, <2>4, <3>1, <3>2, SameFound DEF Registry!NoSuchPort, OpenPorts
  <2>5. CASE Found(t) # {}
    <3>1. ret'[t] = "ok"
      BY <1>6, <1>t, <2>5 DEF CloseDetach, TypeOK
    <3>2. Registry!Settle(t, "ok")
      BY <2>1, <2>2, <2>3, <3>1, CallsSettle DEF CallState
    <3>3. OpenPorts' = OpenPorts \ Registry!Found(op[t])
      <4>1. \A e, f \in table : e.handle = f.handle /\ e.name = f.name =>
              (e \in Found(t) <=> f \in Found(t))
        BY DEF Found, Matches
      <4>2. Registry!Found(op[t]) = {[handle |-> e.handle, name |-> e.name] : e \in Found(t)}
        BY SameFound
      <4>3. Found(t) \subseteq table
        BY DEF Found
      <4> QED BY <2>1, <4>1, <4>2, <4>3 DEF OpenPorts
    <3> QED BY <2>1, <2>3, <2>5, <3>2, <3>3, SameFound DEF Registry!CloseTakesEffect
  <2> QED BY <2>4, <2>5
<1>7. ASSUME NEW t \in Threads, EnterPort(t) \/ FindHandle(t)
      PROVE  Registry!LookupTakesEffect(t) \/ Registry!NoSuchPort(t)
  <2>1. op' = op /\ pc'[t] # "idle" /\ UNCHANGED <<table, next_handle>>
    BY <1>7, <1>t DEF EnterPort, FindHandle, TypeOK
  <2>2. \A u \in Threads : u # t => pc'[u] = pc[u] /\ ret'[u] = ret[u]
    BY <1>7, <1>t DEF EnterPort, FindHandle, TypeOK
  <2>3. op[t].kind \in {"use", "find"} /\ CallState(t) = "pending"
    BY <1>7, Undetermined DEF EnterPort, FindHandle, IInv, CallShape, Undecided
  <2>4. ret'[t] = IF Found(t) = {} THEN "noent" ELSE "ok"
    BY <1>7, <1>t DEF EnterPort, FindHandle, TypeOK
  <2>5. Registry!Settle(t, IF Found(t) = {} THEN "noent" ELSE "ok")
    BY <2>1, <2>2, <2>3, <2>4, CallsSettle DEF CallState
  <2> QED BY <2>1, <2>3, <2>5, SameFound DEF Registry!LookupTakesEffect, Registry!NoSuchPort, OpenPorts
<1>8. ASSUME NEW t \in Threads, ListPorts(t)
      PROVE  Registry!LookupTakesEffect(t) \/ Registry!ListFails(t)
  <2>1. op' = op /\ pc'[t] # "idle" /\ ret'[t] \in {"ok", "failed"} /\ UNCHANGED <<table, next_handle>>
    BY <1>8, <1>t DEF ListPorts, TypeOK
  <2>2. \A u \in Threads : u # t => pc'[u] = pc[u] /\ ret'[u] = ret[u]
    BY <1>8, <1>t DEF ListPorts, TypeOK
  <2>3. op[t].kind = "list" /\ CallState(t) = "pending"
    BY <1>8, Undetermined DEF ListPorts, IInv, CallShape, Undecided
  <2>4. CallState(t)' = ret'[t]
    BY <2>1 DEF CallState
  <2>5. Registry!Settle(t, "ok") \/ Registry!Settle(t, "failed")
    BY <2>1, <2>2, <2>3, <2>4, CallsSettle DEF CallState
  <2> QED BY <2>1, <2>3, <2>5, SameFound DEF Registry!LookupTakesEffect, Registry!ListFails, OpenPorts
<1>9. ASSUME NEW t \in Threads, Return(t) PROVE Registry!Finish(t)
  <2>1. pc'[t] = "idle" /\ op'[t] = NoOperation /\ UNCHANGED <<table, next_handle>>
    BY <1>9, <1>t DEF Return, TypeOK
  <2>2. \A u \in Threads : u # t => op'[u] = op[u] /\ pc'[u] = pc[u] /\ ret'[u] = ret[u]
    BY <1>9, <1>t DEF Return, TypeOK
  <2>3. CallState(t) \in Registry!Results
    BY <1>9 DEF Return, CallState, IInv, CallShape, Undecided, TypeOK, Registry!Results
  <2>4. Calls' = [Calls EXCEPT ![t] = [op |-> Registry!NoOperation, state |-> "idle"]]
    BY <2>1, <2>2, CallsChange DEF CallState, NoOperation, Registry!NoOperation
  <2>5. Calls[t].state \in Registry!Results
    BY <2>3 DEF Calls
  <2> QED BY <2>1, <2>4, <2>5 DEF Registry!Finish, OpenPorts
<1>10. CASE Destroy
  <2>1. \A t \in Threads : Calls[t].state = "idle"
    BY <1>10 DEF Destroy, Calls, CallState
  <2>2. Calls' = Calls
    BY <1>10, CallsStutter DEF Destroy, CallState
  <2> QED BY <1>10, <2>1, <2>2 DEF Destroy, Registry!RegistryNext, Registry!Discard, OpenPorts
<1>11. CASE UNCHANGED vars
  <2>1. Calls' = Calls
    BY <1>11 DEF vars, Calls, CallState
  <2> QED BY <1>11, <2>1 DEF vars, Registry!rvars, OpenPorts
<1>12. CASE \E t \in Threads : Call(t) \/ Step(t)
  <2>1. PICK t \in Threads : Call(t) \/ Step(t)
    BY <1>12
  <2>2. CASE OpenCheck(t)
    BY <1>2, <1>4, <2>2 DEF Registry!RegistryNext
  <2> QED
    BY <2>1, <2>2, <1>1, <1>2, <1>3, <1>4, <1>5, <1>6, <1>7, <1>8, <1>9
    DEF Step, OpenStep, Registry!RegistryNext
<1> QED BY <1>10, <1>11, <1>12 DEF Next, Terminated

(* The manager implements the registry: every call takes effect in one     *)
(* step between its invocation and its return, whatever the interleaving.  *)
THEOREM ManagerImplementsRegistry == Spec => CallsAreAtomic
BY RegistryInitial, RegistryStep, Inductive, PTL
DEF Spec, CallsAreAtomic, Registry!RegistrySpec

=============================================================================
