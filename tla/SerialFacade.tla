----------------------------- MODULE SerialFacade -----------------------------
(***************************************************************************)
(* lib/src/serial_port.dart and lib/src/serial_manager.dart: SerialPort    *)
(* objects and the SerialManager that tracks them, over a platform that    *)
(* answers asynchronously.                                                 *)
(*                                                                         *)
(* Dart runs one piece of code at a time: a step runs from one await to    *)
(* the next.  A platform call is a request in a queue; the platform        *)
(* answers the requests in the order they were sent (the method channel of *)
(* a single-threaded plugin), and the answers come back in that order.     *)
(***************************************************************************)
EXTENDS Integers, Sequences, SequencesExt

CONSTANTS
    Calls,      \* asynchronous calls the application can have in progress
    Objects,    \* SerialPort instances the application can create
    Names,      \* port names
    MaxRequests,\* bound: calls of the API that are ever started
    Overlap,    \* may open, close and dispose of one object overlap?
    None        \* null

ASSUME NoneAssumption == None \notin Names \cup Objects \cup Calls
ASSUME BoundAssumption == MaxRequests \in Nat /\ Overlap \in BOOLEAN

VARIABLES
    created,    \* the SerialPort objects that exist
    known,      \* those the application holds: it made them, or was given them
    config,     \* config[o]: the name in _config, or None
    isOpen,     \* isOpen[o]: _isOpen
    listening,  \* live event subscriptions: a set of <<object, name>>
    disposed,   \* objects whose stream controllers are closed
    openPorts,  \* _openPorts: the object tracked under a name, or None
    call,       \* call[c]: where call c is, and its arguments
    device,     \* device[n]: the object that opened n in the platform, or None
    requests,   \* platform calls not yet answered, in order
    answers,    \* answers not yet delivered, in order
    started     \* calls started so far

vars == <<created, known, config, isOpen, listening, disposed, openPorts, call, device,
          requests, answers, started>>

portVars == <<config, isOpen, listening, disposed>>

(***************************************************************************)
(* A call waits at one of these awaits; `port` and `name` are what it      *)
(* captured, `next` is what follows when its open or close is done, and    *)
(* `rest` the objects closeAll has still to close.                         *)
(***************************************************************************)
Disposing == {"closeData", "closeText", "closeError"}

Awaits == {"idle", "open", "cancel", "close", "io", "readUntil", "delay"} \cup Disposing

Nexts == {"return", "track", "dispose", "closeNext"}

CallRecord == [at : Awaits, port : Objects \cup {None}, name : Names \cup {None},
               next : Nexts, rest : SUBSET Objects]

Idle == [at |-> "idle", port |-> None, name |-> None, next |-> "return", rest |-> {}]

(* A request names its call, or None when the caller gave up waiting.      *)
(* `settled` is history: no open or close of the object was in progress.   *)
Request == [call : Calls \cup {None}, kind : {"open", "close", "io"}, port : Objects,
            name : Names, settled : BOOLEAN]

(* `served` is history: the object whose opening served the request.       *)
Answer == [request : Request, ok : BOOLEAN, served : Objects \cup {None}]

Lifecycle == {"open", "cancel", "close"}

Busy(o) == \E c \in Calls :
    \/ call[c].at \in Lifecycle /\ call[c].port = o
    \/ o \in call[c].rest

Send(c, kind, o, n) ==
    requests' = Append(requests, [call |-> c, kind |-> kind, port |-> o, name |-> n,
                                  settled |-> ~Busy(o)])

Await(c, r) == call' = [call EXCEPT ![c] = r]

At(where, o, n, next, rest) ==
    [at |-> where, port |-> o, name |-> n, next |-> next, rest |-> rest]

Init ==
    /\ created = {}
    /\ known = {}
    /\ config = [o \in Objects |-> None]
    /\ isOpen = [o \in Objects |-> FALSE]
    /\ listening = {}
    /\ disposed = {}
    /\ openPorts = [n \in Names |-> None]
    /\ call = [c \in Calls |-> Idle]
    /\ device = [n \in Names |-> None]
    /\ requests = <<>>
    /\ answers = <<>>
    /\ started = 0

(* The application starts a call.  An application that does not overlap    *)
(* the lifecycle calls of an object awaits one before it starts another.   *)
Start(c) ==
    /\ call[c] = Idle
    /\ started < MaxRequests
    /\ started' = started + 1

MayManage(o) == Overlap \/ ~Busy(o)

-----------------------------------------------------------------------------
(* SerialManager.createPort, or the constructor of SerialPort.             *)
Create(o) ==
    /\ o \notin created
    /\ created' = created \cup {o}

CreatePort ==
    /\ \E o \in Objects : Create(o) /\ known' = known \cup {o}
    /\ UNCHANGED <<portVars, openPorts, call, device, requests, answers, started>>

(* SerialPort.open on a port that is not open; on an open one it throws.   *)
Open(c, o, n, next) ==
    /\ Await(c, At("open", o, n, next, {}))
    /\ Send(c, "open", o, n)

(* Mutant: open does not refuse a port that is open.                       *)
OpenPortUnguarded(c) ==
    /\ Start(c)
    /\ \E o \in known \ disposed, n \in Names :
         /\ MayManage(o)
         /\ Open(c, o, n, "return")
    /\ UNCHANGED <<created, known, portVars, openPorts, device, answers>>

OpenPort(c) ==
    /\ Start(c)
    /\ \E o \in known \ disposed, n \in Names :
         /\ MayManage(o)
         /\ ~isOpen[o]
         /\ Open(c, o, n, "return")
    /\ UNCHANGED <<created, known, portVars, openPorts, device, answers>>

(* SerialManager.openPortFromConfig: a tracked port that is open is        *)
(* returned at once, one that is not is forgotten.  The new object is the  *)
(* manager's own until its open has returned, and is lost when it fails.   *)
ManagerOpen(c) ==
    /\ Start(c)
    /\ \E n \in Names, o \in Objects :
         /\ openPorts[n] # None => ~isOpen[openPorts[n]]
         /\ openPorts' = [openPorts EXCEPT ![n] = None]
         /\ Create(o)
         /\ Open(c, o, n, "track")
    /\ UNCHANGED <<known, portVars, device, answers>>

(* SerialPort.close of an open port: the event subscription is cancelled   *)
(* first, and its events stop with the call to cancel().                   *)
(* Mutant: close forgets the event subscription.                           *)
CloseKeepsListening(c, o, next, rest) ==
    /\ isOpen[o] /\ config[o] # None
    /\ UNCHANGED listening
    /\ Await(c, At("cancel", o, config[o], next, rest))

Close(c, o, next, rest) ==
    /\ isOpen[o] /\ config[o] # None
    /\ listening' = listening \ {<<o, config[o]>>}
    /\ Await(c, At("cancel", o, config[o], next, rest))

ClosePort(c) ==
    /\ Start(c)
    /\ \E o \in known :
         /\ MayManage(o)
         /\ Close(c, o, "return", {})
    /\ UNCHANGED <<created, known, config, isOpen, disposed, openPorts, device, requests, answers>>

(* SerialManager.closePort: the port is forgotten whether or not it can be *)
(* closed.                                                                 *)
ManagerClose(c) ==
    /\ Start(c)
    /\ \E n \in Names :
         /\ openPorts[n] # None
         /\ MayManage(openPorts[n])
         /\ openPorts' = [openPorts EXCEPT ![n] = None]
         /\ \/ Close(c, openPorts[n], "return", {})
            \/ ~isOpen[openPorts[n]] /\ UNCHANGED <<call, listening>>
    /\ UNCHANGED <<created, known, config, isOpen, disposed, device, requests, answers>>

(* SerialManager.closeAll closes one port after the other; those that are  *)
(* not open throw and are passed over.                                     *)
(* Mutant: what close throws for a port that is not open ends closeAll.    *)
CloseNextThrows(c, ports) ==
    \/ \E o \in ports : Close(c, o, "closeNext", ports \ {o})
    \/ /\ ports # {} => \E o \in ports : ~isOpen[o]
       /\ Await(c, Idle)
       /\ UNCHANGED listening

CloseNext(c, ports) ==
    \/ \E o \in ports, passed \in SUBSET {p \in ports : ~isOpen[p]} :
         Close(c, o, "closeNext", ports \ (passed \cup {o}))
    \/ /\ \A o \in ports : ~isOpen[o]
       /\ Await(c, Idle)
       /\ UNCHANGED listening

ManagerCloseAll(c) ==
    /\ Start(c)
    /\ LET ports == {openPorts[n] : n \in Names} \ {None}
       IN  /\ ports # {}
           /\ \A o \in ports : MayManage(o)
           /\ CloseNext(c, ports)
    /\ openPorts' = [n \in Names |-> None]
    /\ UNCHANGED <<created, known, config, isOpen, disposed, device, requests, answers>>

(* dispose closes the three stream controllers one after the other; from   *)
(* the first on, nothing may be added to them.                             *)
CloseControllers(c, o) ==
    /\ disposed' = disposed \cup {o}
    /\ Await(c, At("closeData", o, None, "return", {}))

(* SerialPort.dispose closes the port first when it is open.               *)
Dispose(c) ==
    /\ Start(c)
    /\ \E o \in known \ disposed :
         /\ MayManage(o)
         /\ \/ /\ Close(c, o, "dispose", {})
               /\ UNCHANGED disposed
            \/ ~isOpen[o] /\ CloseControllers(c, o) /\ UNCHANGED listening
    /\ UNCHANGED <<created, known, config, isOpen, openPorts, device, requests, answers>>

(* read, write, flush, resetBuffers, the control lines: one platform call. *)
Io(c) ==
    /\ Start(c)
    /\ \E o \in known :
         /\ isOpen[o] /\ config[o] # None
         /\ Send(c, "io", o, config[o])
         /\ Await(c, At("io", o, config[o], "return", {}))
    /\ UNCHANGED <<created, known, portVars, openPorts, device, answers>>

(* readUntil reads one byte at a time, and looks _config up for each.      *)
ReadUntil(c) ==
    /\ Start(c)
    /\ \E o \in known :
         /\ isOpen[o] /\ config[o] # None
         /\ Send(c, "io", o, config[o])
         /\ Await(c, At("readUntil", o, config[o], "return", {}))
    /\ UNCHANGED <<created, known, portVars, openPorts, device, answers>>

-----------------------------------------------------------------------------
(* The platform answers the oldest request.                                *)
Succeeds(r) ==
    IF r.kind = "open" THEN device[r.name] = None ELSE device[r.name] # None

(* Mutant: the platform forgets to answer a request that failed.           *)
PlatformAnswersSuccess ==
    /\ requests # <<>>
    /\ LET r == Head(requests) IN
         /\ device' = IF ~Succeeds(r) \/ r.kind = "io" THEN device
                      ELSE [device EXCEPT ![r.name] = IF r.kind = "open" THEN r.port ELSE None]
         /\ answers' = IF ~Succeeds(r) THEN answers
                       ELSE Append(answers, [request |-> r, ok |-> TRUE, served |-> device[r.name]])
    /\ requests' = Tail(requests)
    /\ UNCHANGED <<created, known, portVars, openPorts, call, started>>

PlatformAnswers ==
    /\ requests # <<>>
    /\ LET r == Head(requests) IN
       \E ok \in {Succeeds(r)} \cup (IF r.kind = "open" THEN {FALSE} ELSE {}) :
         /\ device' = IF ~ok \/ r.kind = "io" THEN device
                      ELSE [device EXCEPT ![r.name] = IF r.kind = "open" THEN r.port ELSE None]
         /\ answers' = Append(answers, [request |-> r, ok |-> ok, served |-> device[r.name]])
    /\ requests' = Tail(requests)
    /\ UNCHANGED <<created, known, portVars, openPorts, call, started>>

(* The next answer reaches the call that waits for it.                     *)
Delivers(c, where) ==
    /\ answers # <<>>
    /\ Head(answers).request.call = c
    /\ call[c].at = where
    /\ answers' = Tail(answers)

(* Mutant: the port counts as open whether or not the platform opened it.  *)
OpenReturnsOptimistic(c) ==
    /\ Delivers(c, "open")
    /\ LET o == call[c].port IN
         /\ isOpen' = [isOpen EXCEPT ![o] = TRUE]
         /\ config' = IF Head(answers).ok THEN [config EXCEPT ![o] = call[c].name] ELSE config
         /\ listening' = listening \cup {<<o, call[c].name>>}
    /\ Await(c, Idle)
    /\ UNCHANGED <<created, known, disposed, openPorts, device, requests, started>>

OpenReturns(c) ==
    /\ Delivers(c, "open")
    /\ LET o == call[c].port
           n == call[c].name
       IN  IF Head(answers).ok
           THEN /\ config' = [config EXCEPT ![o] = n]
                /\ isOpen' = [isOpen EXCEPT ![o] = TRUE]
                /\ listening' = listening \cup {<<o, n>>}
                /\ openPorts' = IF call[c].next = "track"
                                THEN [openPorts EXCEPT ![n] = o] ELSE openPorts
                /\ known' = known \cup {o}
           ELSE /\ isOpen' = [isOpen EXCEPT ![o] = FALSE]
                /\ UNCHANGED <<config, listening, openPorts, known>>
    /\ Await(c, Idle)
    /\ UNCHANGED <<created, disposed, device, requests, started>>

(* Mutant: the close request overtakes the operations in the queue.        *)
CancelReturnsUrgently(c) ==
    /\ call[c].at = "cancel"
    /\ call' = [call EXCEPT ![c].at = "close"]
    /\ requests' = <<[call |-> c, kind |-> "close", port |-> call[c].port,
                      name |-> call[c].name, settled |-> FALSE]>> \o requests
    /\ UNCHANGED <<created, known, portVars, openPorts, device, answers, started>>

(* The future of cancel() completes without an error: an event channel     *)
(* reports a platform error of its own cancel message elsewhere.           *)
CancelReturns(c) ==
    /\ call[c].at = "cancel"
    /\ call' = [call EXCEPT ![c].at = "close"]
    /\ Send(c, "close", call[c].port, call[c].name)
    /\ UNCHANGED <<created, known, portVars, openPorts, device, answers, started>>

(* The finally of close runs whatever the platform answered; dispose goes  *)
(* on only when close did not throw, closeAll in any case.                 *)
CloseReturns(c) ==
    /\ Delivers(c, "close")
    /\ LET o == call[c].port IN
         /\ isOpen' = [isOpen EXCEPT ![o] = FALSE]
         /\ config' = [config EXCEPT ![o] = None]
         /\ IF call[c].next = "dispose" /\ Head(answers).ok
            THEN CloseControllers(c, o) /\ UNCHANGED listening
            ELSE /\ UNCHANGED disposed
                 /\ IF call[c].next = "closeNext"
                    THEN CloseNext(c, call[c].rest)
                    ELSE Await(c, Idle) /\ UNCHANGED listening
    /\ UNCHANGED <<created, known, openPorts, device, requests, started>>

(* A controller's close() returns when its listeners, none of them left    *)
(* paused, have been told.                                                 *)
ControllerCloses(c) ==
    /\ call[c].at \in Disposing
    /\ CASE call[c].at = "closeData" -> call' = [call EXCEPT ![c].at = "closeText"]
         [] call[c].at = "closeText" -> call' = [call EXCEPT ![c].at = "closeError"]
         [] OTHER -> Await(c, Idle)
    /\ UNCHANGED <<created, known, portVars, openPorts, device, requests, answers, started>>

IoReturns(c) ==
    /\ Delivers(c, "io")
    /\ Await(c, Idle)
    /\ UNCHANGED <<created, known, portVars, openPorts, device, requests, started>>

(* .timeout(t): the caller gets its error, the request stays where it is.  *)
Abandon(r, c) == IF r.call = c THEN [r EXCEPT !.call = None] ELSE r

IoTimesOut(c) ==
    /\ call[c].at = "io"
    /\ requests' = [i \in DOMAIN requests |-> Abandon(requests[i], c)]
    /\ answers' = [i \in DOMAIN answers |-> [answers[i] EXCEPT !.request = Abandon(@, c)]]
    /\ Await(c, Idle)
    /\ UNCHANGED <<created, known, portVars, openPorts, device, started>>

LateAnswerDropped ==
    /\ answers # <<>>
    /\ Head(answers).request.call = None
    /\ answers' = Tail(answers)
    /\ UNCHANGED <<created, known, portVars, openPorts, call, device, requests, started>>

(* A byte that is not the end of the terminator, or an empty read, leads   *)
(* to the 10 ms delay; the terminator, an error and the deadline end it.   *)
ReadUntilReturns(c) ==
    /\ Delivers(c, "readUntil")
    /\ \/ Head(answers).ok /\ call' = [call EXCEPT ![c].at = "delay"]
       \/ Await(c, Idle)
    /\ UNCHANGED <<created, known, portVars, openPorts, device, requests, started>>

ReadUntilContinues(c) ==
    /\ call[c].at = "delay"
    /\ config[call[c].port] # None
    /\ Send(c, "io", call[c].port, config[call[c].port])
    /\ call' = [call EXCEPT ![c].at = "readUntil", ![c].name = config[call[c].port]]
    /\ UNCHANGED <<created, known, portVars, openPorts, device, answers, started>>

(* _config! of a closed port throws, and so does the deadline.             *)
ReadUntilFails(c) ==
    /\ call[c].at = "delay"
    /\ Await(c, Idle)
    /\ UNCHANGED <<created, known, portVars, openPorts, device, requests, answers, started>>

-----------------------------------------------------------------------------
Application(c) ==
    \/ OpenPort(c) \/ ManagerOpen(c) \/ ClosePort(c) \/ ManagerClose(c)
    \/ ManagerCloseAll(c) \/ Dispose(c) \/ Io(c) \/ ReadUntil(c)

Resume(c) ==
    \/ OpenReturns(c) \/ CancelReturns(c) \/ CloseReturns(c) \/ ControllerCloses(c)
    \/ IoReturns(c)
    \/ ReadUntilReturns(c) \/ ReadUntilContinues(c) \/ ReadUntilFails(c)

Runtime == PlatformAnswers \/ LateAnswerDropped \/ \E c \in Calls : Resume(c)

Next == Runtime \/ CreatePort \/ \E c \in Calls : Application(c) \/ IoTimesOut(c)

Spec == Init /\ [][Next]_vars

(* Every request is answered, and the event loop delivers the answers; the *)
(* application owes nothing.                                               *)
FairSpec ==
    /\ Spec
    /\ WF_vars(PlatformAnswers)
    /\ WF_vars(LateAnswerDropped)
    /\ \A c \in Calls : WF_vars(Resume(c))

-----------------------------------------------------------------------------
(* Types; a port that says it is open has a configuration, which is what   *)
(* every operation dereferences with _config!.                             *)
TypeOK ==
    /\ created \subseteq Objects
    /\ known \subseteq created
    /\ config \in [Objects -> Names \cup {None}]
    /\ isOpen \in [Objects -> BOOLEAN]
    /\ \A o \in Objects : isOpen[o] => config[o] # None
    /\ listening \subseteq created \X Names
    /\ disposed \subseteq created
    /\ openPorts \in [Names -> created \cup {None}]
    /\ call \in [Calls -> CallRecord]
    /\ device \in [Names -> created \cup {None}]
    /\ requests \in Seq(Request)
    /\ answers \in Seq(Answer)
    /\ started \in 0 .. MaxRequests

(* isOpen: while no open or close of an object is in progress, it is open  *)
(* exactly when the platform has opened its port for it, and for no other  *)
(* name.  A port is not left open that nothing can close any more.         *)
IsOpenTellsTheTruth ==
    \A o \in created : ~Busy(o) =>
        {n \in Names : device[n] = o} = IF isOpen[o] THEN {config[o]} ELSE {}

(* The listener set up by open is cancelled by close: a closed port has no *)
(* live subscription that could add events to its streams, and a disposed  *)
(* one never adds to a closed controller.                                  *)
ListenersMatch ==
    \A o \in created : ~Busy(o) =>
        {n \in Names : <<o, n>> \in listening} =
            IF isOpen[o] /\ o \notin disposed THEN {config[o]} ELSE {}

(* An operation started on a port that was neither being opened nor closed *)
(* is carried out on that port's own opening of the device, although the   *)
(* port may be closed, and the device opened again by another object,      *)
(* before the platform gets to it.                                         *)
ServedByOwnOpening ==
    \A i \in DOMAIN answers :
        LET a == answers[i]
        IN  a.request.kind = "io" /\ a.request.settled /\ a.ok => a.served = a.request.port

Waits(c, o) == call[c].at \in Lifecycle /\ call[c].port = o

Owns(c, o) == Waits(c, o) \/ o \in call[c].rest

(* An open port in the manager's hands: it is tracked, or a call of the    *)
(* manager or of the port has it to close.                                 *)
InHand(o) == isOpen[o] /\ ((\E n \in Names : openPorts[n] = o) \/ \E c \in Calls : Owns(c, o))

(* closeAll forgets every tracked port before it closes them one by one,   *)
(* and closePort forgets its port before it closes it: whatever the close  *)
(* of one port throws, no port that was in the manager's hands is left     *)
(* open with nobody who tracks it or is about to close it.                 *)
OpenPortsStayInHand ==
    [][\A o \in Objects : InHand(o) => InHand(o)' \/ ~isOpen'[o]]_vars

(* Every open, close, dispose, closePort and closeAll ends.                *)
LifecycleCallsReturn ==
    \A c \in Calls : (call[c].at \in Lifecycle \cup Disposing) ~> (call[c] = Idle)

-----------------------------------------------------------------------------
(* The inductive invariant.                                                *)

(* A call that waits has a port and a name.                                *)
CallShape ==
    \A c \in Calls :
        /\ call[c].at # "idle" => call[c].port \in created
        /\ call[c].at \notin Disposing \cup {"idle"} => call[c].name \in Names
        /\ call[c].rest \subseteq created

(* An object has one open, close or closeAll at a time.                    *)
OwnerShape ==
    /\ \A c, d \in Calls, o \in Objects : Owns(c, o) /\ Owns(d, o) => c = d
    /\ \A c \in Calls : call[c].at \in Lifecycle => call[c].port \notin call[c].rest

OpenedFor(o) == {n \in Names : device[n] = o}

ListensTo(o) == {n \in Names : <<o, n>> \in listening}

(* What isOpen and the listeners say of an object with no open or close    *)
(* in progress, and of one that is opened or closed.                       *)
ObjectShape ==
    /\ \A o \in Objects :
          /\ ~isOpen[o] => config[o] = None
          /\ o \in disposed => ~isOpen[o]
          /\ (\A c \in Calls : ~Waits(c, o)) =>
                OpenedFor(o) = (IF isOpen[o] THEN {config[o]} ELSE {}) /\ ListensTo(o) = OpenedFor(o)
    /\ \A c \in Calls :
          LET o == call[c].port
          IN  /\ call[c].at \in Lifecycle => ListensTo(o) = {}
              /\ call[c].at = "open" => ~isOpen[o] /\ o \notin disposed
              /\ call[c].at \in {"cancel", "close"} => isOpen[o] /\ config[o] = call[c].name
              /\ call[c].at = "cancel" => OpenedFor(o) = {call[c].name}

(* A request is that of a call which waits for it, unless its caller gave  *)
(* up waiting; only an operation is given up.                              *)
WaitsFor(r) ==
    /\ r.kind = "io" => r.call = None \/ call[r.call].at \in {"io", "readUntil"}
    /\ r.kind # "io" => /\ r.call # None
                        /\ call[r.call].at = r.kind
                        /\ call[r.call].port = r.port /\ call[r.call].name = r.name

(* What the platform did and will do when it comes to a request.           *)
RequestShape ==
    \A i \in DOMAIN requests :
        LET r == requests[i]
        IN  /\ WaitsFor(r) /\ r.port \in created
            /\ r.kind = "open" => OpenedFor(r.port) = {}
            /\ r.kind = "close" => OpenedFor(r.port) = {r.name}

AnswerShape ==
    \A i \in DOMAIN answers :
        LET a == answers[i]
            r == a.request
        IN  /\ WaitsFor(r)
            /\ r.kind = "open" => OpenedFor(r.port) = IF a.ok THEN {r.name} ELSE {}
            /\ r.kind = "close" => a.ok /\ OpenedFor(r.port) = {}

(* A call waits for one request.                                           *)
OneRequest ==
    /\ \A i, j \in DOMAIN requests :
          i # j /\ requests[i].call # None => requests[i].call # requests[j].call
    /\ \A i, j \in DOMAIN answers :
          i # j /\ answers[i].request.call # None => answers[i].request.call # answers[j].request.call
    /\ \A i \in DOMAIN requests, j \in DOMAIN answers :
          requests[i].call # None => requests[i].call # answers[j].request.call

(* An operation started on a settled port comes before the close that ends *)
(* the port's opening of its device.                                       *)
OrderShape ==
    \A i \in DOMAIN requests :
        requests[i].kind = "io" /\ requests[i].settled =>
            /\ device[requests[i].name] = requests[i].port
            /\ \A j \in DOMAIN requests :
                  j < i => ~(requests[j].kind = "close" /\ requests[j].port = requests[i].port)

Sequential ==
    /\ OwnerShape /\ ObjectShape /\ RequestShape /\ AnswerShape /\ OneRequest /\ OrderShape
    /\ ServedByOwnOpening

TypeInv == TypeOK /\ CallShape /\ \A i \in DOMAIN requests : requests[i].port \in created

IInv == TypeInv /\ (~Overlap => Sequential)

=============================================================================
