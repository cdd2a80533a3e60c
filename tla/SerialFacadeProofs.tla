--------------------------- MODULE SerialFacadeProofs --------------------------
(***************************************************************************)
(* What SerialFacade guarantees for every number of calls, objects and     *)
(* names: the types in any case, and what the lifecycle of an object       *)
(* promises when the application awaits one call of an object's lifecycle  *)
(* before it starts the next.                                              *)
(***************************************************************************)
EXTENDS SerialFacade, SequenceTheorems, TLAPS

-----------------------------------------------------------------------------
(* Types, in parts.                                                        *)
ObjectTypes ==
    /\ created \subseteq Objects
    /\ known \subseteq created
    /\ config \in [Objects -> Names \cup {None}]
    /\ isOpen \in [Objects -> BOOLEAN]
    /\ \A o \in Objects : isOpen[o] => config[o] # None
    /\ listening \subseteq created \X Names
    /\ disposed \subseteq created
    /\ openPorts \in [Names -> created \cup {None}]

CallTypes ==
    /\ call \in [Calls -> CallRecord]
    /\ started \in 0 .. MaxRequests
    /\ CallShape

QueueTypes ==
    /\ requests \in Seq(Request)
    /\ answers \in Seq(Answer)
    /\ device \in [Names -> created \cup {None}]
    /\ \A i \in DOMAIN requests : requests[i].port \in created

(* The types in their parts.                                               *)
LEMMA TypeParts == TypeInv <=> ObjectTypes /\ CallTypes /\ QueueTypes
  BY DEF TypeInv, TypeOK, ObjectTypes, CallTypes, QueueTypes

(* The record of a call in its fields.                                     *)
LEMMA RecordFields ==
    ASSUME NEW where, NEW o, NEW n, NEW next, NEW rest
    PROVE  LET r == At(where, o, n, next, rest)
           IN  r.at = where /\ r.port = o /\ r.name = n /\ r.next = next /\ r.rest = rest
  BY DEF At

(* The record of a call that waits.                                        *)
LEMMA RecordTypes ==
    ASSUME NEW where \in Awaits, NEW o \in Objects, NEW n \in Names, NEW next \in Nexts,
           NEW rest \in SUBSET Objects
    PROVE  At(where, o, n, next, rest) \in CallRecord
  BY DEF At, CallRecord

(* The record of a call that has returned.                                 *)
LEMMA IdleTypes == Idle \in CallRecord /\ Idle.at = "idle" /\ Idle.rest = {}
  BY DEF Idle, CallRecord, Awaits, Nexts

(* A call that waits has a port that exists and, unless it disposes of it, *)
(* a name.                                                                 *)
LEMMA CallFields ==
    ASSUME ObjectTypes, CallTypes, NEW c \in Calls
    PROVE  /\ call[c] \in CallRecord /\ call[c].rest \subseteq created /\ call[c].rest \subseteq Objects
           /\ call[c].at # "idle" => call[c].port \in created /\ call[c].port \in Objects
           /\ call[c].at \notin Disposing \cup {"idle"} => call[c].name \in Names
  BY DEF CallTypes, CallShape, ObjectTypes

(* A call moves to a record.                                               *)
LEMMA CallMoves ==
    ASSUME ObjectTypes, CallTypes, NEW c \in Calls, NEW r \in CallRecord,
           call' = [call EXCEPT ![c] = r], started' \in 0 .. MaxRequests,
           r.at # "idle" => r.port \in created',
           r.at \notin Disposing \cup {"idle"} => r.name \in Names,
           r.rest \subseteq created', created \subseteq created'
    PROVE  CallTypes'
<1>1. call' \in [Calls -> CallRecord] /\ call'[c] = r /\ \A d \in Calls : d # c => call'[d] = call[d]
  BY DEF CallTypes
<1>2. ASSUME NEW d \in Calls
      PROVE  /\ call'[d].at # "idle" => call'[d].port \in created'
             /\ call'[d].at \notin Disposing \cup {"idle"} => call'[d].name \in Names
             /\ call'[d].rest \subseteq created'
  <2>1. CASE d = c
    BY <1>1, <2>1
  <2>2. CASE d # c
    BY <1>1, <2>2 DEF CallTypes, CallShape
  <2> QED BY <2>1, <2>2
<1> QED BY <1>1, <1>2 DEF CallTypes, CallShape

(* A call is started: the bound on calls is not passed.                    *)
LEMMA StartTypes ==
    ASSUME CallTypes, NEW c \in Calls, Start(c)
    PROVE  started' \in 0 .. MaxRequests /\ call[c] = Idle
  BY BoundAssumption DEF Start, CallTypes

(* A call that starts to wait keeps the types of the calls.                *)
LEMMA CallWaits ==
    ASSUME ObjectTypes, CallTypes, NEW c \in Calls, NEW where \in Awaits, NEW o \in Objects, o \in created',
           NEW n \in Names, NEW next \in Nexts, Await(c, At(where, o, n, next, {})),
           started' \in 0 .. MaxRequests, created \subseteq created'
    PROVE  CallTypes'
<1> DEFINE r == At(where, o, n, next, {})
<1>1. r \in CallRecord /\ r.port = o /\ r.name = n /\ r.rest = {} /\ call' = [call EXCEPT ![c] = r]
  BY RecordTypes, RecordFields DEF Await
<1> HIDE DEF r
<1> QED BY <1>1, CallMoves

(* A call that goes on to close the stream controllers of an object.       *)
LEMMA CallDisposes ==
    ASSUME ObjectTypes, CallTypes, NEW c \in Calls, NEW o \in Objects, o \in created,
           CloseControllers(c, o), started' \in 0 .. MaxRequests, UNCHANGED created
    PROVE  CallTypes'
<1> DEFINE r == At("closeData", o, None, "return", {})
<1>1. r \in CallRecord /\ r.at = "closeData" /\ r.port = o /\ r.rest = {}
  BY DEF At, CallRecord, Awaits, Disposing, Nexts
<1>2. call' = [call EXCEPT ![c] = r]
  BY DEF CloseControllers, Await
<1> HIDE DEF r
<1> QED BY <1>1, <1>2, CallMoves DEF Disposing

(* A call that ends.                                                       *)
LEMMA CallEnds ==
    ASSUME ObjectTypes, CallTypes, NEW c \in Calls, Await(c, Idle), started' \in 0 .. MaxRequests,
           created \subseteq created'
    PROVE  CallTypes'
  BY IdleTypes, CallMoves DEF Await

(* Calls that do not move keep their types.                                *)
LEMMA CallsStay ==
    ASSUME CallTypes, call' = call, started' \in 0 .. MaxRequests, created \subseteq created'
    PROVE  CallTypes'
  BY DEF CallTypes, CallShape

(* A call that goes on closing an object.                                  *)
LEMMA CloseTypes ==
    ASSUME ObjectTypes, CallTypes, NEW c \in Calls, NEW o \in created, NEW next \in Nexts,
           NEW rest \in SUBSET created, Close(c, o, next, rest), started' \in 0 .. MaxRequests,
           UNCHANGED created
    PROVE  CallTypes' /\ listening' \subseteq listening
<1>1. /\ o \in Objects /\ config[o] \in Names /\ rest \in SUBSET Objects
      /\ call' = [call EXCEPT ![c] = At("cancel", o, config[o], next, rest)]
  BY DEF Close, Await, ObjectTypes
<1>2. At("cancel", o, config[o], next, rest) \in CallRecord
  BY <1>1, RecordTypes DEF Awaits
<1>3. listening' \subseteq listening
  BY DEF Close
<1>4. CallTypes'
  <2> DEFINE r == At("cancel", o, config[o], next, rest)
  <2>1. r.port = o /\ r.name = config[o] /\ r.rest = rest
    BY RecordFields
  <2> HIDE DEF r
  <2> QED BY <1>1, <1>2, <2>1, CallMoves DEF r
<1> QED BY <1>3, <1>4

(* closeAll's step to its next port keeps the types of the calls.          *)
LEMMA CloseNextTypes ==
    ASSUME ObjectTypes, CallTypes, NEW c \in Calls, NEW ports \in SUBSET created, CloseNext(c, ports),
           started' \in 0 .. MaxRequests, UNCHANGED created
    PROVE  CallTypes' /\ listening' \subseteq listening
<1>1. ASSUME NEW o \in ports, NEW passed, Close(c, o, "closeNext", ports \ (passed \cup {o}))
      PROVE  CallTypes' /\ listening' \subseteq listening
  BY <1>1, CloseTypes DEF Nexts
<1>2. CASE Await(c, Idle) /\ UNCHANGED listening
  BY <1>2, CallEnds
<1> QED BY <1>1, <1>2 DEF CloseNext

(* A request is sent for an object that exists.                            *)
LEMMA SendTypes ==
    ASSUME NEW c \in Calls, NEW k \in {"open", "close", "io"}, NEW o \in Objects, NEW n \in Names, Send(c, k, o, n)
    PROVE  \E r \in Request :
               /\ requests' = Append(requests, r)
               /\ r.call = c /\ r.kind = k /\ r.port = o /\ r.name = n /\ r.settled = ~Busy(o)
<1> DEFINE r == [call |-> c, kind |-> k, port |-> o, name |-> n, settled |-> ~Busy(o)]
<1>1. (~Busy(o)) \in BOOLEAN
  OBVIOUS
<1>2. r \in Request
  BY <1>1 DEF Request
<1>3. r.call = c /\ r.kind = k /\ r.port = o /\ r.name = n /\ r.settled = ~Busy(o)
  OBVIOUS
<1>4. requests' = Append(requests, r)
  BY DEF Send
<1> HIDE DEF r
<1> QED BY <1>2, <1>3, <1>4

(* A request that is sent keeps the types of the queues.                   *)
LEMMA SendsTyped ==
    ASSUME ObjectTypes, QueueTypes, NEW c \in Calls, NEW k \in {"open", "close", "io"}, NEW o \in Objects,
           NEW n \in Names, Send(c, k, o, n), UNCHANGED <<answers, device>>, created \subseteq created',
           o \in created'
    PROVE  QueueTypes'
<1>1. PICK r \in Request : requests' = Append(requests, r) /\ r.port = o
  BY SendTypes
<1>2. requests' \in Seq(Request) /\ \A i \in DOMAIN requests' : requests'[i].port \in created'
  BY <1>1 DEF QueueTypes
<1> QED BY <1>2 DEF QueueTypes

(* Queues that stay, or give up an answer, keep their types.               *)
LEMMA QueuesStay ==
    ASSUME QueueTypes, UNCHANGED <<requests, device>>, answers' = answers \/ (answers # <<>> /\ answers' = Tail(answers)),
           created \subseteq created'
    PROVE  QueueTypes'
<1>1. answers' \in Seq(Answer)
  BY DEF QueueTypes
<1> QED BY <1>1 DEF QueueTypes

(* The first request and the first answer.                                 *)
LEMMA FirstRequest ==
    ASSUME QueueTypes, requests # <<>>
    PROVE  /\ Head(requests) = requests[1] /\ requests[1] \in Request /\ 1 \in DOMAIN requests
           /\ requests[1].port \in created /\ requests[1].name \in Names
           /\ requests[1].kind \in {"open", "close", "io"}
           /\ Tail(requests) \in Seq(Request) /\ DOMAIN Tail(requests) = 1 .. Len(requests) - 1
           /\ \A i \in DOMAIN Tail(requests) : i + 1 \in DOMAIN requests /\ Tail(requests)[i] = requests[i + 1]
<1>1. requests \in Seq(Request) /\ 1 \in DOMAIN requests /\ Len(requests) \in Nat
  BY DEF QueueTypes
<1>2. requests[1] \in Request /\ requests[1].port \in created
  BY <1>1 DEF QueueTypes
<1>3. requests[1].name \in Names /\ requests[1].kind \in {"open", "close", "io"}
  BY <1>2 DEF Request
<1> QED BY <1>1, <1>2, <1>3

(* The first answer and the rest.                                          *)
LEMMA FirstAnswer ==
    ASSUME QueueTypes, answers # <<>>
    PROVE  /\ Head(answers) = answers[1] /\ answers[1] \in Answer /\ 1 \in DOMAIN answers
           /\ Tail(answers) \in Seq(Answer) /\ DOMAIN Tail(answers) = 1 .. Len(answers) - 1
           /\ \A i \in DOMAIN Tail(answers) : i + 1 \in DOMAIN answers /\ Tail(answers)[i] = answers[i + 1]
<1>1. answers \in Seq(Answer) /\ 1 \in DOMAIN answers /\ Len(answers) \in Nat
  BY DEF QueueTypes
<1> QED BY <1>1

(* What the platform does with a request.                                  *)
Answers(r, ok) ==
    /\ ok \in BOOLEAN
    /\ ok => ok = Succeeds(r)
    /\ r.kind # "open" => ok = Succeeds(r)
    /\ device' = IF ~ok \/ r.kind = "io" THEN device
                 ELSE [device EXCEPT ![r.name] = IF r.kind = "open" THEN r.port ELSE None]
    /\ answers' = Append(answers, [request |-> r, ok |-> ok, served |-> device[r.name]])
    /\ requests' = Tail(requests)

(* The platform answers the first request, with success or failure.        *)
LEMMA PlatformStep ==
    ASSUME QueueTypes, PlatformAnswers
    PROVE  /\ requests # <<>>
           /\ \E ok \in BOOLEAN : Answers(requests[1], ok)
<1>1. requests # <<>> /\ Head(requests) = requests[1] /\ requests' = Tail(requests)
  BY FirstRequest DEF PlatformAnswers
<1>2. Succeeds(requests[1]) \in BOOLEAN
  BY DEF Succeeds
<1>3. PICK ok \in {Succeeds(requests[1])} \cup (IF requests[1].kind = "open" THEN {FALSE} ELSE {}) :
         /\ device' = IF ~ok \/ requests[1].kind = "io" THEN device
                      ELSE [device EXCEPT ![requests[1].name] =
                               IF requests[1].kind = "open" THEN requests[1].port ELSE None]
         /\ answers' = Append(answers, [request |-> requests[1], ok |-> ok,
                                        served |-> device[requests[1].name]])
  BY <1>1 DEF PlatformAnswers
<1>4. ok \in BOOLEAN /\ (ok => ok = Succeeds(requests[1]))
      /\ (requests[1].kind # "open" => ok = Succeeds(requests[1]))
  BY <1>2, <1>3
<1> QED BY <1>1, <1>3, <1>4 DEF Answers

(* A caller gives up: nothing but the call of its request changes.         *)
LEMMA AbandonFields ==
    ASSUME NEW r \in Request, NEW c
    PROVE  /\ Abandon(r, c) \in Request
           /\ Abandon(r, c).kind = r.kind /\ Abandon(r, c).port = r.port /\ Abandon(r, c).name = r.name
           /\ Abandon(r, c).settled = r.settled
           /\ Abandon(r, c).call = IF r.call = c THEN None ELSE r.call
  BY DEF Abandon, Request

(* A timeout abandons the call's request and answer where they are.        *)
LEMMA GivesUp ==
    ASSUME QueueTypes, NEW c \in Calls, IoTimesOut(c)
    PROVE  /\ requests' \in Seq(Request) /\ DOMAIN requests' = DOMAIN requests
           /\ \A i \in DOMAIN requests : requests'[i] = Abandon(requests[i], c)
           /\ answers' \in Seq(Answer) /\ DOMAIN answers' = DOMAIN answers
           /\ \A i \in DOMAIN answers :
                 /\ answers'[i].request = Abandon(answers[i].request, c)
                 /\ answers'[i].ok = answers[i].ok /\ answers'[i].served = answers[i].served
<1>1. /\ requests \in Seq(Request) /\ DOMAIN requests = 1 .. Len(requests) /\ Len(requests) \in Nat
      /\ answers \in Seq(Answer) /\ DOMAIN answers = 1 .. Len(answers) /\ Len(answers) \in Nat
  BY DEF QueueTypes
<1>2. /\ requests' = [i \in DOMAIN requests |-> Abandon(requests[i], c)]
      /\ answers' = [i \in DOMAIN answers |-> [answers[i] EXCEPT !.request = Abandon(answers[i].request, c)]]
  BY DEF IoTimesOut
<1>3. \A i \in DOMAIN requests : Abandon(requests[i], c) \in Request
  BY <1>1, AbandonFields
<1>4. ASSUME NEW i \in DOMAIN answers
      PROVE  LET a == [answers[i] EXCEPT !.request = Abandon(answers[i].request, c)]
             IN  /\ a \in Answer /\ a.request = Abandon(answers[i].request, c)
                 /\ a.ok = answers[i].ok /\ a.served = answers[i].served
  <2>1. answers[i] \in Answer
    BY <1>1
  <2>2. answers[i].request \in Request
    BY <2>1 DEF Answer
  <2>3. Abandon(answers[i].request, c) \in Request
    BY <2>2, AbandonFields
  <2> QED BY <2>1, <2>3 DEF Answer
<1>5. requests' \in Seq(Request)
  BY <1>1, <1>2, <1>3
<1>6. answers' \in Seq(Answer)
  BY <1>1, <1>2, <1>4
<1> QED BY <1>2, <1>4, <1>5, <1>6

(* A step keeps the types of the objects.                                  *)
LEMMA ObjectTypesStep == TypeInv /\ [Next]_vars => ObjectTypes'
<1> SUFFICES ASSUME TypeInv, [Next]_vars PROVE ObjectTypes'
  OBVIOUS
<1>0. ObjectTypes /\ CallTypes /\ QueueTypes
  BY TypeParts
<1>1. CASE CreatePort
  <2>1. /\ created' \subseteq Objects /\ created \subseteq created' /\ known' \subseteq created'
        /\ UNCHANGED <<config, isOpen, listening, disposed, openPorts>>
    BY <1>0, <1>1 DEF CreatePort, Create, portVars, ObjectTypes
  <2> QED BY <1>0, <2>1 DEF ObjectTypes
<1>2. ASSUME NEW c \in Calls, OpenPort(c) \/ Io(c) \/ ReadUntil(c) PROVE ObjectTypes'
  <2>1. UNCHANGED <<created, known, config, isOpen, listening, disposed, openPorts>>
    BY <1>2 DEF OpenPort, Io, ReadUntil, portVars
  <2> QED BY <1>0, <2>1 DEF ObjectTypes
<1>3. ASSUME NEW c \in Calls, ManagerOpen(c) PROVE ObjectTypes'
  <2>1. PICK m \in Names : openPorts' = [openPorts EXCEPT ![m] = None]
    BY <1>3 DEF ManagerOpen
  <2>2. /\ created' \subseteq Objects /\ created \subseteq created'
        /\ UNCHANGED <<known, config, isOpen, listening, disposed>>
    BY <1>0, <1>3 DEF ManagerOpen, Create, portVars, ObjectTypes
  <2> QED BY <1>0, <2>1, <2>2 DEF ObjectTypes
<1>4. ASSUME NEW c \in Calls, ClosePort(c) PROVE ObjectTypes'
  <2>1. listening' \subseteq listening /\ UNCHANGED <<created, known, config, isOpen, disposed, openPorts>>
    BY <1>4 DEF ClosePort, Close
  <2> QED BY <1>0, <2>1 DEF ObjectTypes
<1>5. ASSUME NEW c \in Calls, ManagerClose(c) PROVE ObjectTypes'
  <2>1. PICK m \in Names : openPorts' = [openPorts EXCEPT ![m] = None]
    BY <1>5 DEF ManagerClose
  <2>2. listening' \subseteq listening /\ UNCHANGED <<created, known, config, isOpen, disposed>>
    BY <1>5 DEF ManagerClose, Close
  <2> QED BY <1>0, <2>1, <2>2 DEF ObjectTypes
<1>6. ASSUME NEW c \in Calls, ManagerCloseAll(c) PROVE ObjectTypes'
  <2>1. openPorts' = [m \in Names |-> None]
    BY <1>6 DEF ManagerCloseAll
  <2>2. listening' \subseteq listening /\ UNCHANGED <<created, known, config, isOpen, disposed>>
    BY <1>6 DEF ManagerCloseAll, CloseNext, Close
  <2> QED BY <1>0, <2>1, <2>2 DEF ObjectTypes
<1>7. ASSUME NEW c \in Calls, Dispose(c) PROVE ObjectTypes'
  <2>1. listening' \subseteq listening /\ disposed' \subseteq created /\ UNCHANGED <<created, known, config, isOpen, openPorts>>
    BY <1>0, <1>7 DEF Dispose, Close, CloseControllers, ObjectTypes
  <2> QED BY <1>0, <2>1 DEF ObjectTypes
<1>8. CASE PlatformAnswers \/ LateAnswerDropped
  <2>1. UNCHANGED <<created, known, config, isOpen, listening, disposed, openPorts>>
    BY <1>8 DEF PlatformAnswers, LateAnswerDropped, portVars
  <2> QED BY <1>0, <2>1 DEF ObjectTypes
<1>9. ASSUME NEW c \in Calls, OpenReturns(c) PROVE ObjectTypes'
  <2>1. call[c].port \in created /\ call[c].port \in Objects /\ call[c].name \in Names /\ None \notin Names
    BY <1>0, <1>9, CallFields, NoneAssumption DEF OpenReturns, Delivers, Disposing
  <2>2. UNCHANGED <<created, disposed>>
    BY <1>9 DEF OpenReturns
  <2>3. CASE Head(answers).ok
    <3>1. /\ config' = [config EXCEPT ![call[c].port] = call[c].name]
          /\ isOpen' = [isOpen EXCEPT ![call[c].port] = TRUE]
          /\ listening' = listening \cup {<<call[c].port, call[c].name>>}
          /\ openPorts' \in {openPorts, [openPorts EXCEPT ![call[c].name] = call[c].port]}
          /\ known' = known \cup {call[c].port}
      BY <1>9, <2>3 DEF OpenReturns
    <3>2. openPorts' \in [Names -> created \cup {None}]
      BY <1>0, <2>1, <3>1 DEF ObjectTypes
    <3>3. /\ config' \in [Objects -> Names \cup {None}] /\ isOpen' \in [Objects -> BOOLEAN]
          /\ \A o \in Objects : isOpen'[o] => config'[o] # None
      BY <1>0, <2>1, <3>1 DEF ObjectTypes
    <3> QED BY <1>0, <2>1, <2>2, <3>1, <3>2, <3>3 DEF ObjectTypes
  <2>4. CASE ~Head(answers).ok
    <3>1. isOpen' = [isOpen EXCEPT ![call[c].port] = FALSE] /\ UNCHANGED <<config, listening, openPorts, known>>
      BY <1>9, <2>4 DEF OpenReturns
    <3> QED BY <1>0, <2>1, <2>2, <3>1 DEF ObjectTypes
  <2> QED BY <2>3, <2>4
<1>10. ASSUME NEW c \in Calls, CancelReturns(c) \/ IoReturns(c) \/ IoTimesOut(c) \/
             ReadUntilReturns(c) \/ ReadUntilContinues(c) \/ ReadUntilFails(c) \/ ControllerCloses(c)
      PROVE  ObjectTypes'
  <2>1. UNCHANGED <<created, known, config, isOpen, listening, disposed, openPorts>>
    BY <1>10 DEF CancelReturns, IoReturns, IoTimesOut, ReadUntilReturns, ReadUntilContinues, ReadUntilFails,
                 ControllerCloses, portVars
  <2> QED BY <1>0, <2>1 DEF ObjectTypes
<1>11. ASSUME NEW c \in Calls, CloseReturns(c) PROVE ObjectTypes'
  <2>1. call[c].port \in created /\ call[c].port \in Objects
    BY <1>0, <1>11, CallFields DEF CloseReturns, Delivers
  <2>2. /\ isOpen' = [isOpen EXCEPT ![call[c].port] = FALSE] /\ config' = [config EXCEPT ![call[c].port] = None]
        /\ disposed' \in {disposed, disposed \cup {call[c].port}} /\ UNCHANGED <<created, known, openPorts>>
    BY <1>11 DEF CloseReturns, CloseControllers
  <2>3. listening' \subseteq listening
    BY <1>11 DEF CloseReturns, CloseNext, Close
  <2>4. /\ config' \in [Objects -> Names \cup {None}] /\ isOpen' \in [Objects -> BOOLEAN]
        /\ \A o \in Objects : isOpen'[o] => config'[o] # None
    BY <1>0, <2>1, <2>2 DEF ObjectTypes
  <2> QED BY <1>0, <2>1, <2>2, <2>3, <2>4 DEF ObjectTypes
<1>12. CASE UNCHANGED vars
  BY <1>0, <1>12 DEF vars, portVars, ObjectTypes
<1> QED
  BY <1>1, <1>2, <1>3, <1>4, <1>5, <1>6, <1>7, <1>8, <1>9, <1>10, <1>11, <1>12
  DEF Next, Runtime, Resume, Application

(* A step keeps the types of the calls.                                    *)
LEMMA CallTypesStep == TypeInv /\ [Next]_vars => CallTypes'
<1> SUFFICES ASSUME TypeInv, [Next]_vars PROVE CallTypes'
  OBVIOUS
<1>0. ObjectTypes /\ CallTypes /\ QueueTypes /\ started \in 0 .. MaxRequests
  BY TypeParts DEF CallTypes
<1>1. CASE CreatePort
  <2>1. call' = call /\ started' = started /\ created \subseteq created'
    BY <1>1 DEF CreatePort, Create
  <2> QED BY <1>0, <2>1, CallsStay
<1>2. ASSUME NEW c \in Calls, OpenPort(c) PROVE CallTypes'
  <2>1. PICK o \in created, m \in Names : Await(c, At("open", o, m, "return", {}))
    BY <1>0, <1>2 DEF OpenPort, Open, ObjectTypes
  <2>2. o \in Objects /\ UNCHANGED created
    BY <1>0, <1>2 DEF OpenPort, ObjectTypes
  <2>3. started' \in 0 .. MaxRequests
    BY <1>0, <1>2, StartTypes DEF OpenPort
  <2> QED BY <1>0, <2>1, <2>2, <2>3, CallWaits DEF Awaits, Nexts
<1>3. ASSUME NEW c \in Calls, ManagerOpen(c) PROVE CallTypes'
  <2>1. PICK o \in Objects, m \in Names : Await(c, At("open", o, m, "track", {})) /\ created' = created \cup {o}
    BY <1>3 DEF ManagerOpen, Open, Create
  <2>2. started' \in 0 .. MaxRequests
    BY <1>0, <1>3, StartTypes DEF ManagerOpen
  <2> QED BY <1>0, <2>1, <2>2, CallWaits DEF Awaits, Nexts
<1>4. ASSUME NEW c \in Calls, ClosePort(c) PROVE CallTypes'
  <2>1. PICK o \in created : Close(c, o, "return", {})
    BY <1>0, <1>4 DEF ClosePort, ObjectTypes
  <2>2. started' \in 0 .. MaxRequests /\ UNCHANGED created
    BY <1>0, <1>4, StartTypes DEF ClosePort
  <2> QED BY <1>0, <2>1, <2>2, CloseTypes DEF Nexts
<1>5. ASSUME NEW c \in Calls, ManagerClose(c) PROVE CallTypes'
  <2>1. PICK m \in Names : openPorts[m] # None /\ (Close(c, openPorts[m], "return", {}) \/ UNCHANGED call)
    BY <1>5 DEF ManagerClose
  <2>2. started' \in 0 .. MaxRequests /\ UNCHANGED created
    BY <1>0, <1>5, StartTypes DEF ManagerClose
  <2>3. openPorts[m] \in created
    BY <1>0, <2>1 DEF ObjectTypes
  <2>4. CASE UNCHANGED call
    BY <1>0, <2>2, <2>4, CallsStay
  <2> QED BY <1>0, <2>1, <2>2, <2>3, <2>4, CloseTypes DEF Nexts
<1>6. ASSUME NEW c \in Calls, ManagerCloseAll(c) PROVE CallTypes'
  <2> DEFINE ports == {openPorts[m] : m \in Names} \ {None}
  <2>1. CloseNext(c, ports)
    BY <1>6 DEF ManagerCloseAll
  <2>2. started' \in 0 .. MaxRequests /\ UNCHANGED created
    BY <1>0, <1>6, StartTypes DEF ManagerCloseAll
  <2>3. ports \in SUBSET created
    BY <1>0 DEF ObjectTypes
  <2> HIDE DEF ports
  <2> QED BY <1>0, <2>1, <2>2, <2>3, CloseNextTypes
<1>7. ASSUME NEW c \in Calls, Dispose(c) PROVE CallTypes'
  <2>1. PICK o \in created : Close(c, o, "dispose", {}) \/ CloseControllers(c, o)
    BY <1>0, <1>7 DEF Dispose, ObjectTypes
  <2>2. started' \in 0 .. MaxRequests /\ UNCHANGED created
    BY <1>0, <1>7, StartTypes DEF Dispose
  <2>3. o \in Objects
    BY <1>0 DEF ObjectTypes
  <2> QED BY <1>0, <2>1, <2>2, <2>3, CloseTypes, CallDisposes DEF Nexts
<1>8. ASSUME NEW c \in Calls, Io(c) PROVE CallTypes'
  <2>1. PICK o \in created : isOpen[o] /\ config[o] # None /\ Await(c, At("io", o, config[o], "return", {}))
    BY <1>0, <1>8 DEF Io, ObjectTypes
  <2>2. o \in Objects /\ config[o] \in Names /\ UNCHANGED created
    BY <1>0, <1>8, <2>1 DEF Io, ObjectTypes
  <2>3. started' \in 0 .. MaxRequests
    BY <1>0, <1>8, StartTypes DEF Io
  <2> QED BY <1>0, <2>1, <2>2, <2>3, CallWaits DEF Awaits, Nexts
<1>9. ASSUME NEW c \in Calls, ReadUntil(c) PROVE CallTypes'
  <2>1. PICK o \in created : isOpen[o] /\ config[o] # None /\ Await(c, At("readUntil", o, config[o], "return", {}))
    BY <1>0, <1>9 DEF ReadUntil, ObjectTypes
  <2>2. o \in Objects /\ config[o] \in Names /\ UNCHANGED created
    BY <1>0, <1>9, <2>1 DEF ReadUntil, ObjectTypes
  <2>3. started' \in 0 .. MaxRequests
    BY <1>0, <1>9, StartTypes DEF ReadUntil
  <2> QED BY <1>0, <2>1, <2>2, <2>3, CallWaits DEF Awaits, Nexts
<1>10. CASE PlatformAnswers \/ LateAnswerDropped
  <2>1. call' = call /\ started' = started /\ created' = created
    BY <1>10 DEF PlatformAnswers, LateAnswerDropped, vars
  <2> QED BY <1>0, <2>1, CallsStay
<1>11. ASSUME NEW c \in Calls, OpenReturns(c) \/ IoReturns(c) \/ IoTimesOut(c) \/
             ReadUntilFails(c)
      PROVE  CallTypes'
  <2>1. Await(c, Idle) /\ UNCHANGED <<created, started>>
    BY <1>11 DEF OpenReturns, IoReturns, IoTimesOut, ReadUntilFails
  <2> QED BY <1>0, <2>1, CallEnds
<1>12. ASSUME NEW c \in Calls, CancelReturns(c) PROVE CallTypes'
  <2> DEFINE r == [call[c] EXCEPT !.at = "close"]
  <2>1. call' = [call EXCEPT ![c] = r] /\ UNCHANGED <<created, started>>
    BY <1>12 DEF CancelReturns
  <2>2. r \in CallRecord /\ r.port = call[c].port /\ r.name = call[c].name /\ r.rest = call[c].rest
    BY <1>0, CallFields DEF CallRecord, Awaits
  <2>3. call[c].at \notin Disposing \cup {"idle"}
    BY <1>12 DEF CancelReturns, Disposing
  <2> HIDE DEF r
  <2> QED BY <1>0, <2>1, <2>2, <2>3, CallFields, CallMoves
<1>13. ASSUME NEW c \in Calls, CloseReturns(c) PROVE CallTypes'
  <2>1. UNCHANGED <<created, started>> /\ call[c].rest \in SUBSET created
    BY <1>0, <1>13, CallFields DEF CloseReturns
  <2>2. CloseNext(c, call[c].rest) \/ Await(c, Idle) \/ CloseControllers(c, call[c].port)
    BY <1>13 DEF CloseReturns
  <2>3. call[c].port \in created /\ call[c].port \in Objects
    BY <1>0, <1>13, CallFields DEF CloseReturns, Delivers
  <2> QED BY <1>0, <2>1, <2>2, <2>3, CloseNextTypes, CallEnds, CallDisposes
<1>14. ASSUME NEW c \in Calls, ReadUntilReturns(c) PROVE CallTypes'
  <2>1. UNCHANGED <<created, started>> /\ call[c].at \notin Disposing \cup {"idle"}
    BY <1>14 DEF ReadUntilReturns, Delivers, Disposing
  <2>2. CASE Await(c, Idle)
    BY <1>0, <2>1, <2>2, CallEnds
  <2>3. CASE call' = [call EXCEPT ![c] = [call[c] EXCEPT !.at = "delay"]]
    <3> DEFINE r == [call[c] EXCEPT !.at = "delay"]
    <3>2. call' = [call EXCEPT ![c] = r]
      BY <2>3
    <3>1. r \in CallRecord /\ r.port = call[c].port /\ r.name = call[c].name /\ r.rest = call[c].rest
      BY <1>0, CallFields DEF CallRecord, Awaits
    <3> HIDE DEF r
    <3> QED BY <1>0, <2>1, <3>1, <3>2, CallFields, CallMoves
  <2> QED BY <1>14, <2>2, <2>3 DEF ReadUntilReturns
<1>15. ASSUME NEW c \in Calls, ReadUntilContinues(c) PROVE CallTypes'
  <2> DEFINE m == config[call[c].port]
             r == [call[c] EXCEPT !.at = "readUntil", !.name = m]
  <2>1. call' = [call EXCEPT ![c] = r] /\ UNCHANGED <<created, started>> /\ call[c].at # "idle" /\ m # None
    BY <1>15 DEF ReadUntilContinues
  <2>2. m \in Names
    BY <1>0, <2>1, CallFields DEF ObjectTypes
  <2>3. r \in CallRecord /\ r.port = call[c].port /\ r.name = m /\ r.rest = call[c].rest
    BY <1>0, <2>2, CallFields DEF CallRecord, Awaits
  <2> HIDE DEF m, r
  <2> QED BY <1>0, <2>1, <2>2, <2>3, CallFields, CallMoves
<1>16. ASSUME NEW c \in Calls, ControllerCloses(c) PROVE CallTypes'
  <2>1. UNCHANGED <<created, started>> /\ call[c].at \in Disposing
    BY <1>16 DEF ControllerCloses
  <2>2. CASE Await(c, Idle)
    BY <1>0, <2>1, <2>2, CallEnds
  <2>3. ASSUME NEW next \in Disposing, call' = [call EXCEPT ![c] = [call[c] EXCEPT !.at = next]]
        PROVE  CallTypes'
    <3> DEFINE r == [call[c] EXCEPT !.at = next]
    <3>1. r \in CallRecord /\ r.at = next /\ r.port = call[c].port /\ r.rest = call[c].rest
      BY <1>0, CallFields DEF CallRecord, Awaits
    <3>2. call' = [call EXCEPT ![c] = r] /\ call[c].at # "idle"
      BY <2>1, <2>3 DEF Disposing
    <3> HIDE DEF r
    <3> QED BY <1>0, <2>1, <3>1, <3>2, CallFields, CallMoves
  <2> QED BY <1>16, <2>2, <2>3 DEF ControllerCloses, Disposing
<1>17. CASE UNCHANGED vars
  BY <1>0, <1>17, CallsStay DEF vars
<1> QED
  BY <1>1, <1>2, <1>3, <1>4, <1>5, <1>6, <1>7, <1>8, <1>9, <1>10, <1>11, <1>12, <1>13,
     <1>14, <1>15, <1>16, <1>17
  DEF Next, Runtime, Resume, Application

(* The platform's answer to the first request.                             *)
LEMMA AnswersTyped ==
    ASSUME ObjectTypes, QueueTypes, requests # <<>>, NEW ok \in BOOLEAN, Answers(requests[1], ok)
    PROVE  \E a \in Answer :
               /\ answers' = Append(answers, a)
               /\ a.request = requests[1] /\ a.ok = ok /\ a.served = device[requests[1].name]
<1>1. requests[1] \in Request /\ requests[1].name \in Names
  BY FirstRequest
<1> DEFINE a == [request |-> requests[1], ok |-> ok, served |-> device[requests[1].name]]
<1>2. device[requests[1].name] \in Objects \cup {None}
  <2>1. device[requests[1].name] \in created \cup {None}
    BY <1>1 DEF QueueTypes
  <2> QED BY <2>1 DEF ObjectTypes
<1>3. a \in Answer /\ a.request = requests[1] /\ a.ok = ok /\ a.served = device[requests[1].name]
  BY <1>1, <1>2 DEF Answer
<1>4. answers' = Append(answers, a)
  BY DEF Answers
<1> HIDE DEF a
<1> QED BY <1>3, <1>4

(* A step keeps the types of the queues.                                   *)
LEMMA QueueTypesStep == TypeInv /\ [Next]_vars => QueueTypes'
<1> SUFFICES ASSUME TypeInv, [Next]_vars PROVE QueueTypes'
  OBVIOUS
<1>0. ObjectTypes /\ CallTypes /\ QueueTypes
  BY TypeParts
<1>1. CASE CreatePort
  <2>1. UNCHANGED <<requests, answers, device>> /\ created \subseteq created'
    BY <1>1 DEF CreatePort, Create, vars
  <2> QED BY <1>0, <2>1, QueuesStay
<1>2. ASSUME NEW c \in Calls, OpenPort(c) PROVE QueueTypes'
  <2>1. PICK o \in created, m \in Names : Send(c, "open", o, m)
    BY <1>0, <1>2 DEF OpenPort, Open, ObjectTypes
  <2>2. o \in Objects /\ UNCHANGED <<created, answers, device>>
    BY <1>0, <1>2 DEF OpenPort, ObjectTypes
  <2> QED BY <1>0, <2>1, <2>2, SendsTyped
<1>3. ASSUME NEW c \in Calls, ManagerOpen(c) PROVE QueueTypes'
  <2>1. PICK o \in Objects, m \in Names : Send(c, "open", o, m) /\ created' = created \cup {o}
    BY <1>3 DEF ManagerOpen, Open, Create
  <2>2. UNCHANGED <<answers, device>>
    BY <1>3 DEF ManagerOpen
  <2> QED BY <1>0, <2>1, <2>2, SendsTyped
<1>4. ASSUME NEW c \in Calls, ClosePort(c) \/ ManagerClose(c) \/ ManagerCloseAll(c) \/
             Dispose(c) \/ ReadUntilFails(c) \/ ControllerCloses(c)
      PROVE  QueueTypes'
  <2>1. UNCHANGED <<requests, answers, device>> /\ created \subseteq created'
    BY <1>4 DEF ClosePort, ManagerClose, ManagerCloseAll, Dispose, ReadUntilFails, ControllerCloses, vars
  <2> QED BY <1>0, <2>1, QueuesStay
<1>5. ASSUME NEW c \in Calls, Io(c) PROVE QueueTypes'
  <2>1. PICK o \in created : isOpen[o] /\ config[o] # None /\ Send(c, "io", o, config[o])
    BY <1>0, <1>5 DEF Io, ObjectTypes
  <2>2. o \in Objects /\ config[o] \in Names /\ UNCHANGED <<created, answers, device>>
    BY <1>0, <1>5, <2>1 DEF Io, ObjectTypes
  <2> QED BY <1>0, <2>1, <2>2, SendsTyped
<1>6. ASSUME NEW c \in Calls, ReadUntil(c) PROVE QueueTypes'
  <2>1. PICK o \in created : isOpen[o] /\ config[o] # None /\ Send(c, "io", o, config[o])
    BY <1>0, <1>6 DEF ReadUntil, ObjectTypes
  <2>2. o \in Objects /\ config[o] \in Names /\ UNCHANGED <<created, answers, device>>
    BY <1>0, <1>6, <2>1 DEF ReadUntil, ObjectTypes
  <2> QED BY <1>0, <2>1, <2>2, SendsTyped
<1>7. CASE PlatformAnswers
  <2>1. requests # <<>> /\ UNCHANGED created
    BY <1>7 DEF PlatformAnswers
  <2>2. PICK ok \in BOOLEAN : Answers(requests[1], ok)
    BY <1>0, <1>7, PlatformStep
  <2>3. answers' \in Seq(Answer)
    BY <1>0, <2>1, <2>2, AnswersTyped DEF QueueTypes
  <2>4. device' \in [Names -> created \cup {None}]
    BY <1>0, <2>1, <2>2, FirstRequest DEF Answers, QueueTypes
  <2>5. requests' \in Seq(Request) /\ \A i \in DOMAIN requests' : requests'[i].port \in created
    BY <1>0, <2>1, <2>2, FirstRequest DEF Answers, QueueTypes
  <2> QED BY <2>1, <2>3, <2>4, <2>5 DEF QueueTypes
<1>8. CASE LateAnswerDropped
  <2>1. UNCHANGED <<requests, device, created>> /\ answers # <<>> /\ answers' = Tail(answers)
    BY <1>8 DEF LateAnswerDropped
  <2> QED BY <1>0, <2>1, QueuesStay
<1>9. ASSUME NEW c \in Calls, OpenReturns(c) \/ CloseReturns(c) \/ IoReturns(c) \/
             ReadUntilReturns(c)
      PROVE  QueueTypes'
  <2>1. UNCHANGED <<requests, device, created>> /\ answers # <<>> /\ answers' = Tail(answers)
    BY <1>9 DEF OpenReturns, CloseReturns, IoReturns, ReadUntilReturns, Delivers
  <2> QED BY <1>0, <2>1, QueuesStay
<1>10. ASSUME NEW c \in Calls, CancelReturns(c) PROVE QueueTypes'
  <2>1. /\ Send(c, "close", call[c].port, call[c].name)
        /\ UNCHANGED <<created, answers, device>>
        /\ call[c].at \notin Disposing \cup {"idle"}
    BY <1>10 DEF CancelReturns, Disposing
  <2> QED BY <1>0, <2>1, CallFields, SendsTyped
<1>11. ASSUME NEW c \in Calls, IoTimesOut(c) PROVE QueueTypes'
  <2>1. UNCHANGED <<created, device>>
    BY <1>11 DEF IoTimesOut
  <2>2. \A i \in DOMAIN requests : requests[i] \in Request /\ requests'[i].port = requests[i].port
    BY <1>0, <1>11, GivesUp, AbandonFields DEF QueueTypes
  <2> QED BY <1>0, <1>11, <2>1, <2>2, GivesUp DEF QueueTypes
<1>12. ASSUME NEW c \in Calls, ReadUntilContinues(c) PROVE QueueTypes'
  <2>1. /\ Send(c, "io", call[c].port, config[call[c].port]) /\ UNCHANGED <<created, answers, device>>
        /\ call[c].at # "idle" /\ config[call[c].port] # None
    BY <1>12 DEF ReadUntilContinues
  <2>2. call[c].port \in created /\ call[c].port \in Objects /\ config[call[c].port] \in Names
    BY <1>0, <2>1, CallFields DEF ObjectTypes
  <2> QED BY <1>0, <2>1, <2>2, SendsTyped
<1>13. CASE UNCHANGED vars
  BY <1>0, <1>13, QueuesStay DEF vars
<1> QED
  BY <1>1, <1>2, <1>3, <1>4, <1>5, <1>6, <1>7, <1>8, <1>9, <1>10, <1>11, <1>12, <1>13
  DEF Next, Runtime, Resume, Application

(* The types hold before the first call.                                   *)
LEMMA InitTypes == Init => TypeInv
<1> SUFFICES ASSUME Init PROVE TypeInv
  OBVIOUS
<1>1. ObjectTypes /\ QueueTypes
  BY DEF Init, ObjectTypes, QueueTypes
<1>2. CallTypes
  BY IdleTypes, BoundAssumption DEF Init, CallTypes, CallShape
<1> QED BY <1>1, <1>2, TypeParts

(* A step keeps the types.                                                 *)
LEMMA TypeInvStep == TypeInv /\ [Next]_vars => TypeInv'
<1> SUFFICES ASSUME TypeInv, [Next]_vars PROVE TypeInv'
  OBVIOUS
<1>1. ObjectTypes' /\ CallTypes' /\ QueueTypes'
  BY ObjectTypesStep, CallTypesStep, QueueTypesStep
<1> QED BY <1>1 DEF TypeInv, TypeOK, ObjectTypes, CallTypes, QueueTypes

(* Types, in any case: also when the calls of an object overlap, a port    *)
(* that says it is open has a configuration.                               *)
THEOREM TypeCorrect == Spec => []TypeOK
<1>1. TypeInv => TypeOK
  BY DEF TypeInv
<1> QED BY <1>1, InitTypes, TypeInvStep, PTL DEF Spec

-----------------------------------------------------------------------------
(* An object has one call of its lifecycle at a time.                      *)
Fresh(c, r) ==
    /\ \A o \in Objects : (r.at \in Lifecycle /\ r.port = o) \/ o \in r.rest => Owns(c, o) \/ ~Busy(o)
    /\ r.at \in Lifecycle => r.port \notin r.rest

(* One call moves on, to objects it has or nobody has: owners stay.        *)
LEMMA OwnersAfter ==
    ASSUME CallTypes, OwnerShape, NEW c \in Calls, NEW r, call' = [call EXCEPT ![c] = r], Fresh(c, r)
    PROVE  OwnerShape'
<1>1. call'[c] = r /\ \A d \in Calls : d # c => call'[d] = call[d]
  BY DEF CallTypes
<1>2. \A d \in Calls, o \in Objects : d # c => (Owns(d, o)' <=> Owns(d, o))
  BY <1>1 DEF Owns, Waits
<1>3. \A o \in Objects : Owns(c, o)' => Owns(c, o) \/ ~Busy(o)
  BY <1>1 DEF Owns, Waits, Fresh
<1>4. \A d \in Calls, o \in Objects : Owns(d, o) => Busy(o)
  BY DEF Owns, Waits, Busy
<1>5. ASSUME NEW d \in Calls, NEW e \in Calls, NEW o \in Objects, Owns(d, o)', Owns(e, o)' PROVE d = e
  BY <1>2, <1>3, <1>4, <1>5 DEF OwnerShape
<1>6. ASSUME NEW d \in Calls, call'[d].at \in Lifecycle PROVE call'[d].port \notin call'[d].rest
  <2>1. CASE d = c
    BY <1>1, <1>6, <2>1 DEF Fresh
  <2>2. CASE d # c
    BY <1>1, <1>6, <2>2 DEF OwnerShape
  <2> QED BY <2>1, <2>2
<1> QED BY <1>5, <1>6 DEF OwnerShape

(* Closing a free object, or one's own, takes it from nobody.              *)
LEMMA CloseIsFresh ==
    ASSUME NEW c \in Calls, NEW o \in Objects, NEW next, NEW rest, Close(c, o, next, rest),
           o \notin rest, \A x \in Objects : x = o \/ x \in rest => Owns(c, x) \/ ~Busy(x)
    PROVE  \E r : call' = [call EXCEPT ![c] = r] /\ Fresh(c, r)
<1> DEFINE r == At("cancel", o, config[o], next, rest)
<1>1. call' = [call EXCEPT ![c] = r] /\ r.port = o /\ r.rest = rest
  BY RecordFields DEF Close, Await
<1> HIDE DEF r
<1>2. Fresh(c, r)
  BY <1>1 DEF Fresh
<1> QED BY <1>1, <1>2

(* A call that returns takes nothing.                                      *)
LEMMA IdleIsFresh ==
    ASSUME NEW c \in Calls, Await(c, Idle)
    PROVE  \E r : call' = [call EXCEPT ![c] = r] /\ Fresh(c, r)
  BY IdleTypes DEF Await, Fresh, Lifecycle

(* A call that closes stream controllers is in no object's lifecycle.      *)
LEMMA ControllersMove ==
    ASSUME NEW c, NEW o, CloseControllers(c, o)
    PROVE  \E r : call' = [call EXCEPT ![c] = r] /\ r.at \notin Lifecycle /\ r.rest = {}
<1> DEFINE r == At("closeData", o, None, "return", {})
<1>1. call' = [call EXCEPT ![c] = r] /\ r.at = "closeData" /\ r.rest = {}
  BY RecordFields DEF CloseControllers, Await
<1> HIDE DEF r
<1> QED BY <1>1 DEF Lifecycle

(* ... nor when it goes on to the next controller.                         *)
LEMMA DisposeMoves ==
    ASSUME ObjectTypes, CallTypes, NEW c \in Calls, ControllerCloses(c)
    PROVE  /\ call[c].at \notin Lifecycle
           /\ \E r : call' = [call EXCEPT ![c] = r] /\ r.at \notin Lifecycle /\ r.rest \subseteq call[c].rest
<1>1. call[c].at \in Disposing
  BY DEF ControllerCloses
<1>2. CASE Await(c, Idle)
  BY <1>1, <1>2, IdleTypes DEF Await, Lifecycle, Disposing
<1>3. ASSUME NEW next \in Disposing, call' = [call EXCEPT ![c] = [call[c] EXCEPT !.at = next]]
      PROVE  \E r : call' = [call EXCEPT ![c] = r] /\ r.at \notin Lifecycle /\ r.rest \subseteq call[c].rest
  <2> DEFINE r == [call[c] EXCEPT !.at = next]
  <2>1. r.at = next /\ r.rest = call[c].rest /\ call' = [call EXCEPT ![c] = r]
    BY <1>3, CallFields DEF CallRecord
  <2> HIDE DEF r
  <2> QED BY <2>1 DEF Lifecycle, Disposing
<1> QED BY <1>1, <1>2, <1>3 DEF ControllerCloses, Lifecycle, Disposing

(* closeAll's step to its next port takes it from nobody.                  *)
LEMMA CloseNextIsFresh ==
    ASSUME NEW c \in Calls, NEW ports \in SUBSET Objects, CloseNext(c, ports),
           \A x \in ports : Owns(c, x) \/ ~Busy(x)
    PROVE  \E r : call' = [call EXCEPT ![c] = r] /\ Fresh(c, r)
<1>1. ASSUME NEW o \in ports, NEW passed, Close(c, o, "closeNext", ports \ (passed \cup {o}))
      PROVE  \E r : call' = [call EXCEPT ![c] = r] /\ Fresh(c, r)
  BY <1>1, CloseIsFresh
<1>2. CASE Await(c, Idle)
  BY <1>2, IdleIsFresh
<1> QED BY <1>1, <1>2 DEF CloseNext

(* An object that does not exist has no call.                              *)
LEMMA NewIsFree ==
    ASSUME ObjectTypes, CallTypes, NEW o \in Objects \ created
    PROVE  ~Busy(o)
  BY CallFields DEF Busy, Lifecycle

(* A step keeps each object with one lifecycle call at a time.             *)
LEMMA OwnerShapeStep == TypeInv /\ Sequential /\ ~Overlap /\ [Next]_vars => OwnerShape'
<1> SUFFICES ASSUME TypeInv, Sequential, ~Overlap, [Next]_vars PROVE OwnerShape'
  OBVIOUS
<1>0. ObjectTypes /\ CallTypes /\ OwnerShape
  BY TypeParts DEF Sequential
<1>u. ASSUME UNCHANGED call PROVE OwnerShape'
  BY <1>0, <1>u DEF OwnerShape, Owns, Waits
<1>1. CASE CreatePort
  BY <1>u, <1>1 DEF CreatePort
<1>2. ASSUME NEW c \in Calls, OpenPort(c) PROVE OwnerShape'
  <2>1. PICK o \in created, m \in Names : ~Busy(o) /\ call' = [call EXCEPT ![c] = At("open", o, m, "return", {})]
    BY <1>0, <1>2 DEF OpenPort, Open, Await, MayManage, ObjectTypes
  <2> DEFINE r == At("open", o, m, "return", {})
  <2>2. Fresh(c, r)
    BY <2>1, RecordFields DEF Fresh
  <2> HIDE DEF r
  <2> QED BY <1>0, <2>1, <2>2, OwnersAfter DEF r
<1>3. ASSUME NEW c \in Calls, ManagerOpen(c) PROVE OwnerShape'
  <2>1. PICK o \in Objects \ created, m \in Names : call' = [call EXCEPT ![c] = At("open", o, m, "track", {})]
    BY <1>3 DEF ManagerOpen, Open, Await, Create
  <2> DEFINE r == At("open", o, m, "track", {})
  <2>2. Fresh(c, r)
    BY <1>0, <2>1, NewIsFree, RecordFields DEF Fresh
  <2> HIDE DEF r
  <2> QED BY <1>0, <2>1, <2>2, OwnersAfter DEF r
<1>4. ASSUME NEW c \in Calls, ClosePort(c) PROVE OwnerShape'
  <2>1. PICK o \in created : ~Busy(o) /\ Close(c, o, "return", {})
    BY <1>0, <1>4 DEF ClosePort, MayManage, ObjectTypes
  <2>2. \E r : call' = [call EXCEPT ![c] = r] /\ Fresh(c, r)
    BY <1>0, <2>1, CloseIsFresh DEF ObjectTypes
  <2> QED BY <1>0, <2>2, OwnersAfter
<1>5. ASSUME NEW c \in Calls, ManagerClose(c) PROVE OwnerShape'
  <2>1. PICK m \in Names : /\ openPorts[m] # None /\ ~Busy(openPorts[m])
                           /\ Close(c, openPorts[m], "return", {}) \/ UNCHANGED call
    BY <1>5 DEF ManagerClose, MayManage
  <2>2. openPorts[m] \in Objects
    BY <1>0, <2>1 DEF ObjectTypes
  <2>3. CASE Close(c, openPorts[m], "return", {})
    <3>1. \E r : call' = [call EXCEPT ![c] = r] /\ Fresh(c, r)
      BY <2>1, <2>2, <2>3, CloseIsFresh
    <3> QED BY <1>0, <3>1, OwnersAfter
  <2> QED BY <1>u, <2>1, <2>3
<1>6. ASSUME NEW c \in Calls, ManagerCloseAll(c) PROVE OwnerShape'
  <2> DEFINE ports == {openPorts[m] : m \in Names} \ {None}
  <2>1. CloseNext(c, ports) /\ \A o \in ports : ~Busy(o)
    BY <1>6 DEF ManagerCloseAll, MayManage
  <2>2. ports \in SUBSET Objects
    BY <1>0 DEF ObjectTypes
  <2> HIDE DEF ports
  <2>3. \E r : call' = [call EXCEPT ![c] = r] /\ Fresh(c, r)
    BY <2>1, <2>2, CloseNextIsFresh
  <2> QED BY <1>0, <2>3, OwnersAfter
<1>7. ASSUME NEW c \in Calls, Dispose(c) PROVE OwnerShape'
  <2>1. PICK o \in created : ~Busy(o) /\ (Close(c, o, "dispose", {}) \/ CloseControllers(c, o))
    BY <1>0, <1>7 DEF Dispose, MayManage, ObjectTypes
  <2>2. CASE Close(c, o, "dispose", {})
    <3>1. \E r : call' = [call EXCEPT ![c] = r] /\ Fresh(c, r)
      BY <1>0, <2>1, <2>2, CloseIsFresh DEF ObjectTypes
    <3> QED BY <1>0, <3>1, OwnersAfter
  <2>3. CASE CloseControllers(c, o)
    <3>1. \E r : call' = [call EXCEPT ![c] = r] /\ Fresh(c, r)
      BY <2>3, ControllersMove DEF Fresh
    <3> QED BY <1>0, <3>1, OwnersAfter
  <2> QED BY <2>1, <2>2, <2>3
<1>8. ASSUME NEW c \in Calls, Io(c) \/ ReadUntil(c) PROVE OwnerShape'
  <2>1. \E w, o, m :
           w \in {"io", "readUntil"} /\ call' = [call EXCEPT ![c] = At(w, o, m, "return", {})]
    BY <1>8 DEF Io, ReadUntil, Await
  <2>2. PICK r : call' = [call EXCEPT ![c] = r] /\ r.at \in {"io", "readUntil"} /\ r.rest = {}
    <3>1. PICK w, o, m :
             w \in {"io", "readUntil"} /\ call' = [call EXCEPT ![c] = At(w, o, m, "return", {})]
      BY <2>1
    <3> DEFINE q == At(w, o, m, "return", {})
    <3>2. call' = [call EXCEPT ![c] = q] /\ q.at = w /\ q.rest = {}
      BY <3>1, RecordFields
    <3> HIDE DEF q
    <3> QED BY <3>1, <3>2
  <2>3. Fresh(c, r)
    BY <2>2 DEF Fresh, Lifecycle
  <2> QED BY <1>0, <2>2, <2>3, OwnersAfter
<1>9. CASE PlatformAnswers \/ LateAnswerDropped
  BY <1>u, <1>9 DEF PlatformAnswers, LateAnswerDropped
<1>10. ASSUME NEW c \in Calls, OpenReturns(c) \/ IoReturns(c) \/ IoTimesOut(c) \/
             ReadUntilFails(c)
      PROVE  OwnerShape'
  <2>1. Await(c, Idle)
    BY <1>10 DEF OpenReturns, IoReturns, IoTimesOut, ReadUntilFails
  <2>2. \E r : call' = [call EXCEPT ![c] = r] /\ Fresh(c, r)
    BY <2>1, IdleIsFresh
  <2> QED BY <1>0, <2>2, OwnersAfter
<1>11. ASSUME NEW c \in Calls, CancelReturns(c) PROVE OwnerShape'
  <2> DEFINE r == [call[c] EXCEPT !.at = "close"]
  <2>1. call' = [call EXCEPT ![c] = r] /\ call[c].at = "cancel"
    BY <1>11 DEF CancelReturns
  <2>2. r.at = "close" /\ r.port = call[c].port /\ r.rest = call[c].rest
    BY <1>0, CallFields DEF CallRecord
  <2>3. Fresh(c, r)
    BY <1>0, <2>1, <2>2 DEF Fresh, Owns, Waits, Lifecycle, OwnerShape
  <2> HIDE DEF r
  <2> QED BY <1>0, <2>1, <2>3, OwnersAfter
<1>12. ASSUME NEW c \in Calls, CloseReturns(c) PROVE OwnerShape'
  <2>1. CloseNext(c, call[c].rest) \/ Await(c, Idle) \/ CloseControllers(c, call[c].port)
    BY <1>12 DEF CloseReturns
  <2>2. call[c].rest \in SUBSET Objects /\ \A x \in call[c].rest : Owns(c, x)
    BY <1>0, CallFields DEF Owns
  <2>3. \E r : call' = [call EXCEPT ![c] = r] /\ Fresh(c, r)
    BY <2>1, <2>2, IdleIsFresh, CloseNextIsFresh, ControllersMove DEF Fresh
  <2> QED BY <1>0, <2>3, OwnersAfter
<1>13. ASSUME NEW c \in Calls, ReadUntilReturns(c) \/ ReadUntilContinues(c) PROVE OwnerShape'
  <2>1. CASE Await(c, Idle)
    <3>1. \E r : call' = [call EXCEPT ![c] = r] /\ Fresh(c, r)
      BY <2>1, IdleIsFresh
    <3> QED BY <1>0, <3>1, OwnersAfter
  <2>2. ASSUME NEW r, call' = [call EXCEPT ![c] = r], r.at \in {"delay", "readUntil"}, r.rest = call[c].rest
        PROVE  OwnerShape'
    <3>1. Fresh(c, r)
      BY <2>2 DEF Fresh, Owns, Lifecycle
    <3> QED BY <1>0, <2>2, <3>1, OwnersAfter
  <2>3. CASE call' = [call EXCEPT ![c] = [call[c] EXCEPT !.at = "delay"]]
    <3> DEFINE r == [call[c] EXCEPT !.at = "delay"]
    <3>1. call' = [call EXCEPT ![c] = r] /\ r.at = "delay" /\ r.rest = call[c].rest
      BY <1>0, <2>3, CallFields DEF CallRecord
    <3> HIDE DEF r
    <3> QED BY <2>2, <3>1
  <2>4. CASE call' = [call EXCEPT ![c] = [call[c] EXCEPT !.at = "readUntil", !.name = config[call[c].port]]]
    <3> DEFINE r == [call[c] EXCEPT !.at = "readUntil", !.name = config[call[c].port]]
    <3>1. call' = [call EXCEPT ![c] = r] /\ r.at = "readUntil" /\ r.rest = call[c].rest
      BY <1>0, <2>4, CallFields DEF CallRecord
    <3> HIDE DEF r
    <3> QED BY <2>2, <3>1
  <2> QED BY <1>13, <2>1, <2>3, <2>4 DEF ReadUntilReturns, ReadUntilContinues
<1>14. ASSUME NEW c \in Calls, ControllerCloses(c) PROVE OwnerShape'
  <2>1. \E r : call' = [call EXCEPT ![c] = r] /\ Fresh(c, r)
    BY <1>0, <1>14, DisposeMoves DEF Fresh, Owns
  <2> QED BY <1>0, <2>1, OwnersAfter
<1>15. CASE UNCHANGED vars
  BY <1>u, <1>15 DEF vars
<1> QED
  BY <1>1, <1>2, <1>3, <1>4, <1>5, <1>6, <1>7, <1>8, <1>9, <1>10, <1>11, <1>12, <1>13,
     <1>14, <1>15
  DEF Next, Runtime, Resume, Application

-----------------------------------------------------------------------------
(* What isOpen and the listeners say of an object.                         *)
Quiet(o) == \A c \in Calls : ~Waits(c, o)

(* A free object is waited for and owned by nobody.                        *)
LEMMA FreeIsQuiet ==
    ASSUME NEW o \in Objects
    PROVE  ~Busy(o) => Quiet(o) /\ \A c \in Calls : o \notin call[c].rest
  BY DEF Busy, Quiet, Waits

(* An object closeAll has yet to close is waited for by nobody.            *)
LEMMA NextIsQuiet ==
    ASSUME OwnerShape, NEW c \in Calls, NEW o \in Objects, o \in call[c].rest
    PROVE  (Quiet(o) /\ o # call[c].port) \/ call[c].at \notin Lifecycle
  BY DEF OwnerShape, Owns, Waits, Quiet

(* Two calls in the lifecycle of one object are the same.                  *)
LEMMA WaitsAlone ==
    ASSUME OwnerShape, NEW c \in Calls, NEW d \in Calls, NEW o \in Objects, Waits(c, o), Waits(d, o)
    PROVE  c = d
  BY DEF OwnerShape, Owns

(* What is said of an object at rest, and of the object of a call.         *)
RestShape(o) ==
    /\ ~isOpen[o] => config[o] = None
    /\ o \in disposed => ~isOpen[o]
    /\ Quiet(o) => OpenedFor(o) = (IF isOpen[o] THEN {config[o]} ELSE {}) /\ ListensTo(o) = OpenedFor(o)

WorkShape(c, o) ==
    Waits(c, o) =>
        /\ ListensTo(o) = {}
        /\ call[c].at = "open" => ~isOpen[o] /\ o \notin disposed
        /\ call[c].at \in {"cancel", "close"} => isOpen[o] /\ config[o] = call[c].name
        /\ call[c].at = "cancel" => OpenedFor(o) = {call[c].name}

(* The shape of the objects, one object at a time.                         *)
LEMMA ObjectParts ==
    ASSUME ObjectShape, NEW o \in Objects
    PROVE  RestShape(o) /\ \A c \in Calls : WorkShape(c, o)
<1>1. RestShape(o)
  BY DEF ObjectShape, RestShape, Quiet
<1>2. ASSUME NEW c \in Calls, Waits(c, o) PROVE WorkShape(c, o)
  <2>1. call[c].port = o /\ call[c].at \in Lifecycle
    BY <1>2 DEF Waits
  <2>2. ListensTo(call[c].port) = ListensTo(o) /\ OpenedFor(call[c].port) = OpenedFor(o)
    BY <2>1
  <2> QED BY <2>1, <2>2 DEF ObjectShape, WorkShape
<1> QED BY <1>1, <1>2 DEF WorkShape

(* The shape of all the objects, from each of them.                        *)
LEMMA ObjectWhole ==
    ASSUME (ObjectTypes /\ CallTypes)', \A o \in Objects : RestShape(o)' /\ \A c \in Calls : WorkShape(c, o)'
    PROVE  ObjectShape'
<1>1. ASSUME NEW c \in Calls, (call[c].at \in Lifecycle)'
      PROVE  (LET o == call[c].port
              IN  /\ ListensTo(o) = {}
                  /\ call[c].at = "open" => ~isOpen[o] /\ o \notin disposed
                  /\ call[c].at \in {"cancel", "close"} => isOpen[o] /\ config[o] = call[c].name
                  /\ call[c].at = "cancel" => OpenedFor(o) = {call[c].name})'
  <2>1. PICK x \in Objects : x = call'[c].port
    BY <1>1 DEF Lifecycle, ObjectTypes, CallTypes, CallShape
  <2>2. WorkShape(c, x)' /\ Waits(c, x)'
    BY <1>1, <2>1 DEF Waits
  <2>3. ListensTo(call[c].port)' = ListensTo(x)' /\ OpenedFor(call[c].port)' = OpenedFor(x)'
    BY <2>1 DEF ListensTo, OpenedFor
  <2> QED BY <2>1, <2>2, <2>3 DEF WorkShape
<1>2. \A c \in Calls : call'[c].at \in {"open", "cancel", "close"} => call'[c].at \in Lifecycle
  BY DEF Lifecycle
<1> QED BY <1>1, <1>2 DEF ObjectShape, RestShape, Quiet

(* A step of one call disturbs no other object than those in S.            *)
LEMMA ObjectStep ==
    ASSUME TypeInv, TypeInv', ObjectShape, NEW c \in Calls, NEW S \in SUBSET Objects,
           \A d \in Calls : d # c => call'[d] = call[d],
           \A x \in Objects \ S :
              /\ config'[x] = config[x] /\ isOpen'[x] = isOpen[x] /\ (x \in disposed' <=> x \in disposed)
              /\ OpenedFor(x)' = OpenedFor(x) /\ ListensTo(x)' = ListensTo(x)
              /\ ~Waits(c, x) /\ ~Waits(c, x)',
           \A x \in S :
              /\ \A d \in Calls : d # c => ~Waits(d, x)
              /\ RestShape(x)' /\ WorkShape(c, x)'
    PROVE  ObjectShape'
<1>1. \A d \in Calls, x \in Objects : d # c => (Waits(d, x)' <=> Waits(d, x))
  BY DEF Waits
<1>2. ASSUME NEW x \in Objects \ S PROVE RestShape(x)' /\ \A d \in Calls : WorkShape(d, x)'
  <2>1. RestShape(x) /\ \A d \in Calls : WorkShape(d, x)
    BY ObjectParts
  <2>2. Quiet(x)' <=> Quiet(x)
    BY <1>1 DEF Quiet
  <2>3. RestShape(x)'
    BY <2>1, <2>2 DEF RestShape
  <2>4. ASSUME NEW d \in Calls, Waits(d, x)' PROVE WorkShape(d, x)'
    <3>1. d # c /\ Waits(d, x) /\ call'[d] = call[d]
      BY <1>1, <2>4
    <3> QED BY <2>1, <3>1 DEF WorkShape
  <2> QED BY <2>3, <2>4 DEF WorkShape
<1>3. ASSUME NEW x \in S PROVE RestShape(x)' /\ \A d \in Calls : WorkShape(d, x)'
  <2>1. \A d \in Calls : d # c => ~Waits(d, x)'
    BY <1>1
  <2> QED BY <2>1 DEF WorkShape
<1>4. ObjectTypes' /\ CallTypes'
  BY DEF TypeInv, TypeOK, ObjectTypes, CallTypes
<1>5. \A x \in Objects : RestShape(x)' /\ \A d \in Calls : WorkShape(d, x)'
  BY <1>2, <1>3
<1> QED BY <1>4, <1>5, ObjectWhole

(* The calls after one of them moves to a record.                          *)
LEMMA OthersStay ==
    ASSUME TypeInv, NEW c \in Calls, NEW r, call' = [call EXCEPT ![c] = r]
    PROVE  call'[c] = r /\ \A d \in Calls : d # c => call'[d] = call[d]
  BY DEF TypeInv, TypeOK

(* No call enters, leaves or goes on with the lifecycle of an object.      *)
LEMMA ObjectsStay ==
    ASSUME TypeInv, TypeInv', ObjectShape, UNCHANGED <<config, isOpen, listening, disposed, device>>,
           NEW c \in Calls, \A d \in Calls : d # c => call'[d] = call[d],
           call[c].at \notin Lifecycle, call'[c].at \notin Lifecycle
    PROVE  ObjectShape'
<1>1. \A x \in Objects : /\ OpenedFor(x)' = OpenedFor(x) /\ ListensTo(x)' = ListensTo(x)
                         /\ ~Waits(c, x) /\ ~Waits(c, x)'
  BY DEF OpenedFor, ListensTo, Waits
<1> DEFINE S == {}
<1>2. S \in SUBSET Objects /\ \A x : x \notin S
  OBVIOUS
<1> HIDE DEF S
<1> QED BY <1>1, <1>2, ObjectStep

(* Objects whose state and calls stay keep their shape.                    *)
LEMMA ObjectsRest ==
    ASSUME ObjectShape, UNCHANGED <<config, isOpen, listening, disposed, device, call>>
    PROVE  ObjectShape'
  BY DEF ObjectShape, Waits, OpenedFor, ListensTo

(* A free object is opened.                                                *)
LEMMA ObjectOpens ==
    ASSUME TypeInv, TypeInv', ObjectShape, UNCHANGED <<config, isOpen, listening, disposed, device>>,
           NEW c \in Calls, NEW o \in Objects, NEW r, call' = [call EXCEPT ![c] = r],
           call[c] = Idle, r.at = "open", r.port = o, ~Busy(o), ~isOpen[o], o \notin disposed
    PROVE  ObjectShape'
<1>1. call'[c] = r /\ (\A d \in Calls : d # c => call'[d] = call[d]) /\ Quiet(o)
  BY OthersStay, FreeIsQuiet
<1>2. \A x \in Objects : OpenedFor(x)' = OpenedFor(x) /\ ListensTo(x)' = ListensTo(x)
  BY DEF OpenedFor, ListensTo
<1>3. \A x \in Objects \ {o} : ~Waits(c, x) /\ ~Waits(c, x)'
  BY <1>1, IdleTypes DEF Waits, Lifecycle
<1>4. Waits(c, o)' /\ (\A d \in Calls : ~Waits(d, o))
  BY <1>1 DEF Waits, Lifecycle, Quiet
<1>5. RestShape(o) /\ ListensTo(o)' = {}
  BY <1>1, <1>2, ObjectParts DEF RestShape
<1>6. RestShape(o)' /\ WorkShape(c, o)'
  BY <1>1, <1>4, <1>5 DEF RestShape, WorkShape, Quiet
<1> DEFINE S == {o}
<1>7. S \in SUBSET Objects /\ \A x : x \in S <=> x = o
  OBVIOUS
<1> HIDE DEF S
<1> QED BY <1>1, <1>2, <1>3, <1>4, <1>6, <1>7, ObjectStep

(* An object at rest starts to be closed: its listener is gone.            *)
LEMMA ObjectCloses ==
    ASSUME TypeInv, TypeInv', ObjectShape, UNCHANGED <<config, isOpen, disposed, device>>,
           NEW c \in Calls, NEW o \in Objects, NEW next, NEW rest, Close(c, o, next, rest),
           call[c] = Idle, ~Busy(o)
    PROVE  ObjectShape'
<1> DEFINE r == At("cancel", o, config[o], next, rest)
<1>1. /\ isOpen[o] /\ listening' = listening \ {<<o, config[o]>>}
      /\ call' = [call EXCEPT ![c] = r] /\ r.at = "cancel" /\ r.port = o /\ r.name = config[o]
  BY RecordFields DEF Close, Await
<1> HIDE DEF r
<1>2. call'[c] = r /\ (\A d \in Calls : d # c => call'[d] = call[d]) /\ Quiet(o)
  BY <1>1, OthersStay, FreeIsQuiet
<1>3. \A x \in Objects : /\ OpenedFor(x)' = OpenedFor(x)
                         /\ x # o => ListensTo(x)' = ListensTo(x)
  BY <1>1 DEF OpenedFor, ListensTo
<1>4. RestShape(o) /\ OpenedFor(o) = {config[o]} /\ ListensTo(o) = {config[o]}
  BY <1>1, <1>2, ObjectParts DEF RestShape
<1>5. ListensTo(o)' = {}
  BY <1>1, <1>4 DEF ListensTo
<1>6. \A x \in Objects \ {o} : ~Waits(c, x) /\ ~Waits(c, x)'
  BY <1>1, <1>2, IdleTypes DEF Waits, Lifecycle
<1>7. Waits(c, o)' /\ (\A d \in Calls : ~Waits(d, o))
  BY <1>1, <1>2 DEF Waits, Lifecycle, Quiet
<1>8. RestShape(o)' /\ WorkShape(c, o)'
  BY <1>1, <1>2, <1>3, <1>4, <1>5, <1>7 DEF RestShape, WorkShape, Quiet
<1> DEFINE S == {o}
<1>9. S \in SUBSET Objects /\ \A x : x \in S <=> x = o
  OBVIOUS
<1> HIDE DEF S
<1> QED BY <1>2, <1>3, <1>6, <1>7, <1>8, <1>9, ObjectStep

(* A port that is not open is disposed of.                                 *)
LEMMA ObjectDisposed ==
    ASSUME TypeInv, TypeInv', ObjectShape, UNCHANGED <<config, isOpen, listening, device>>,
           NEW c \in Calls, call[c] = Idle, NEW o \in Objects, ~isOpen[o], CloseControllers(c, o), ~Busy(o)
    PROVE  ObjectShape'
<1>0. /\ disposed' = disposed \cup {o} /\ call[c].at \notin Lifecycle /\ call'[c].at \notin Lifecycle
      /\ \A d \in Calls : d # c => call'[d] = call[d]
  BY OthersStay, ControllersMove, IdleTypes DEF CloseControllers, Lifecycle
<1>w. \A d \in Calls, x \in Objects :
         (Waits(d, x)' <=> Waits(d, x)) /\ (Waits(d, x) => call'[d] = call[d])
  BY <1>0 DEF Waits
<1>1. \A x \in Objects : /\ OpenedFor(x)' = OpenedFor(x) /\ ListensTo(x)' = ListensTo(x)
                         /\ Quiet(x)' <=> Quiet(x)
  BY <1>w DEF OpenedFor, ListensTo, Quiet
<1>2. Quiet(o)
  BY FreeIsQuiet
<1>3. ASSUME NEW x \in Objects PROVE RestShape(x)' /\ \A d \in Calls : WorkShape(d, x)'
  <2>1. RestShape(x) /\ \A d \in Calls : WorkShape(d, x)
    BY ObjectParts
  <2>2. RestShape(x)'
    BY <1>0, <1>1, <2>1 DEF RestShape
  <2>3. ASSUME NEW d \in Calls PROVE WorkShape(d, x)'
    BY <1>0, <1>w, <1>1, <1>2, <2>1 DEF WorkShape, Quiet
  <2> QED BY <2>2, <2>3
<1>4. ObjectTypes' /\ CallTypes'
  BY DEF TypeInv, TypeOK, ObjectTypes, CallTypes
<1> QED BY <1>3, <1>4, ObjectWhole

(* The cancelled listener: the platform has the port open until it is told *)
(* to close it.                                                            *)
LEMMA ObjectCancelled ==
    ASSUME TypeInv, TypeInv', ObjectShape, OwnerShape, NEW c \in Calls, CancelReturns(c)
    PROVE  ObjectShape'
<1>1. /\ call[c].at = "cancel" /\ call' = [call EXCEPT ![c].at = "close"]
      /\ UNCHANGED <<config, isOpen, listening, disposed, device>>
  BY DEF CancelReturns, portVars
<1>2. PICK o \in Objects : o = call[c].port
  BY <1>1, TypeParts, CallFields
<1>3. /\ call'[c].at = "close" /\ call'[c].port = o /\ call'[c].name = call[c].name
      /\ \A d \in Calls : d # c => call'[d] = call[d]
  BY <1>1, <1>2 DEF TypeInv, TypeOK, CallRecord
<1>4. \A x \in Objects : OpenedFor(x)' = OpenedFor(x) /\ ListensTo(x)' = ListensTo(x)
  BY <1>1 DEF OpenedFor, ListensTo
<1>5. Waits(c, o) /\ Waits(c, o)' /\ \A x \in Objects \ {o} : ~Waits(c, x) /\ ~Waits(c, x)'
  BY <1>1, <1>2, <1>3 DEF Waits, Lifecycle
<1>6. \A d \in Calls : d # c => ~Waits(d, o)
  BY <1>5, WaitsAlone
<1>7. RestShape(o) /\ WorkShape(c, o)
  BY ObjectParts
<1>8. RestShape(o)' /\ WorkShape(c, o)'
  BY <1>1, <1>3, <1>4, <1>5, <1>7 DEF RestShape, WorkShape, Quiet
<1> DEFINE S == {o}
<1>9. S \in SUBSET Objects /\ \A x : x \in S <=> x = o
  OBVIOUS
<1> HIDE DEF S
<1> QED BY <1>1, <1>3, <1>4, <1>5, <1>6, <1>8, <1>9, ObjectStep

(* What the platform did when its answer to an open or a close arrives.    *)
LEMMA AnswerArrives ==
    ASSUME TypeInv, AnswerShape, NEW c \in Calls, NEW where \in {"open", "close"}, Delivers(c, where)
    PROVE  /\ call[c].port \in Objects /\ call[c].name \in Names /\ Head(answers).ok \in BOOLEAN
           /\ OpenedFor(call[c].port) =
                 IF where = "open" /\ Head(answers).ok THEN {call[c].name} ELSE {}
<1>1. ObjectTypes /\ CallTypes /\ QueueTypes /\ call[c].at = where /\ answers # <<>>
  BY TypeParts DEF Delivers
<1>2. Head(answers) = answers[1] /\ answers[1] \in Answer /\ 1 \in DOMAIN answers
  BY <1>1, FirstAnswer
<1> DEFINE r == answers[1].request
<1>3. r \in Request /\ answers[1].ok \in BOOLEAN /\ r.call = c
  BY <1>2 DEF Answer, Delivers
<1>4. /\ WaitsFor(r)
      /\ r.kind = "open" => OpenedFor(r.port) = IF answers[1].ok THEN {r.name} ELSE {}
      /\ r.kind = "close" => OpenedFor(r.port) = {}
  BY <1>2 DEF AnswerShape
<1> HIDE DEF r
<1>5. r.kind = where /\ call[c].port = r.port /\ call[c].name = r.name
  <2>1. r.kind \in {"open", "close", "io"}
    BY <1>3 DEF Request
  <2> QED BY <1>1, <1>3, <1>4, <2>1, NoneAssumption DEF WaitsFor
<1>6. call[c].port \in Objects /\ call[c].name \in Names
  BY <1>1, CallFields DEF Disposing
<1> QED BY <1>2, <1>3, <1>4, <1>5, <1>6

(* Opened, or not.                                                         *)
LEMMA ObjectOpened ==
    ASSUME TypeInv, TypeInv', ObjectShape, OwnerShape, AnswerShape, NEW c \in Calls, OpenReturns(c)
    PROVE  ObjectShape'
<1>1. PICK o \in Objects, n \in Names : o = call[c].port /\ n = call[c].name
  BY AnswerArrives DEF OpenReturns
<1>2. /\ OpenedFor(o) = IF Head(answers).ok THEN {n} ELSE {}
      /\ Waits(c, o) /\ call[c].at = "open"
  BY <1>1, AnswerArrives DEF OpenReturns, Delivers, Waits, Lifecycle
<1>3. /\ call'[c] = Idle /\ UNCHANGED <<disposed, device>>
      /\ \A d \in Calls : d # c => call'[d] = call[d]
  BY OthersStay DEF OpenReturns, Await
<1>4. \A x \in Objects \ {o} : /\ config'[x] = config[x] /\ isOpen'[x] = isOpen[x]
                               /\ ListensTo(x)' = ListensTo(x)
  BY <1>1 DEF OpenReturns, TypeInv, TypeOK, ListensTo
<1>5. \A x \in Objects : OpenedFor(x)' = OpenedFor(x) /\ ~Waits(c, x)'
  BY <1>3, IdleTypes DEF OpenedFor, Waits, Lifecycle
<1>6. \A x \in Objects \ {o} : ~Waits(c, x)
  BY <1>1 DEF Waits
<1>7. \A d \in Calls : d # c => ~Waits(d, o)
  BY <1>2, WaitsAlone
<1>8. ListensTo(o) = {} /\ o \notin disposed /\ ~isOpen[o] /\ config[o] = None
  BY <1>2, ObjectParts DEF WorkShape, RestShape
<1>9. RestShape(o)'
  <2>1. CASE Head(answers).ok
    <3>1. config'[o] = n /\ isOpen'[o] = TRUE /\ listening' = listening \cup {<<o, n>>}
      BY <1>1, <2>1 DEF OpenReturns, TypeInv, TypeOK
    <3>2. ListensTo(o)' = {n}
      BY <1>8, <3>1 DEF ListensTo
    <3> QED BY <1>2, <1>3, <1>5, <1>8, <2>1, <3>1, <3>2 DEF RestShape
  <2>2. CASE ~Head(answers).ok
    <3>1. config'[o] = None /\ isOpen'[o] = FALSE /\ listening' = listening
      BY <1>1, <1>8, <2>2 DEF OpenReturns, TypeInv, TypeOK
    <3>2. ListensTo(o)' = {}
      BY <1>8, <3>1 DEF ListensTo
    <3> QED BY <1>2, <1>3, <1>5, <1>8, <2>2, <3>1, <3>2 DEF RestShape
  <2> QED BY <2>1, <2>2
<1>10. WorkShape(c, o)'
  BY <1>5 DEF WorkShape
<1> DEFINE S == {o}
<1>11. S \in SUBSET Objects /\ \A x : x \in S <=> x = o
  OBVIOUS
<1> HIDE DEF S
<1> QED BY <1>3, <1>4, <1>5, <1>6, <1>7, <1>9, <1>10, <1>11, ObjectStep

(* Closed, whatever the platform answered; closeAll goes on with the next. *)
LEMMA ObjectClosed ==
    ASSUME TypeInv, TypeInv', ObjectShape, OwnerShape, AnswerShape, NEW c \in Calls, CloseReturns(c)
    PROVE  ObjectShape'
<1>1. PICK o \in Objects, n \in Names : o = call[c].port /\ n = call[c].name
  BY AnswerArrives DEF CloseReturns
<1>2. OpenedFor(o) = {} /\ Waits(c, o) /\ call[c].at = "close"
  BY <1>1, AnswerArrives DEF CloseReturns, Delivers, Waits, Lifecycle
<1>3. /\ config'[o] = None /\ isOpen'[o] = FALSE /\ UNCHANGED device
      /\ \A x \in Objects \ {o} : /\ config'[x] = config[x] /\ isOpen'[x] = isOpen[x]
                                  /\ x \in disposed' <=> x \in disposed
  <2>1. /\ config' = [config EXCEPT ![o] = None]
        /\ isOpen' = [isOpen EXCEPT ![o] = FALSE]
        /\ UNCHANGED device
    BY <1>1 DEF CloseReturns, CloseControllers
  <2>2. UNCHANGED disposed \/ disposed' = disposed \cup {o}
    BY <1>1 DEF CloseReturns, CloseControllers
  <2>3. config \in [Objects -> Names \cup {None}] /\ isOpen \in [Objects -> BOOLEAN]
    BY DEF TypeInv, TypeOK
  <2> QED BY <2>1, <2>2, <2>3
<1>4. \A x \in Objects : OpenedFor(x)' = OpenedFor(x)
  BY <1>3 DEF OpenedFor
<1>5. \A d \in Calls : d # c => ~Waits(d, o)
  BY <1>2, WaitsAlone
<1>6. ListensTo(o) = {} /\ \A x \in Objects \ {o} : ~Waits(c, x)
  BY <1>1, <1>2, ObjectParts DEF WorkShape, Waits
<1>7. ASSUME NEW r, call' = [call EXCEPT ![c] = r], r.at \notin Lifecycle, UNCHANGED listening
      PROVE  ObjectShape'
  <2>1. call'[c] = r /\ \A d \in Calls : d # c => call'[d] = call[d]
    BY <1>7, OthersStay
  <2>2. \A x \in Objects : ListensTo(x)' = ListensTo(x) /\ ~Waits(c, x)'
    BY <1>7, <2>1 DEF ListensTo, Waits
  <2>3. RestShape(o)' /\ WorkShape(c, o)'
    BY <1>2, <1>3, <1>4, <1>6, <2>2 DEF RestShape, WorkShape
  <2> DEFINE S == {o}
  <2>4. S \in SUBSET Objects /\ \A x : x \in S <=> x = o
    OBVIOUS
  <2> HIDE DEF S
  <2> QED BY <1>3, <1>4, <1>5, <1>6, <2>1, <2>2, <2>3, <2>4, ObjectStep
<1>8. ASSUME NEW p \in call[c].rest, NEW rest, Close(c, p, "closeNext", rest)
      PROVE  ObjectShape'
  <2> DEFINE r == At("cancel", p, config[p], "closeNext", rest)
  <2>1. /\ isOpen[p] /\ listening' = listening \ {<<p, config[p]>>}
        /\ call' = [call EXCEPT ![c] = r] /\ r.at = "cancel" /\ r.port = p /\ r.name = config[p]
    BY <1>8, RecordFields DEF Close, Await
  <2> HIDE DEF r
  <2>2. call'[c] = r /\ \A d \in Calls : d # c => call'[d] = call[d]
    BY <2>1, OthersStay
  <2>3. p \in Objects /\ p # o /\ Quiet(p)
    <3>1. p \in Objects
      BY TypeParts, CallFields
    <3>2. call[c].at \in Lifecycle
      BY <1>2 DEF Waits
    <3> QED BY <1>1, <3>1, <3>2, NextIsQuiet
  <2>4. \A x \in Objects : x # p => ListensTo(x)' = ListensTo(x)
    BY <2>1 DEF ListensTo
  <2>5. RestShape(p) /\ OpenedFor(p) = {config[p]} /\ ListensTo(p) = {config[p]}
    BY <2>1, <2>3, ObjectParts DEF RestShape
  <2>6. ListensTo(p)' = {}
    BY <2>1, <2>5 DEF ListensTo
  <2>7. Waits(c, p)' /\ \A x \in Objects \ {o, p} : ~Waits(c, x) /\ ~Waits(c, x)'
    BY <1>6, <2>1, <2>2 DEF Waits, Lifecycle
  <2>8. ~Waits(c, o)' /\ \A d \in Calls : ~Waits(d, p)
    BY <2>1, <2>2, <2>3 DEF Waits, Quiet
  <2>9. RestShape(o)' /\ WorkShape(c, o)'
    BY <1>2, <1>3, <1>4, <1>6, <2>3, <2>4, <2>8 DEF RestShape, WorkShape
  <2>10. RestShape(p)' /\ WorkShape(c, p)'
    BY <1>3, <1>4, <2>1, <2>2, <2>3, <2>5, <2>6, <2>7 DEF RestShape, WorkShape, Quiet
  <2> DEFINE S == {o, p}
  <2>11. S \in SUBSET Objects /\ \A x : x \in S <=> x = o \/ x = p
    BY <2>3
  <2> HIDE DEF S
  <2> QED BY <1>3, <1>4, <1>5, <2>2, <2>4, <2>7, <2>8, <2>9, <2>10, <2>11, ObjectStep
<1>9. \/ Await(c, Idle) /\ UNCHANGED listening
      \/ CloseNext(c, call[c].rest)
      \/ CloseControllers(c, o) /\ UNCHANGED listening
  BY <1>1 DEF CloseReturns
<1>10. CASE Await(c, Idle) /\ UNCHANGED listening
  BY <1>7, <1>10, IdleTypes DEF Await, Lifecycle
<1>11. CASE CloseControllers(c, o) /\ UNCHANGED listening
  BY <1>7, <1>11, ControllersMove
<1> QED BY <1>8, <1>9, <1>10, <1>11 DEF CloseNext

(* The platform opens or closes the port of the first request.             *)
LEMMA DeviceStep ==
    ASSUME TypeInv, RequestShape, requests # <<>>, NEW r \in Request, r = requests[1],
           NEW ok \in BOOLEAN, Answers(r, ok)
    PROVE  /\ r.kind = "io" => device' = device
           /\ \A x \in Objects : x # r.port => OpenedFor(x)' = OpenedFor(x)
           /\ r.kind = "open" => OpenedFor(r.port)' = IF ok THEN {r.name} ELSE {}
           /\ r.kind = "close" => ok /\ OpenedFor(r.port)' = {}
<1>1. ObjectTypes /\ QueueTypes
  BY TypeParts
<1>3. /\ r.name \in Names /\ r.port \in Objects /\ r.kind \in {"open", "close", "io"}
      /\ device \in [Names -> Objects \cup {None}] /\ None \notin Objects
      /\ 1 \in DOMAIN requests
  BY <1>1, FirstRequest, NoneAssumption DEF Request, QueueTypes, ObjectTypes
<1>4. /\ r.kind = "open" => OpenedFor(r.port) = {}
      /\ r.kind = "close" => OpenedFor(r.port) = {r.name}
  BY <1>3 DEF RequestShape
<1>5. /\ ok => ok = Succeeds(r)
      /\ r.kind # "open" => ok = Succeeds(r)
      /\ device' = IF ~ok \/ r.kind = "io" THEN device
                   ELSE [device EXCEPT ![r.name] = IF r.kind = "open" THEN r.port ELSE None]
  BY DEF Answers
<1>6. CASE r.kind = "io"
  BY <1>5, <1>6 DEF OpenedFor
<1>7. CASE r.kind = "open" /\ ok
  <2>1. device' = [device EXCEPT ![r.name] = r.port] /\ device[r.name] = None
    BY <1>5, <1>7 DEF Succeeds
  <2>2. \A x \in Objects : x # r.port => OpenedFor(x)' = OpenedFor(x)
    BY <1>3, <2>1 DEF OpenedFor
  <2>3. OpenedFor(r.port)' = {r.name}
    <3>1. \A m \in Names : device[m] # r.port
      BY <1>4, <1>7 DEF OpenedFor
    <3> QED BY <1>3, <2>1, <3>1 DEF OpenedFor
  <2> QED BY <1>7, <2>2, <2>3
<1>8. CASE r.kind = "open" /\ ~ok
  BY <1>4, <1>5, <1>8 DEF OpenedFor
<1>9. CASE r.kind = "close"
  <2>1. device[r.name] = r.port /\ \A m \in Names : device[m] = r.port => m = r.name
    BY <1>3, <1>4, <1>9 DEF OpenedFor
  <2>2. ok /\ device' = [device EXCEPT ![r.name] = None]
    BY <1>3, <1>5, <1>9, <2>1 DEF Succeeds
  <2>3. \A x \in Objects : x # r.port => OpenedFor(x)' = OpenedFor(x)
    BY <1>3, <2>1, <2>2 DEF OpenedFor
  <2>4. OpenedFor(r.port)' = {}
    BY <1>3, <2>1, <2>2 DEF OpenedFor
  <2> QED BY <1>9, <2>2, <2>3, <2>4
<1> QED BY <1>3, <1>6, <1>7, <1>8, <1>9

(* The platform's answer keeps the shape of the objects.                   *)
LEMMA ObjectAnswered ==
    ASSUME TypeInv, TypeInv', ObjectShape, OwnerShape, RequestShape, PlatformAnswers
    PROVE  ObjectShape'
<1>1. requests # <<>> /\ UNCHANGED <<config, isOpen, listening, disposed, call>>
  BY DEF PlatformAnswers, portVars
<1>2. PICK r \in Request : r = requests[1] /\ r.port \in Objects
  BY <1>1, TypeParts, FirstRequest DEF Request
<1>3. PICK ok \in BOOLEAN : Answers(r, ok)
  BY <1>2, TypeParts, PlatformStep
<1>4. /\ r.kind = "io" => device' = device
      /\ \A x \in Objects : x # r.port => OpenedFor(x)' = OpenedFor(x)
  BY <1>1, <1>2, <1>3, DeviceStep
<1>5. CASE r.kind = "io"
  BY <1>1, <1>4, <1>5, ObjectsRest
<1>6. CASE r.kind # "io"
  <2>1. 1 \in DOMAIN requests
    BY <1>1, TypeParts, FirstRequest
  <2>2. r.call \in Calls /\ call[r.call].at = r.kind /\ call[r.call].port = r.port
    BY <1>2, <1>6, <2>1 DEF RequestShape, WaitsFor, Request
  <2>3. PICK c \in Calls, o \in Objects : c = r.call /\ o = r.port
    BY <1>2, <2>2
  <2>4. r.kind \in {"open", "close"}
    BY <1>6 DEF Request
  <2>5. Waits(c, o) /\ call[c].at \in {"open", "close"}
    BY <2>2, <2>3, <2>4 DEF Waits, Lifecycle
  <2>6. \A d \in Calls, x \in Objects : Waits(d, x)' <=> Waits(d, x)
    BY <1>1 DEF Waits
  <2>7. \A d \in Calls : d # c => ~Waits(d, o)
    BY <2>5, WaitsAlone
  <2>8. \A x \in Objects \ {o} : ~Waits(c, x)
    BY <2>2, <2>3 DEF Waits
  <2>9. \A x \in Objects : ListensTo(x)' = ListensTo(x)
    BY <1>1 DEF ListensTo
  <2>10. RestShape(o) /\ WorkShape(c, o)
    BY ObjectParts
  <2>11. RestShape(o)' /\ WorkShape(c, o)'
    BY <1>1, <2>5, <2>6, <2>9, <2>10 DEF RestShape, WorkShape, Quiet
  <2> DEFINE S == {o}
  <2>12. S \in SUBSET Objects /\ \A x : x \in S <=> x = o
    OBVIOUS
  <2> HIDE DEF S
  <2>13. /\ \A d \in Calls : d # c => call'[d] = call[d]
         /\ \A x \in Objects \ S :
               /\ config'[x] = config[x] /\ isOpen'[x] = isOpen[x] /\ (x \in disposed' <=> x \in disposed)
               /\ OpenedFor(x)' = OpenedFor(x) /\ ListensTo(x)' = ListensTo(x)
               /\ ~Waits(c, x) /\ ~Waits(c, x)'
    BY <1>1, <1>4, <2>3, <2>6, <2>8, <2>9, <2>12
  <2>14. \A x \in S : /\ \A d \in Calls : d # c => ~Waits(d, x)
                      /\ RestShape(x)' /\ WorkShape(c, x)'
    BY <2>7, <2>11, <2>12
  <2> QED BY <2>12, <2>13, <2>14, ObjectStep
<1> QED BY <1>5, <1>6

(* A step keeps the shape of the objects.                                  *)
LEMMA ObjectShapeStep == TypeInv /\ Sequential /\ ~Overlap /\ [Next]_vars => ObjectShape'
<1> SUFFICES ASSUME TypeInv, Sequential, ~Overlap, [Next]_vars PROVE ObjectShape'
  OBVIOUS
<1>0. /\ ObjectTypes /\ CallTypes /\ QueueTypes /\ TypeInv' /\ ~Overlap
      /\ ObjectShape /\ OwnerShape /\ RequestShape /\ AnswerShape
  BY TypeParts, TypeInvStep DEF Sequential
<1>1. CASE CreatePort
  BY <1>0, <1>1, ObjectsRest DEF CreatePort, portVars
<1>2. ASSUME NEW c \in Calls, OpenPort(c) PROVE ObjectShape'
  <2>1. PICK o \in created \ disposed, m \in Names :
           ~Busy(o) /\ ~isOpen[o] /\ call' = [call EXCEPT ![c] = At("open", o, m, "return", {})]
    BY <1>0, <1>2 DEF OpenPort, Open, Await, MayManage, ObjectTypes
  <2> DEFINE r == At("open", o, m, "return", {})
  <2>2. r.at = "open" /\ r.port = o /\ call' = [call EXCEPT ![c] = r]
    BY <2>1, RecordFields
  <2> HIDE DEF r
  <2>3. call[c] = Idle /\ o \in Objects /\ UNCHANGED <<config, isOpen, listening, disposed, device>>
    BY <1>0, <1>2 DEF OpenPort, Start, portVars, ObjectTypes
  <2> QED BY <1>0, <2>1, <2>2, <2>3, ObjectOpens
<1>3. ASSUME NEW c \in Calls, ManagerOpen(c) PROVE ObjectShape'
  <2>1. PICK o \in Objects \ created, m \in Names : call' = [call EXCEPT ![c] = At("open", o, m, "track", {})]
    BY <1>3 DEF ManagerOpen, Open, Await, Create
  <2> DEFINE r == At("open", o, m, "track", {})
  <2>2. r.at = "open" /\ r.port = o /\ call' = [call EXCEPT ![c] = r]
    BY <2>1, RecordFields
  <2> HIDE DEF r
  <2>3. call[c] = Idle /\ UNCHANGED <<config, isOpen, listening, disposed, device>>
    BY <1>3 DEF ManagerOpen, Start, portVars
  <2>4. ~Busy(o) /\ o \notin disposed
    BY <1>0, NewIsFree DEF ObjectTypes
  <2>5. ~isOpen[o]
    <3>1. RestShape(o) /\ Quiet(o)
      BY <1>0, <2>4, ObjectParts, FreeIsQuiet
    <3>2. OpenedFor(o) = {}
      BY <1>0, NoneAssumption DEF OpenedFor, QueueTypes
    <3> QED BY <3>1, <3>2 DEF RestShape
  <2> QED BY <1>0, <2>1, <2>2, <2>3, <2>4, <2>5, ObjectOpens
<1>4. ASSUME NEW c \in Calls, ClosePort(c) PROVE ObjectShape'
  <2>1. PICK o \in created : ~Busy(o) /\ Close(c, o, "return", {})
    BY <1>0, <1>4 DEF ClosePort, MayManage, ObjectTypes
  <2>2. call[c] = Idle /\ o \in Objects /\ UNCHANGED <<config, isOpen, disposed, device>>
    BY <1>0, <1>4 DEF ClosePort, Start, ObjectTypes
  <2> QED BY <1>0, <2>1, <2>2, ObjectCloses
<1>5. ASSUME NEW c \in Calls, ManagerClose(c) PROVE ObjectShape'
  <2>1. PICK m \in Names : /\ openPorts[m] # None /\ ~Busy(openPorts[m])
                           /\ Close(c, openPorts[m], "return", {}) \/ UNCHANGED <<call, listening>>
    BY <1>0, <1>5 DEF ManagerClose, MayManage
  <2>2. openPorts[m] \in Objects /\ call[c] = Idle /\ UNCHANGED <<config, isOpen, disposed, device>>
    BY <1>0, <1>5, <2>1 DEF ManagerClose, Start, ObjectTypes
  <2>3. CASE Close(c, openPorts[m], "return", {})
    BY <1>0, <2>1, <2>2, <2>3, ObjectCloses
  <2> QED BY <1>0, <2>1, <2>2, <2>3, ObjectsRest
<1>6. ASSUME NEW c \in Calls, ManagerCloseAll(c) PROVE ObjectShape'
  <2> DEFINE ports == {openPorts[m] : m \in Names} \ {None}
  <2>1. CloseNext(c, ports) /\ \A o \in ports : ~Busy(o)
    BY <1>0, <1>6 DEF ManagerCloseAll, MayManage
  <2>2. ports \in SUBSET Objects
    BY <1>0 DEF ObjectTypes
  <2> HIDE DEF ports
  <2>3. call[c] = Idle /\ UNCHANGED <<config, isOpen, disposed, device>>
    BY <1>6 DEF ManagerCloseAll, Start
  <2>4. ASSUME NEW o \in ports, NEW rest, Close(c, o, "closeNext", rest) PROVE ObjectShape'
    BY <1>0, <2>1, <2>2, <2>3, <2>4, ObjectCloses
  <2>5. CASE Await(c, Idle) /\ UNCHANGED listening
    <3>1. UNCHANGED call
      BY <1>0, <2>3, <2>5 DEF Await, CallTypes
    <3> QED BY <1>0, <2>3, <2>5, <3>1, ObjectsRest
  <2> QED BY <2>1, <2>4, <2>5 DEF CloseNext
<1>7. ASSUME NEW c \in Calls, Dispose(c) PROVE ObjectShape'
  <2>1. PICK o \in created :
           /\ ~Busy(o)
           /\ \/ Close(c, o, "dispose", {}) /\ UNCHANGED disposed
              \/ ~isOpen[o] /\ CloseControllers(c, o) /\ UNCHANGED listening
    BY <1>0, <1>7 DEF Dispose, MayManage, ObjectTypes
  <2>2. call[c] = Idle /\ o \in Objects /\ UNCHANGED <<config, isOpen, device>>
    BY <1>0, <1>7 DEF Dispose, Start, ObjectTypes
  <2>3. CASE Close(c, o, "dispose", {}) /\ UNCHANGED disposed
    BY <1>0, <2>1, <2>2, <2>3, ObjectCloses
  <2>4. CASE ~isOpen[o] /\ CloseControllers(c, o) /\ UNCHANGED listening
    BY <1>0, <2>1, <2>2, <2>4, ObjectDisposed
  <2> QED BY <2>1, <2>3, <2>4
<1>8. ASSUME NEW c \in Calls, Io(c) \/ ReadUntil(c) PROVE ObjectShape'
  <2>1. PICK w, o, m :
           w \in {"io", "readUntil"} /\ call' = [call EXCEPT ![c] = At(w, o, m, "return", {})]
    BY <1>8 DEF Io, ReadUntil, Await
  <2> DEFINE r == At(w, o, m, "return", {})
  <2>2. r.at = w /\ call' = [call EXCEPT ![c] = r]
    BY <2>1, RecordFields
  <2> HIDE DEF r
  <2>3. call[c].at \notin Lifecycle /\ UNCHANGED <<config, isOpen, listening, disposed, device>>
    BY <1>8, IdleTypes DEF Io, ReadUntil, Start, portVars, Lifecycle
  <2>4. call'[c].at \notin Lifecycle /\ \A d \in Calls : d # c => call'[d] = call[d]
    BY <1>0, <2>1, <2>2, OthersStay DEF Lifecycle
  <2> QED BY <1>0, <2>3, <2>4, ObjectsStay
<1>9. CASE PlatformAnswers
  BY <1>0, <1>9, ObjectAnswered
<1>10. CASE LateAnswerDropped
  BY <1>0, <1>10, ObjectsRest DEF LateAnswerDropped, portVars
<1>11. ASSUME NEW c \in Calls, OpenReturns(c) PROVE ObjectShape'
  BY <1>0, <1>11, ObjectOpened
<1>12. ASSUME NEW c \in Calls, CancelReturns(c) PROVE ObjectShape'
  BY <1>0, <1>12, ObjectCancelled
<1>13. ASSUME NEW c \in Calls, CloseReturns(c) PROVE ObjectShape'
  BY <1>0, <1>13, ObjectClosed
<1>14. ASSUME NEW c \in Calls, IoReturns(c) \/ IoTimesOut(c) \/ ReadUntilFails(c) PROVE ObjectShape'
  <2>1. /\ call[c].at \in {"io", "delay"} /\ call' = [call EXCEPT ![c] = Idle]
        /\ UNCHANGED <<config, isOpen, listening, disposed, device>>
    BY <1>14 DEF IoReturns, IoTimesOut, ReadUntilFails, Delivers, Await, portVars
  <2>2. call'[c].at \notin Lifecycle /\ \A d \in Calls : d # c => call'[d] = call[d]
    BY <1>0, <2>1, OthersStay, IdleTypes DEF Lifecycle
  <2>3. call[c].at \notin Lifecycle
    BY <2>1 DEF Lifecycle
  <2> QED BY <1>0, <2>1, <2>2, <2>3, ObjectsStay
<1>15. ASSUME NEW c \in Calls, ReadUntilReturns(c) \/ ReadUntilContinues(c) PROVE ObjectShape'
  <2>1. call[c].at \notin Lifecycle /\ UNCHANGED <<config, isOpen, listening, disposed, device>>
    BY <1>15 DEF ReadUntilReturns, ReadUntilContinues, Delivers, portVars, Lifecycle
  <2>2. \E r : call' = [call EXCEPT ![c] = r] /\ r.at \notin Lifecycle
    <3>1. CASE Await(c, Idle)
      BY <3>1, IdleTypes DEF Await, Lifecycle
    <3>2. CASE call' = [call EXCEPT ![c] = [call[c] EXCEPT !.at = "delay"]]
      <4> DEFINE r == [call[c] EXCEPT !.at = "delay"]
      <4>1. r.at = "delay" /\ call' = [call EXCEPT ![c] = r]
        BY <1>0, <3>2, CallFields DEF CallRecord
      <4> HIDE DEF r
      <4> QED BY <4>1 DEF Lifecycle
    <3>3. CASE call' = [call EXCEPT ![c] = [call[c] EXCEPT !.at = "readUntil", !.name = config[call[c].port]]]
      <4> DEFINE r == [call[c] EXCEPT !.at = "readUntil", !.name = config[call[c].port]]
      <4>1. r.at = "readUntil" /\ call' = [call EXCEPT ![c] = r]
        BY <1>0, <3>3, CallFields DEF CallRecord
      <4> HIDE DEF r
      <4> QED BY <4>1 DEF Lifecycle
    <3> QED BY <1>15, <3>1, <3>2, <3>3 DEF ReadUntilReturns, ReadUntilContinues
  <2>3. call'[c].at \notin Lifecycle /\ \A d \in Calls : d # c => call'[d] = call[d]
    BY <1>0, <2>2, OthersStay
  <2> QED BY <1>0, <2>1, <2>3, ObjectsStay
<1>16. ASSUME NEW c \in Calls, ControllerCloses(c) PROVE ObjectShape'
  <2>1. UNCHANGED <<config, isOpen, listening, disposed, device>>
    BY <1>16 DEF ControllerCloses, portVars
  <2>2. call[c].at \notin Lifecycle /\ \E r : call' = [call EXCEPT ![c] = r] /\ r.at \notin Lifecycle
    BY <1>0, <1>16, DisposeMoves
  <2>3. call'[c].at \notin Lifecycle /\ \A d \in Calls : d # c => call'[d] = call[d]
    BY <1>0, <2>2, OthersStay
  <2> QED BY <1>0, <2>1, <2>2, <2>3, ObjectsStay
<1>17. CASE UNCHANGED vars
  BY <1>0, <1>17, ObjectsRest DEF vars
<1> QED
  BY <1>1, <1>2, <1>3, <1>4, <1>5, <1>6, <1>7, <1>8, <1>9, <1>10, <1>11, <1>12, <1>13,
     <1>14, <1>15, <1>16, <1>17
  DEF Next, Runtime, Resume, Application

-----------------------------------------------------------------------------
(* The queues: what is said of the requests and the answers in them.       *)
QueueShape == RequestShape /\ AnswerShape /\ OneRequest /\ OrderShape /\ ServedByOwnOpening

(* A call has neither a request nor an answer in the queues.               *)
Silent(c) ==
    /\ \A i \in DOMAIN requests : requests[i].call # c
    /\ \A i \in DOMAIN answers : answers[i].request.call # c

(* The fields of the requests and the answers.                             *)
LEMMA QueueFields ==
    ASSUME TypeInv
    PROVE  /\ \A i \in DOMAIN requests :
                /\ requests[i] \in Request /\ requests[i].call \in Calls \cup {None}
                /\ requests[i].kind \in {"open", "close", "io"} /\ requests[i].port \in Objects
                /\ requests[i].name \in Names
           /\ \A i \in DOMAIN answers :
                /\ answers[i].request \in Request /\ answers[i].request.call \in Calls \cup {None}
                /\ answers[i].request.kind \in {"open", "close", "io"}
<1>1. requests \in Seq(Request) /\ answers \in Seq(Answer)
  BY DEF TypeInv, TypeOK
<1>2. \A i \in DOMAIN requests : requests[i] \in Request
  BY <1>1
<1>3. \A i \in DOMAIN answers : answers[i].request \in Request
  <2>1. \A i \in DOMAIN answers : answers[i] \in Answer
    BY <1>1
  <2> QED BY <2>1 DEF Answer
<1> QED BY <1>2, <1>3 DEF Request

(* A call that is not at a platform call has nothing in the queues.        *)
LEMMA NothingPending ==
    ASSUME TypeInv, RequestShape, AnswerShape, NEW c \in Calls,
           call[c].at \in {"idle", "cancel", "delay"} \cup Disposing
    PROVE  Silent(c)
<1>1. \A r \in Request : WaitsFor(r) => r.call # c
  BY NoneAssumption DEF WaitsFor, Request, Disposing
<1> QED BY <1>1, QueueFields DEF Silent, RequestShape, AnswerShape

(* A request goes on waiting while its call does not move.                 *)
LEMMA KeepsWaiting ==
    ASSUME NEW c, \A d \in Calls : d # c => call'[d] = call[d], NEW r \in Request,
           r.call # c \/ r.call = None, WaitsFor(r)
    PROVE  WaitsFor(r)'
<1>1. r.call = None \/ (r.call \in Calls /\ r.call # c)
  BY DEF Request
<1> QED BY <1>1 DEF WaitsFor

(* A device that stays is open for the same objects.                       *)
LEMMA OpenedStays ==
    ASSUME UNCHANGED device, NEW o
    PROVE  OpenedFor(o)' = OpenedFor(o)
  BY DEF OpenedFor

(* The queues stay, and the call that moves is not in them.                *)
LEMMA QueueStays ==
    ASSUME TypeInv, TypeInv', QueueShape, UNCHANGED <<requests, answers, device>>,
           NEW c, \A d \in Calls : d # c => call'[d] = call[d], Silent(c) \/ UNCHANGED call
    PROVE  QueueShape'
<1>1. \A r \in Request : WaitsFor(r) /\ (r.call # c \/ UNCHANGED call) => WaitsFor(r)'
  BY KeepsWaiting DEF WaitsFor
<1>2. \A i \in DOMAIN requests : WaitsFor(requests[i]) => WaitsFor(requests[i])'
  <2>1. ASSUME NEW i \in DOMAIN requests, WaitsFor(requests[i]) PROVE WaitsFor(requests[i])'
    <3>1. PICK r \in Request : r = requests[i]
      BY QueueFields
    <3>2. WaitsFor(r)'
      BY <1>1, <2>1, <3>1 DEF Silent
    <3> QED BY <3>1, <3>2
  <2> QED BY <2>1
<1>3. \A i \in DOMAIN answers : WaitsFor(answers[i].request) => WaitsFor(answers[i].request)'
  <2>1. ASSUME NEW i \in DOMAIN answers, WaitsFor(answers[i].request) PROVE WaitsFor(answers[i].request)'
    <3>1. PICK r \in Request : r = answers[i].request
      BY QueueFields
    <3>2. WaitsFor(r)'
      BY <1>1, <2>1, <3>1 DEF Silent
    <3> QED BY <3>1, <3>2
  <2> QED BY <2>1
<1>4. \A o : OpenedFor(o)' = OpenedFor(o)
  BY OpenedStays
<1>5. RequestShape'
  BY <1>2 DEF RequestShape, QueueShape, OpenedFor, TypeInv
<1>6. AnswerShape'
  BY <1>3 DEF AnswerShape, QueueShape, OpenedFor
<1>7. OneRequest' /\ OrderShape' /\ ServedByOwnOpening'
  BY DEF OneRequest, OrderShape, ServedByOwnOpening, QueueShape
<1> QED BY <1>5, <1>6, <1>7 DEF QueueShape

(* What is said of one request, and of one answer.                         *)
RequestOk(r) ==
    /\ WaitsFor(r) /\ r.port \in created
    /\ r.kind = "open" => OpenedFor(r.port) = {}
    /\ r.kind = "close" => OpenedFor(r.port) = {r.name}

AnswerOk(a) ==
    /\ WaitsFor(a.request)
    /\ a.request.kind = "open" => OpenedFor(a.request.port) = IF a.ok THEN {a.request.name} ELSE {}
    /\ a.request.kind = "close" => a.ok /\ OpenedFor(a.request.port) = {}

(* A request or answer of another call stays as it should be.              *)
LEMMA EntryStays ==
    ASSUME NEW c, \A d \in Calls : d # c => call'[d] = call[d], UNCHANGED device, created \subseteq created'
    PROVE  /\ \A r \in Request : (r.call # c \/ r.call = None) /\ RequestOk(r) => RequestOk(r)'
           /\ \A a \in Answer : (a.request.call # c \/ a.request.call = None) /\ AnswerOk(a) => AnswerOk(a)'
<1>1. \A r \in Request : (r.call # c \/ r.call = None) /\ WaitsFor(r) => WaitsFor(r)'
  BY KeepsWaiting
<1>2. \A o : OpenedFor(o)' = OpenedFor(o)
  BY OpenedStays
<1>3. \A a \in Answer : a.request \in Request
  BY DEF Answer
<1>4. \A r \in Request : (r.call # c \/ r.call = None) /\ RequestOk(r) => RequestOk(r)'
  BY <1>1, <1>2 DEF RequestOk
<1>5. \A a \in Answer : (a.request.call # c \/ a.request.call = None) /\ AnswerOk(a) => AnswerOk(a)'
  BY <1>1, <1>2, <1>3 DEF AnswerOk
<1> QED BY <1>4, <1>5

(* The call that moves sends a request.                                    *)
LEMMA QueueGrows ==
    ASSUME TypeInv, QueueShape, NEW c \in Calls, \A d \in Calls : d # c => call'[d] = call[d], Silent(c),
           created \subseteq created', UNCHANGED <<answers, device>>,
           NEW r \in Request, requests' = Append(requests, r), r.call = c, RequestOk(r)',
           r.kind = "io" /\ r.settled =>
              /\ device[r.name] = r.port
              /\ \A j \in DOMAIN requests : ~(requests[j].kind = "close" /\ requests[j].port = r.port)
    PROVE  QueueShape'
<1> DEFINE n == Len(requests)
<1>1. /\ n \in Nat /\ DOMAIN requests = 1 .. n /\ DOMAIN requests' = 1 .. n + 1
      /\ \A i \in DOMAIN requests : requests'[i] = requests[i]
      /\ requests'[n + 1] = r
  BY DEF TypeInv, TypeOK
<1> HIDE DEF n
<1>2. /\ \A i \in DOMAIN requests : requests[i] \in Request /\ requests[i].call # c
      /\ \A i \in DOMAIN answers : answers[i] \in Answer /\ answers[i].request.call # c
  <2>1. \A i \in DOMAIN answers : answers[i] \in Answer
    BY DEF TypeInv, TypeOK
  <2> QED BY <2>1, QueueFields DEF Silent
<1>3. RequestShape'
  <2>1. ASSUME NEW i \in 1 .. n + 1 PROVE \A x : x = requests'[i] => RequestOk(x)'
    <3>1. CASE i = n + 1
      BY <1>1, <3>1
    <3>2. CASE i # n + 1
      <4>1. i \in DOMAIN requests /\ requests'[i] = requests[i]
        BY <1>1, <3>2
      <4>2. PICK x \in Request : x = requests[i] /\ x.call # c /\ RequestOk(x)
        BY <1>2, <4>1 DEF QueueShape, RequestShape, RequestOk
      <4>3. RequestOk(x)'
        BY <4>2, EntryStays
      <4> QED BY <4>1, <4>2, <4>3
    <3> QED BY <3>1, <3>2
  <2> QED BY <1>1, <2>1 DEF RequestShape, RequestOk
<1>4. AnswerShape'
  <2>1. ASSUME NEW i \in DOMAIN answers PROVE \A x : x = answers[i] => AnswerOk(x)'
    <3>1. PICK x \in Answer : x = answers[i] /\ x.request.call # c /\ AnswerOk(x)
      BY <1>2 DEF QueueShape, AnswerShape, AnswerOk
    <3>2. AnswerOk(x)'
      BY <3>1, EntryStays
    <3> QED BY <3>1, <3>2
  <2> QED BY <2>1 DEF AnswerShape, AnswerOk
<1>5. OneRequest'
  BY <1>1, <1>2 DEF QueueShape, OneRequest
<1>6. OrderShape'
  BY <1>1 DEF QueueShape, OrderShape
<1>7. ServedByOwnOpening'
  BY DEF QueueShape, ServedByOwnOpening
<1> QED BY <1>3, <1>4, <1>5, <1>6, <1>7 DEF QueueShape

(* The first answer is delivered to the call that moves, or dropped.       *)
LEMMA AnswerTaken ==
    ASSUME TypeInv, QueueShape, NEW c, \A d \in Calls : d # c => call'[d] = call[d],
           created \subseteq created', UNCHANGED <<requests, device>>,
           answers # <<>>, answers' = Tail(answers), answers[1].request.call = c
    PROVE  QueueShape'
<1>1. /\ 1 \in DOMAIN answers /\ DOMAIN answers' = 1 .. Len(answers) - 1 /\ Len(answers) \in Nat
      /\ \A i \in DOMAIN answers' : i + 1 \in DOMAIN answers /\ answers'[i] = answers[i + 1] /\ i + 1 # 1
  <2>1. Len(answers) \in Nat
    BY DEF TypeInv, TypeOK
  <2> QED BY <2>1, TypeParts, FirstAnswer
<1>2. /\ \A i \in DOMAIN requests : requests[i] \in Request
                                    /\ (requests[i].call # c \/ requests[i].call = None)
      /\ \A i \in DOMAIN answers : answers[i] \in Answer
      /\ \A i \in DOMAIN answers :
            i # 1 => answers[i].request.call # c \/ answers[i].request.call = None
  <2>1. \A i \in DOMAIN answers : answers[i] \in Answer
    BY DEF TypeInv, TypeOK
  <2> QED BY <1>1, <2>1, QueueFields DEF QueueShape, OneRequest
<1>3. RequestShape'
  <2>1. ASSUME NEW i \in DOMAIN requests PROVE \A x : x = requests[i] => RequestOk(x)'
    <3>1. PICK x \in Request : x = requests[i] /\ (x.call # c \/ x.call = None) /\ RequestOk(x)
      BY <1>2 DEF QueueShape, RequestShape, RequestOk
    <3>2. RequestOk(x)'
      BY <3>1, EntryStays
    <3> QED BY <3>1, <3>2
  <2> QED BY <2>1 DEF RequestShape, RequestOk
<1>4. AnswerShape'
  <2>1. ASSUME NEW i \in DOMAIN answers' PROVE \A x : x = answers'[i] => AnswerOk(x)'
    <3>1. PICK x \in Answer : /\ x = answers[i + 1] /\ (x.request.call # c \/ x.request.call = None)
                              /\ AnswerOk(x)
      BY <1>1, <1>2 DEF QueueShape, AnswerShape, AnswerOk
    <3>2. AnswerOk(x)'
      BY <3>1, EntryStays
    <3> QED BY <1>1, <3>1, <3>2
  <2> QED BY <2>1 DEF AnswerShape, AnswerOk
<1>5. OneRequest'
  BY <1>1 DEF QueueShape, OneRequest
<1>6. OrderShape' /\ ServedByOwnOpening'
  BY <1>1 DEF QueueShape, OrderShape, ServedByOwnOpening
<1> QED BY <1>3, <1>4, <1>5, <1>6 DEF QueueShape

(* The platform answers the first request.                                 *)
LEMMA RequestAnswered ==
    ASSUME TypeInv, TypeInv', QueueShape, OwnerShape, PlatformAnswers
    PROVE  QueueShape'
<1> DEFINE n == Len(requests)
           k == Len(answers)
<1>1. /\ requests # <<>> /\ UNCHANGED <<created, call>>
      /\ n \in Nat /\ DOMAIN requests = 1 .. n /\ k \in Nat /\ DOMAIN answers = 1 .. k
      /\ RequestShape /\ AnswerShape /\ OneRequest /\ OrderShape
  BY DEF PlatformAnswers, TypeInv, TypeOK, QueueShape
<1>2. PICK r \in Request : r = requests[1] /\ 1 \in DOMAIN requests
  BY <1>1, TypeParts, FirstRequest
<1>3. PICK ok \in BOOLEAN : Answers(r, ok)
  BY <1>2, TypeParts, PlatformStep
<1>4. PICK a \in Answer : /\ answers' = Append(answers, a)
                          /\ a.request = r /\ a.ok = ok /\ a.served = device[r.name]
  BY <1>1, <1>2, <1>3, TypeParts, AnswersTyped
<1>5. /\ DOMAIN requests' = 1 .. n - 1
      /\ \A i \in DOMAIN requests' : i + 1 \in DOMAIN requests /\ requests'[i] = requests[i + 1] /\ i + 1 # 1
  BY <1>1, <1>2, <1>3, TypeParts, FirstRequest DEF Answers
<1>6. /\ DOMAIN answers' = 1 .. k + 1 /\ answers'[k + 1] = a
      /\ \A i \in DOMAIN answers : answers'[i] = answers[i]
  BY <1>1, <1>4 DEF TypeInv, TypeOK
<1> HIDE DEF n, k
<1>7. /\ r.kind = "io" => device' = device
      /\ \A x \in Objects : x # r.port => OpenedFor(x)' = OpenedFor(x)
      /\ r.kind = "open" => OpenedFor(r.port)' = IF ok THEN {r.name} ELSE {}
      /\ r.kind = "close" => ok /\ OpenedFor(r.port)' = {}
  BY <1>1, <1>2, <1>3, DeviceStep
<1>8. RequestOk(r) /\ r.call \in Calls \cup {None} /\ r.port \in Objects /\ r.name \in Names
      /\ r.kind \in {"open", "close", "io"}
  BY <1>1, <1>2, QueueFields DEF RequestShape, RequestOk
<1>9. \A x \in Objects : r.kind = "io" => OpenedFor(x)' = OpenedFor(x)
  BY <1>7, OpenedStays
<1>10. ASSUME NEW q \in Request, WaitsFor(q), q.port \in Objects, q.kind # "io",
              q.call # r.call \/ r.call = None
       PROVE  OpenedFor(q.port)' = OpenedFor(q.port)
  <2>1. CASE r.kind = "io" \/ q.port # r.port
    BY <1>7, <1>9, <1>10, <2>1
  <2>2. CASE r.kind # "io" /\ q.port = r.port
    <3>1. /\ r.call \in Calls /\ call[r.call].at = r.kind /\ call[r.call].port = r.port
          /\ q.call \in Calls /\ call[q.call].at = q.kind /\ call[q.call].port = r.port
      BY <1>8, <1>10, <2>2 DEF RequestOk, WaitsFor, Request
    <3>2. Waits(r.call, r.port) /\ Waits(q.call, r.port)
      BY <1>8, <1>10, <2>2, <3>1 DEF Waits, Lifecycle, Request
    <3> QED BY <1>8, <1>10, <3>1, <3>2, WaitsAlone, NoneAssumption
  <2> QED BY <2>1, <2>2
<1>11. \A q : WaitsFor(q)' <=> WaitsFor(q)
  BY <1>1 DEF WaitsFor
<1>12. RequestShape'
  <2>1. ASSUME NEW i \in DOMAIN requests' PROVE \A x : x = requests'[i] => RequestOk(x)'
    <3>1. PICK q \in Request : /\ q = requests[i + 1] /\ RequestOk(q) /\ q.port \in Objects
                               /\ q.call # r.call \/ r.call = None
      BY <1>1, <1>2, <1>5, QueueFields DEF RequestShape, RequestOk, OneRequest
    <3>2. q.kind # "io" => OpenedFor(q.port)' = OpenedFor(q.port)
      BY <1>10, <3>1 DEF RequestOk
    <3>3. RequestOk(q)'
      BY <1>1, <1>11, <3>1, <3>2 DEF RequestOk
    <3> QED BY <1>5, <3>1, <3>3
  <2> QED BY <2>1 DEF RequestShape, RequestOk
<1>13. AnswerShape'
  <2>1. AnswerOk(a)'
    BY <1>4, <1>7, <1>8, <1>11 DEF AnswerOk, RequestOk
  <2>2. ASSUME NEW i \in DOMAIN answers PROVE \A x : x = answers[i] => AnswerOk(x)'
    <3>1. PICK b \in Answer, q \in Request :
             /\ b = answers[i] /\ q = b.request /\ AnswerOk(b) /\ (q.call # r.call \/ r.call = None)
             /\ q.kind \in {"open", "close", "io"}
      <4>1. answers[i] \in Answer
        BY DEF TypeInv, TypeOK
      <4> QED BY <1>1, <1>2, <4>1, QueueFields DEF AnswerShape, AnswerOk, OneRequest
    <3>2. q.port \in Objects
      BY DEF Request
    <3>3. q.kind # "io" => OpenedFor(q.port)' = OpenedFor(q.port)
      BY <1>10, <3>1, <3>2 DEF AnswerOk
    <3>4. AnswerOk(b)'
      BY <1>11, <3>1, <3>3 DEF AnswerOk
    <3> QED BY <3>1, <3>4
  <2>3. ASSUME NEW i \in DOMAIN answers' PROVE \A x : x = answers'[i] => AnswerOk(x)'
    BY <1>1, <1>6, <2>1, <2>2
  <2> QED BY <2>3 DEF AnswerShape, AnswerOk
<1>14. OneRequest'
  <2>1. ASSUME NEW i \in DOMAIN requests', NEW j \in DOMAIN requests', i # j, requests'[i].call # None
        PROVE  requests'[i].call # requests'[j].call
    BY <1>1, <1>5, <2>1 DEF OneRequest
  <2>2. ASSUME NEW i \in DOMAIN answers, NEW j \in DOMAIN answers, i # j, answers[i].request.call # None
        PROVE  answers[i].request.call # answers[j].request.call
    BY <1>1, <2>2 DEF OneRequest
  <2>3. ASSUME NEW i \in DOMAIN answers
        PROVE  a.request.call # answers[i].request.call \/ a.request.call = None
    BY <1>1, <1>2, <1>4 DEF OneRequest
  <2>4. ASSUME NEW i \in DOMAIN answers', NEW j \in DOMAIN answers', i # j, answers'[i].request.call # None
        PROVE  answers'[i].request.call # answers'[j].request.call
    BY <1>1, <1>6, <2>2, <2>3, <2>4
  <2>5. ASSUME NEW i \in DOMAIN requests', NEW j \in DOMAIN answers', requests'[i].call # None
        PROVE  requests'[i].call # answers'[j].request.call
    <3>1. CASE j = k + 1
      BY <1>1, <1>2, <1>4, <1>5, <1>6, <2>5, <3>1 DEF OneRequest
    <3>2. CASE j # k + 1
      BY <1>1, <1>5, <1>6, <2>5, <3>2 DEF OneRequest
    <3> QED BY <3>1, <3>2
  <2> QED BY <2>1, <2>4, <2>5 DEF OneRequest
<1>15. OrderShape'
  <2>1. ASSUME NEW i \in DOMAIN requests', requests'[i].kind = "io", requests'[i].settled
        PROVE  /\ device'[requests'[i].name] = requests'[i].port
               /\ \A j \in DOMAIN requests' :
                     j < i => ~(requests'[j].kind = "close" /\ requests'[j].port = requests'[i].port)
    <3>1. PICK q \in Request : q = requests[i + 1] /\ requests'[i] = q /\ i + 1 \in DOMAIN requests
                               /\ q.name \in Names /\ q.port \in Objects
      BY <1>5, QueueFields
    <3>2. /\ device[q.name] = q.port
          /\ \A j \in DOMAIN requests :
                j < i + 1 => ~(requests[j].kind = "close" /\ requests[j].port = q.port)
      BY <1>1, <2>1, <3>1 DEF OrderShape
    <3>3. ~(r.kind = "close" /\ r.port = q.port)
      BY <1>1, <1>2, <1>5, <3>1, <3>2
    <3>4. device'[q.name] = q.port
      <4>1. CASE r.port # q.port \/ r.kind = "io"
        <5>1. q.name \in OpenedFor(q.port)
          BY <3>1, <3>2 DEF OpenedFor
        <5>2. OpenedFor(q.port)' = OpenedFor(q.port)
          BY <1>7, <1>9, <3>1, <4>1
        <5>3. q.name \in OpenedFor(q.port)'
          BY <5>1, <5>2
        <5> QED BY <5>3 DEF OpenedFor
      <4>2. CASE r.kind = "open" /\ r.port = q.port
        BY <1>8, <3>1, <3>2, <4>2 DEF RequestOk, OpenedFor
      <4> QED BY <1>8, <3>3, <4>1, <4>2
    <3>5. ASSUME NEW j \in DOMAIN requests', j < i
          PROVE  ~(requests'[j].kind = "close" /\ requests'[j].port = q.port)
      BY <1>1, <1>5, <3>2, <3>5
    <3> QED BY <3>1, <3>4, <3>5
  <2> QED BY <2>1 DEF OrderShape
<1>16. ServedByOwnOpening'
  <2>1. r.kind = "io" /\ r.settled => a.served = r.port
    BY <1>1, <1>2, <1>4 DEF OrderShape
  <2>2. \A i \in DOMAIN answers :
           answers[i].request.kind = "io" /\ answers[i].request.settled /\ answers[i].ok =>
              answers[i].served = answers[i].request.port
    BY DEF QueueShape, ServedByOwnOpening
  <2>3. \A i \in DOMAIN answers' :
           answers'[i].request.kind = "io" /\ answers'[i].request.settled /\ answers'[i].ok =>
              answers'[i].served = answers'[i].request.port
    BY <1>1, <1>4, <1>6, <2>1, <2>2
  <2> QED BY <2>3 DEF ServedByOwnOpening
<1> QED BY <1>12, <1>13, <1>14, <1>15, <1>16 DEF QueueShape

(* A caller gives up: the request stays, and belongs to nobody.            *)
LEMMA RequestAbandoned ==
    ASSUME TypeInv, TypeInv', QueueShape, NEW c \in Calls, IoTimesOut(c)
    PROVE  QueueShape'
<1>1. /\ UNCHANGED <<created, device>> /\ call[c].at = "io"
      /\ \A d \in Calls : d # c => call'[d] = call[d]
      /\ RequestShape /\ AnswerShape /\ OneRequest /\ OrderShape /\ ServedByOwnOpening
  <2>1. \A d \in Calls : d # c => call'[d] = call[d]
    BY OthersStay DEF IoTimesOut, Await
  <2> QED BY <2>1 DEF IoTimesOut, QueueShape
<1>2. /\ DOMAIN requests' = DOMAIN requests /\ DOMAIN answers' = DOMAIN answers
      /\ \A i \in DOMAIN requests : requests'[i] = Abandon(requests[i], c)
      /\ \A i \in DOMAIN answers :
            /\ answers'[i].request = Abandon(answers[i].request, c)
            /\ answers'[i].ok = answers[i].ok /\ answers'[i].served = answers[i].served
  BY TypeParts, GivesUp
<1>3. ASSUME NEW q \in Request, WaitsFor(q)
      PROVE  \A x : x = Abandon(q, c) =>
                WaitsFor(x)' /\ x.kind = q.kind /\ x.port = q.port /\ x.name = q.name
                /\ x.settled = q.settled /\ (x.call # None => x.call = q.call)
  <2>1. PICK x \in Request : /\ x = Abandon(q, c) /\ x.kind = q.kind /\ x.port = q.port /\ x.name = q.name
                             /\ x.settled = q.settled /\ x.call = IF q.call = c THEN None ELSE q.call
    BY AbandonFields
  <2>2. CASE q.call = c
    <3>1. q.kind = "io"
      BY <1>1, <1>3, <2>2, NoneAssumption DEF WaitsFor, Request
    <3> QED BY <2>1, <2>2, <3>1 DEF WaitsFor
  <2>3. CASE q.call # c
    <3>1. WaitsFor(q)'
      BY <1>1, <1>3, <2>3, KeepsWaiting
    <3> QED BY <2>1, <2>3, <3>1 DEF WaitsFor
  <2> QED BY <2>1, <2>2, <2>3
<1>4. ASSUME NEW i \in DOMAIN requests
      PROVE  \A x : x = requests'[i] =>
                WaitsFor(x)' /\ x.kind = requests[i].kind /\ x.port = requests[i].port
                /\ x.name = requests[i].name /\ x.settled = requests[i].settled
                /\ (x.call # None => x.call = requests[i].call)
  BY <1>1, <1>2, <1>3, QueueFields DEF RequestShape
<1>5. ASSUME NEW i \in DOMAIN answers
      PROVE  \A x : x = answers'[i].request =>
                WaitsFor(x)' /\ x.kind = answers[i].request.kind /\ x.port = answers[i].request.port
                /\ x.name = answers[i].request.name /\ x.settled = answers[i].request.settled
                /\ (x.call # None => x.call = answers[i].request.call)
  <2>1. PICK q \in Request : q = answers[i].request /\ WaitsFor(q)
    BY <1>1, QueueFields DEF AnswerShape
  <2>2. answers'[i].request = Abandon(q, c)
    BY <1>2, <2>1
  <2> QED BY <1>3, <2>1, <2>2
<1>6. \A x : OpenedFor(x)' = OpenedFor(x)
  BY <1>1, OpenedStays
<1>7. RequestShape'
  <2>1. ASSUME NEW i \in DOMAIN requests PROVE \A x : x = requests'[i] => RequestOk(x)'
    BY <1>1, <1>4, <1>6 DEF RequestShape, RequestOk
  <2> QED BY <1>2, <2>1 DEF RequestShape, RequestOk
<1>8. AnswerShape'
  <2>1. ASSUME NEW i \in DOMAIN answers PROVE \A x : x = answers'[i] => AnswerOk(x)'
    BY <1>1, <1>2, <1>5, <1>6 DEF AnswerShape, AnswerOk
  <2> QED BY <1>2, <2>1 DEF AnswerShape, AnswerOk
<1>9. OneRequest'
  BY <1>1, <1>2, <1>4, <1>5 DEF OneRequest
<1>10. OrderShape'
  BY <1>1, <1>2, <1>4 DEF OrderShape
<1>11. ServedByOwnOpening'
  BY <1>1, <1>2, <1>5 DEF ServedByOwnOpening
<1> QED BY <1>7, <1>8, <1>9, <1>10, <1>11 DEF QueueShape

(* An operation is sent: on a settled port, the platform has the port open *)
(* for it, and nothing in the queue closes it.                             *)
LEMMA IoSent ==
    ASSUME TypeInv, ObjectShape, QueueShape, NEW c \in Calls, \A d \in Calls : d # c => call'[d] = call[d],
           Silent(c), UNCHANGED <<created, answers, device>>, NEW o \in created, o \in Objects, isOpen[o],
           config[o] \in Names, Send(c, "io", o, config[o]), call'[c].at \in {"io", "readUntil"}
    PROVE  QueueShape'
<1>1. PICK r \in Request :
         /\ requests' = Append(requests, r)
         /\ r.call = c /\ r.kind = "io" /\ r.port = o /\ r.name = config[o] /\ r.settled = ~Busy(o)
  BY SendTypes
<1>2. RequestOk(r)'
  BY <1>1 DEF RequestOk, WaitsFor
<1>3. ASSUME r.settled
      PROVE  /\ device[r.name] = r.port
             /\ \A j \in DOMAIN requests : ~(requests[j].kind = "close" /\ requests[j].port = r.port)
  <2>1. ~Busy(o)
    BY <1>1, <1>3
  <2>2. OpenedFor(o) = {config[o]}
    BY <2>1, FreeIsQuiet, ObjectParts DEF RestShape
  <2>3. device[config[o]] = o
    BY <2>2 DEF OpenedFor
  <2>4. ASSUME NEW j \in DOMAIN requests, requests[j].kind = "close", requests[j].port = o PROVE FALSE
    <3>1. PICK q \in Request : q = requests[j]
      BY QueueFields
    <3>2. q.call \in Calls /\ call[q.call].at = "close" /\ call[q.call].port = o
      BY <2>4, <3>1 DEF QueueShape, RequestShape, WaitsFor, Request
    <3> QED BY <2>1, <3>2 DEF Busy, Lifecycle
  <2> QED BY <1>1, <2>3, <2>4
<1> QED BY <1>1, <1>2, <1>3, QueueGrows

(* A request to open keeps the shape of the queues.                        *)
LEMMA OpenSent ==
    ASSUME TypeInv, ObjectShape, QueueShape, NEW c \in Calls, NEW o \in Objects, NEW m \in Names,
           NEW next \in Nexts, Send(c, "open", o, m), call' = [call EXCEPT ![c] = At("open", o, m, next, {})],
           call[c] = Idle, ~Busy(o), ~isOpen[o], UNCHANGED <<answers, device>>,
           created \subseteq created', o \in created'
    PROVE  QueueShape'
<1> DEFINE s == At("open", o, m, next, {})
<1>1. s.at = "open" /\ s.port = o /\ s.name = m /\ call' = [call EXCEPT ![c] = s]
  BY RecordFields
<1> HIDE DEF s
<1>2. call'[c] = s /\ \A d \in Calls : d # c => call'[d] = call[d]
  BY <1>1, OthersStay
<1>3. PICK r \in Request :
         /\ requests' = Append(requests, r)
         /\ r.call = c /\ r.kind = "open" /\ r.port = o /\ r.name = m
  BY SendTypes
<1>4. OpenedFor(o) = {} /\ OpenedFor(o)' = OpenedFor(o)
  BY FreeIsQuiet, ObjectParts, OpenedStays DEF RestShape
<1>5. RequestOk(r)'
  BY <1>1, <1>2, <1>3, <1>4, NoneAssumption DEF RequestOk, WaitsFor
<1>6. Silent(c)
  BY IdleTypes, NothingPending DEF QueueShape
<1> QED BY <1>2, <1>3, <1>5, <1>6, QueueGrows

(* A request to close keeps the shape of the queues.                       *)
LEMMA CloseSent ==
    ASSUME TypeInv, ObjectShape, QueueShape, NEW c \in Calls, CancelReturns(c)
    PROVE  QueueShape'
<1>1. /\ call[c].at = "cancel" /\ call' = [call EXCEPT ![c].at = "close"]
      /\ Send(c, "close", call[c].port, call[c].name) /\ UNCHANGED <<created, answers, device>>
  BY DEF CancelReturns
<1>2. PICK o \in Objects, m \in Names : o = call[c].port /\ m = call[c].name /\ o \in created
  BY <1>1, TypeParts, CallFields DEF Disposing
<1>3. /\ call'[c].at = "close" /\ call'[c].port = o /\ call'[c].name = m
      /\ \A d \in Calls : d # c => call'[d] = call[d]
  BY <1>1, <1>2 DEF TypeInv, TypeOK, CallRecord
<1>4. PICK r \in Request :
         /\ requests' = Append(requests, r)
         /\ r.call = c /\ r.kind = "close" /\ r.port = o /\ r.name = m
  BY <1>1, <1>2, SendTypes
<1>5. OpenedFor(o) = {m} /\ OpenedFor(o)' = OpenedFor(o)
  <2>1. WorkShape(c, o) /\ Waits(c, o)
    BY <1>1, <1>2, ObjectParts DEF Waits, Lifecycle
  <2> QED BY <1>1, <1>2, <2>1, OpenedStays DEF WorkShape
<1>6. RequestOk(r)'
  BY <1>1, <1>2, <1>3, <1>4, <1>5, NoneAssumption DEF RequestOk, WaitsFor
<1>7. Silent(c)
  BY <1>1, NothingPending DEF QueueShape
<1> QED BY <1>1, <1>3, <1>4, <1>6, <1>7, QueueGrows

(* A step keeps the shape of the queues.                                   *)
LEMMA QueueShapeStep == TypeInv /\ Sequential /\ ~Overlap /\ [Next]_vars => QueueShape'
<1> SUFFICES ASSUME TypeInv, Sequential, ~Overlap, [Next]_vars PROVE QueueShape'
  OBVIOUS
<1>0. /\ ObjectTypes /\ CallTypes /\ QueueTypes /\ TypeInv' /\ ~Overlap
      /\ ObjectShape /\ OwnerShape /\ QueueShape
  BY TypeParts, TypeInvStep DEF Sequential, QueueShape
<1>1. CASE CreatePort
  <2>1. UNCHANGED <<requests, answers, device, call>>
    BY <1>1 DEF CreatePort
  <2> QED BY <1>0, <2>1, QueueStays
<1>2. ASSUME NEW c \in Calls, OpenPort(c) PROVE QueueShape'
  <2>1. PICK o \in created, m \in Names, next \in Nexts :
           /\ Send(c, "open", o, m) /\ ~Busy(o) /\ ~isOpen[o]
           /\ call' = [call EXCEPT ![c] = At("open", o, m, next, {})]
    BY <1>0, <1>2 DEF OpenPort, Open, Await, MayManage, Nexts, ObjectTypes
  <2>2. call[c] = Idle /\ o \in Objects /\ UNCHANGED <<created, answers, device>>
    BY <1>0, <1>2 DEF OpenPort, Start, ObjectTypes
  <2> QED BY <1>0, <2>1, <2>2, OpenSent
<1>3. ASSUME NEW c \in Calls, ManagerOpen(c) PROVE QueueShape'
  <2>1. PICK o \in Objects \ created, m \in Names, next \in Nexts :
           /\ Send(c, "open", o, m) /\ created' = created \cup {o}
           /\ call' = [call EXCEPT ![c] = At("open", o, m, next, {})]
    BY <1>3 DEF ManagerOpen, Open, Await, Create, Nexts
  <2>2. call[c] = Idle /\ UNCHANGED <<answers, device>>
    BY <1>3 DEF ManagerOpen, Start
  <2>3. ~Busy(o)
    BY <1>0, NewIsFree
  <2>4. ~isOpen[o]
    <3>1. RestShape(o) /\ Quiet(o)
      BY <1>0, <2>3, ObjectParts, FreeIsQuiet
    <3>2. OpenedFor(o) = {}
      BY <1>0, NoneAssumption DEF OpenedFor, QueueTypes
    <3> QED BY <3>1, <3>2 DEF RestShape
  <2> QED BY <1>0, <2>1, <2>2, <2>3, <2>4, OpenSent
<1>4. ASSUME NEW c \in Calls, ClosePort(c) \/ ManagerClose(c) \/ ManagerCloseAll(c) \/
             Dispose(c) \/ ReadUntilFails(c) \/ ControllerCloses(c)
      PROVE  QueueShape'
  <2>1. UNCHANGED <<requests, answers, device>> /\ call[c].at \in {"idle", "delay"} \cup Disposing
    BY <1>4, IdleTypes
    DEF ClosePort, ManagerClose, ManagerCloseAll, Dispose, ReadUntilFails, ControllerCloses, Start
  <2>2. \E r : call' = [call EXCEPT ![c] = r]
    <3>1. UNCHANGED call => call' = [call EXCEPT ![c] = call[c]]
      BY <1>0 DEF CallTypes
    <3> QED BY <1>0, <1>4, <3>1, DisposeMoves
        DEF ClosePort, ManagerClose, ManagerCloseAll, Dispose, ReadUntilFails, Close, CloseControllers,
            CloseNext, Await
  <2>3. \A d \in Calls : d # c => call'[d] = call[d]
    BY <1>0, <2>2, OthersStay
  <2>4. Silent(c)
    BY <1>0, <2>1, NothingPending DEF QueueShape
  <2> QED BY <1>0, <2>1, <2>3, <2>4, QueueStays
<1>5. ASSUME NEW c \in Calls, Io(c) \/ ReadUntil(c) PROVE QueueShape'
  <2>1. PICK o \in created, w \in {"io", "readUntil"} :
           /\ isOpen[o] /\ config[o] # None /\ Send(c, "io", o, config[o])
           /\ call' = [call EXCEPT ![c] = At(w, o, config[o], "return", {})]
    BY <1>0, <1>5 DEF Io, ReadUntil, Await, ObjectTypes
  <2> DEFINE r == At(w, o, config[o], "return", {})
  <2>2. r.at = w /\ call' = [call EXCEPT ![c] = r]
    BY <2>1, RecordFields
  <2> HIDE DEF r
  <2>3. call[c].at = "idle" /\ o \in Objects /\ config[o] \in Names /\ UNCHANGED <<created, answers, device>>
    BY <1>0, <1>5, <2>1, IdleTypes DEF Io, ReadUntil, Start, ObjectTypes
  <2>4. call'[c].at \in {"io", "readUntil"} /\ \A d \in Calls : d # c => call'[d] = call[d]
    BY <1>0, <2>2, OthersStay
  <2>5. Silent(c)
    BY <1>0, <2>3, NothingPending DEF QueueShape
  <2> QED BY <1>0, <2>1, <2>3, <2>4, <2>5, IoSent
<1>6. CASE PlatformAnswers
  BY <1>0, <1>6, RequestAnswered
<1>7. CASE LateAnswerDropped
  <2>1. /\ UNCHANGED <<created, requests, device, call>> /\ answers # <<>> /\ answers' = Tail(answers)
        /\ answers[1].request.call = None
    BY <1>0, <1>7, FirstAnswer DEF LateAnswerDropped
  <2> QED BY <1>0, <2>1, AnswerTaken
<1>8. ASSUME NEW c \in Calls, OpenReturns(c) \/ CloseReturns(c) \/ IoReturns(c) \/
             ReadUntilReturns(c)
      PROVE  QueueShape'
  <2>1. /\ UNCHANGED <<created, requests, device>> /\ answers # <<>> /\ answers' = Tail(answers)
        /\ answers[1].request.call = c
    BY <1>0, <1>8, FirstAnswer DEF OpenReturns, CloseReturns, IoReturns, ReadUntilReturns, Delivers
  <2>2. \E r : call' = [call EXCEPT ![c] = r]
    BY <1>8
    DEF OpenReturns, CloseReturns, IoReturns, ReadUntilReturns, Close, CloseControllers, CloseNext, Await
  <2>3. \A d \in Calls : d # c => call'[d] = call[d]
    BY <1>0, <2>2, OthersStay
  <2> QED BY <1>0, <2>1, <2>3, AnswerTaken
<1>9. ASSUME NEW c \in Calls, CancelReturns(c) PROVE QueueShape'
  BY <1>0, <1>9, CloseSent
<1>10. ASSUME NEW c \in Calls, IoTimesOut(c) PROVE QueueShape'
  BY <1>0, <1>10, RequestAbandoned
<1>11. ASSUME NEW c \in Calls, ReadUntilContinues(c) PROVE QueueShape'
  <2>1. /\ call[c].at = "delay" /\ config[call[c].port] # None
        /\ Send(c, "io", call[c].port, config[call[c].port])
        /\ call' = [call EXCEPT ![c] = [call[c] EXCEPT !.at = "readUntil", !.name = config[call[c].port]]]
        /\ UNCHANGED <<created, answers, device>>
    BY <1>11 DEF ReadUntilContinues
  <2>2. PICK o \in created : o = call[c].port /\ o \in Objects /\ config[o] \in Names
    BY <1>0, <2>1, CallFields DEF ObjectTypes
  <2> DEFINE r == [call[c] EXCEPT !.at = "readUntil", !.name = config[call[c].port]]
  <2>3. r.at = "readUntil" /\ call' = [call EXCEPT ![c] = r]
    BY <1>0, <2>1, CallFields DEF CallRecord
  <2> HIDE DEF r
  <2>4. call'[c].at \in {"io", "readUntil"} /\ \A d \in Calls : d # c => call'[d] = call[d]
    BY <1>0, <2>3, OthersStay
  <2>5. Silent(c)
    BY <1>0, <2>1, NothingPending DEF QueueShape
  <2>6. isOpen[o]
    BY <1>0, <2>1, <2>2, ObjectParts DEF RestShape
  <2> QED BY <1>0, <2>1, <2>2, <2>4, <2>5, <2>6, IoSent
<1>12. CASE UNCHANGED vars
  <2>1. UNCHANGED <<requests, answers, device, call>>
    BY <1>12 DEF vars
  <2> QED BY <1>0, <2>1, QueueStays
<1> QED
  BY <1>1, <1>2, <1>3, <1>4, <1>5, <1>6, <1>7, <1>8, <1>9, <1>10, <1>11, <1>12
  DEF Next, Runtime, Resume, Application

-----------------------------------------------------------------------------
(* The inductive invariant holds in every state.                           *)
THEOREM Invariance == Spec => []IInv
<1>1. Init => IInv
  <2> SUFFICES ASSUME Init PROVE Sequential
    BY InitTypes DEF IInv
  <2>1. /\ OwnerShape /\ RequestShape /\ AnswerShape /\ OneRequest /\ OrderShape /\ ServedByOwnOpening
    BY IdleTypes DEF Init, OwnerShape, Owns, Waits, Lifecycle, RequestShape, AnswerShape, OneRequest,
       OrderShape, ServedByOwnOpening
  <2>2. ObjectShape
    BY IdleTypes, NoneAssumption DEF Init, ObjectShape, OpenedFor, ListensTo, Lifecycle
  <2> QED BY <2>1, <2>2 DEF Sequential
<1>2. IInv /\ [Next]_vars => IInv'
  <2> SUFFICES ASSUME IInv, [Next]_vars PROVE IInv'
    OBVIOUS
  <2>1. TypeInv /\ TypeInv'
    BY TypeInvStep DEF IInv
  <2>2. ASSUME ~Overlap PROVE Sequential'
    <3>1. Sequential
      BY <2>2 DEF IInv
    <3>2. OwnerShape' /\ ObjectShape' /\ QueueShape'
      BY <2>1, <2>2, <3>1, OwnerShapeStep, ObjectShapeStep, QueueShapeStep
    <3> QED BY <3>2 DEF Sequential, QueueShape
  <2> QED BY <2>1, <2>2 DEF IInv
<1> QED BY <1>1, <1>2, PTL DEF Spec

(* When the lifecycle calls of an object do not overlap: isOpen says what  *)
(* the platform has open for the object.                                   *)
THEOREM OpenPortsAreKnown == ~Overlap /\ Spec => []IsOpenTellsTheTruth
<1>1. ~Overlap /\ IInv => IsOpenTellsTheTruth
  <2> SUFFICES ASSUME ~Overlap, IInv, NEW o \in created, ~Busy(o)
               PROVE  {n \in Names : device[n] = o} = IF isOpen[o] THEN {config[o]} ELSE {}
    BY DEF IsOpenTellsTheTruth
  <2>1. o \in Objects /\ ObjectShape
    BY DEF IInv, TypeInv, TypeOK, Sequential
  <2> QED BY <2>1, FreeIsQuiet, ObjectParts DEF RestShape, OpenedFor
<1>2. CASE ~Overlap
  BY <1>1, <1>2, Invariance, PTL
<1> QED BY <1>2

(* ... a closed or disposed port listens to nothing, an open one to its    *)
(* own name.                                                               *)
THEOREM ClosedPortsAreSilent == ~Overlap /\ Spec => []ListenersMatch
<1>1. ~Overlap /\ IInv => ListenersMatch
  <2> SUFFICES ASSUME ~Overlap, IInv, NEW o \in created, ~Busy(o)
               PROVE  {n \in Names : <<o, n>> \in listening} =
                         IF isOpen[o] /\ o \notin disposed THEN {config[o]} ELSE {}
    BY DEF ListenersMatch
  <2>1. o \in Objects /\ ObjectShape
    BY DEF IInv, TypeInv, TypeOK, Sequential
  <2> QED BY <2>1, FreeIsQuiet, ObjectParts DEF RestShape, ListensTo
<1>2. CASE ~Overlap
  BY <1>1, <1>2, Invariance, PTL
<1> QED BY <1>2

(* ... and an operation started on a settled port is carried out on that   *)
(* port's own opening of the device.                                       *)
THEOREM OperationsStayWithTheirPort == ~Overlap /\ Spec => []ServedByOwnOpening
<1>1. ~Overlap /\ IInv => ServedByOwnOpening
  BY DEF IInv, Sequential
<1>2. CASE ~Overlap
  BY <1>1, <1>2, Invariance, PTL
<1> QED BY <1>2

=============================================================================
