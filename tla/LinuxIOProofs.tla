---------------------------- MODULE LinuxIOProofs ----------------------------
(***************************************************************************)
(* What LinuxIO guarantees for every buffer length, timeout and queue, any *)
(* number of calls, signals, rivals and delays.                            *)
(***************************************************************************)
EXTENDS LinuxIO, SequenceTheorems, TLAPS

(* A run of places followed by the next k is a longer run.                 *)
LEMMA RunsConcatenate ==
    ASSUME NEW n \in Nat, NEW k \in Nat
    PROVE  [i \in 1 .. n |-> i] \o [i \in 1 .. k |-> n + i] = [i \in 1 .. n + k |-> i]
<1> DEFINE a == [i \in 1 .. n |-> i]
           b == [i \in 1 .. k |-> n + i]
           c == [i \in 1 .. n + k |-> i]
<1>1. /\ a \in Seq(Nat) /\ Len(a) = n
      /\ b \in Seq(Nat) /\ Len(b) = k
      /\ c \in Seq(Nat) /\ Len(c) = n + k
  OBVIOUS
<1>2. /\ \A i \in 1 .. n : a[i] = i
      /\ \A i \in 1 .. k : b[i] = n + i
      /\ \A i \in 1 .. n + k : c[i] = i
  OBVIOUS
<1> HIDE DEF a, b, c
<1>3. /\ a \o b \in Seq(Nat) /\ Len(a \o b) = n + k
      /\ \A i \in 1 .. n + k : (a \o b)[i] = IF i <= n THEN a[i] ELSE b[i - n]
  BY <1>1, ConcatProperties
<1>4. \A i \in 1 .. n + k : (a \o b)[i] = c[i]
  BY <1>2, <1>3
<1>5. a \o b = c
  BY <1>1, <1>3, <1>4, SeqEqual
<1> QED BY <1>5 DEF a, b, c

(* An event that is counted leaves a budget.                               *)
LEMMA MayKeepsTypes ==
    ASSUME left \in [calls : Nat, signals : Nat, stalls : Nat, rivals : Nat, arrivals : Nat],
           NEW what \in {"calls", "signals", "stalls", "rivals", "arrivals"},
           May(what)
    PROVE  left' \in [calls : Nat, signals : Nat, stalls : Nat, rivals : Nat, arrivals : Nat]
<1>1. /\ left["calls"] \in Nat /\ left["signals"] \in Nat /\ left["stalls"] \in Nat
      /\ left["rivals"] \in Nat /\ left["arrivals"] \in Nat
  OBVIOUS
<1>2. left[what] \in Nat /\ left[what] > 0
  BY <1>1 DEF May
<1>3. left[what] - 1 \in Nat
  BY <1>2
<1> QED BY <1>1, <1>3 DEF May

(* The inductive invariant holds before the first call.                    *)
LEMMA InitIInv == Init => IInv
<1> SUFFICES ASSUME Init PROVE IInv
  OBVIOUS
<1> USE DEF Init
<1>1. TypeOK
  <2>1. configured \in Int
    BY TimeoutsAssumption DEF Forever
  <2>2. left \in [calls : Nat, signals : Nat, stalls : Nat, rivals : Nat, arrivals : Nat]
    BY LimitsAssumption
  <2>3. sent \in Seq(Nat) /\ room \in 0 .. Capacity
    BY CapacityAssumption
  <2>4. modem \subseteq Lines /\ before \subseteq Lines
    OBVIOUS
  <2>5. pc \in PCs /\ ret \in Answers /\ op \in Operations \cup {NoOperation}
    BY DEF PCs, Answers
  <2>6. hungUp \in BOOLEAN /\ stolen \in BOOLEAN
    OBVIOUS
  <2>7. /\ input \in Nat /\ wait \in Int /\ since \in Nat /\ total \in Nat /\ count \in Nat
        /\ elapsed \in Nat /\ late \in Nat
    OBVIOUS
  <2> HIDE DEF Init
  <2> QED BY <2>1, <2>2, <2>3, <2>4, <2>5, <2>6, <2>7 DEF TypeOK
<1>2. Shape
  BY DEF Shape, CallShape, WriteShape, TimeShape, ReadShape, SignalShape
<1>3. WrittenIsAPrefix /\ BackInTime /\ TimesOutInTime /\ EmptyReadsAreExplained /\ SignalsAsAsked
  BY DEF WrittenIsAPrefix, BackInTime, TimesOutInTime, EmptyReadsAreExplained, SignalsAsAsked
<1> QED BY <1>1, <1>2, <1>3 DEF IInv

(* Every call begins with arguments of its kind, at the entry of its kind. *)
LEMMA BeginsWell ==
    ASSUME configured \in Int, BeginTransfer \/ BeginControl
    PROVE  \E o \in Operations :
              /\ Begin(o)
              /\ Entering(o) \in PCs
<1>1. CASE BeginTransfer
  <2>1. PICK kind \in {"read", "write"}, n \in Lengths, timeout \in Timeouts \cup {Forever} :
            Begin([kind |-> kind, length |-> n, timeout |-> InForce(timeout)])
    BY <1>1 DEF BeginTransfer
  <2>2. n \in Nat /\ InForce(timeout) \in Int
    BY LengthsAssumption, TimeoutsAssumption DEF InForce, Forever
  <2>3. [kind |-> kind, length |-> n, timeout |-> InForce(timeout)] \in Operations
    BY <2>2 DEF Operations
  <2> QED BY <2>1, <2>3 DEF Entering, PCs
<1>2. CASE BeginControl
  <2>1. \A kind \in {"flush", "reset", "query"} :
            [kind |-> kind] \in Operations /\ Entering([kind |-> kind]) \in PCs
    BY DEF Entering, PCs, Operations
  <2>2. \A on, off \in SUBSET Lines :
            LET o == [kind |-> "signals", set |-> on, clear |-> off]
            IN  o \in Operations /\ Entering(o) \in PCs
    BY DEF Entering, PCs, Operations
  <2> QED BY <1>2, <2>1, <2>2 DEF BeginControl
<1> QED BY <1>1, <1>2

(* The arguments of the calls that have them.                              *)
LEMMA TransferFields ==
    ASSUME op \in Operations, op.kind \in {"read", "write"}
    PROVE  op.length \in Nat /\ op.timeout \in Int
BY DEF Operations

(* The lines a call sets and clears.                                       *)
LEMMA SignalFields ==
    ASSUME op \in Operations, op.kind = "signals"
    PROVE  op.set \subseteq Lines /\ op.clear \subseteq Lines
BY DEF Operations

(* A step keeps the types.                                                 *)
LEMMA TypeOKStep == TypeOK /\ Shape /\ [Next]_vars => TypeOK'
<1> SUFFICES ASSUME TypeOK, Shape, [Next]_vars PROVE TypeOK'
  OBVIOUS
<1> USE DEF TypeOK, Answer, Goto, deviceVars, callVars, historyVars
<1>1. CASE BeginTransfer \/ BeginControl
  <2>1. PICK o \in Operations : Begin(o) /\ Entering(o) \in PCs
    BY <1>1, BeginsWell
  <2>2. left' \in [calls : Nat, signals : Nat, stalls : Nat, rivals : Nat, arrivals : Nat]
    BY <2>1, MayKeepsTypes DEF Begin
  <2>3. wait' \in Int
    BY <2>1 DEF Begin, Operations
  <2>4. sent' = <<>> /\ stolen' = FALSE
    BY <2>1 DEF Begin
  <2>5. sent' \in Seq(Nat)
    BY <2>4
  <2>6. stolen' \in BOOLEAN
    BY <2>4
  <2> QED BY <2>1, <2>2, <2>3, <2>5, <2>6 DEF Begin, Answers
<1>2. CASE Return
  BY <1>2 DEF Return, PCs, Answers
<1>3. CASE WriteDone
  BY <1>3 DEF WriteDone, PCs, Answers
<1>4. CASE WriteTooLate
  BY <1>4 DEF WriteTooLate, PCs, Answers
<1>5. CASE WriteTurn
  <2>1. Remaining \in Int /\ op.timeout \in Int
    BY <1>5, TransferFields DEF WriteTurn, Shape, CallShape, Timed, Remaining
  <2> QED BY <1>5, <2>1 DEF WriteTurn, PollFor, PCs
<1>6. CASE EnterPoll
  BY <1>6 DEF EnterPoll, PCs, Answers
<1>7. CASE PollReady
  <2>1. op.kind \in PCs
    BY <1>7 DEF PollReady, Shape, CallShape, Timed, PCs
  <2> QED BY <1>7, <2>1 DEF PollReady
<1>8. CASE PollHangsUp
  BY <1>8 DEF PollHangsUp, PCs, Answers
<1>9. CASE PollExpires
  BY <1>9 DEF PollExpires, PCs, Answers
<1>10. CASE ReadSome
  <2>1. op.length \in Nat
    BY <1>10, TransferFields DEF ReadSome, Shape, CallShape, Timed
  <2>2. PICK k \in 1 .. op.length : k <= input /\ input' = input - k /\ Answer("SUCCESS", k)
    BY <1>10 DEF ReadSome
  <2>3. input' \in Nat /\ count' \in Nat
    BY <2>1, <2>2
  <2> QED BY <1>10, <2>2, <2>3 DEF ReadSome, PCs, Answers
<1>11. CASE ReadNothing
  BY <1>11 DEF ReadNothing, PCs, Answers
<1>12. CASE WriteSome
  <2>1. op.length \in Nat
    BY <1>12, TransferFields DEF WriteSome, Shape, CallShape, Timed
  <2>2. PICK k \in 1 .. op.length - total :
            /\ k <= room
            /\ room' = room - k
            /\ total' = total + k
            /\ sent' = sent \o [i \in 1 .. k |-> total + i]
    BY <1>12 DEF WriteSome
  <2>3. k \in Nat /\ room' \in 0 .. Capacity /\ total' \in Nat
    BY <2>1, <2>2, CapacityAssumption
  <2>4. [i \in 1 .. k |-> total + i] \in Seq(Nat)
    BY <2>3
  <2>5. sent' \in Seq(Nat)
    BY <2>2, <2>4, ConcatProperties
  <2> QED BY <1>12, <2>3, <2>5 DEF WriteSome, PCs
<1>13. CASE WriteNothing
  BY <1>13 DEF WriteNothing, PCs, Answers
<1>14. CASE TransferFails
  BY <1>14 DEF TransferFails, PCs, Answers
<1>15. CASE Flush
  BY <1>15 DEF Flush, PCs, Answers
<1>16. CASE ResetBuffers
  BY <1>16, CapacityAssumption DEF ResetBuffers, PCs, Answers
<1>17. CASE Query
  BY <1>17 DEF Query, PCs, Answers
<1>18. CASE ControlFails
  BY <1>18 DEF ControlFails, PCs, Answers
<1>19. CASE SetSignals
  <2>1. op.set \subseteq Lines
    BY <1>19, SignalFields DEF SetSignals, Shape, CallShape
  <2>2. modem' \subseteq Lines
    BY <1>19, <2>1 DEF SetSignals
  <2> QED BY <1>19, <2>2 DEF SetSignals, PCs
<1>20. CASE ClearSignals
  <2>1. modem' \subseteq Lines
    BY <1>20 DEF ClearSignals
  <2> QED BY <1>20, <2>1 DEF ClearSignals, PCs, Answers
<1>21. CASE SignalsFail
  BY <1>21 DEF SignalsFail, PCs, Answers
<1>22. CASE PollInterrupted
  <2>1. left' \in [calls : Nat, signals : Nat, stalls : Nat, rivals : Nat, arrivals : Nat]
    BY <1>22, MayKeepsTypes DEF PollInterrupted
  <2>2. late' \in Nat
    BY <1>22 DEF PollInterrupted, Shape, TimeShape
  <2> QED BY <1>22, <2>1, <2>2 DEF PollInterrupted, PCs
<1>23. CASE TransferInterrupted
  <2>1. left' \in [calls : Nat, signals : Nat, stalls : Nat, rivals : Nat, arrivals : Nat]
    BY <1>23, MayKeepsTypes DEF TransferInterrupted
  <2>2. pc' \in PCs
    BY <1>23 DEF TransferInterrupted, PCs
  <2> QED BY <1>23, <2>1, <2>2 DEF TransferInterrupted
<1>24. CASE FlushInterrupted
  <2>1. left' \in [calls : Nat, signals : Nat, stalls : Nat, rivals : Nat, arrivals : Nat]
    BY <1>24, MayKeepsTypes DEF FlushInterrupted
  <2> QED BY <1>24, <2>1 DEF FlushInterrupted, PCs, Answers
<1>25. CASE Arrive
  <2>1. left' \in [calls : Nat, signals : Nat, stalls : Nat, rivals : Nat, arrivals : Nat]
    BY <1>25, MayKeepsTypes DEF Arrive
  <2> QED BY <1>25, <2>1 DEF Arrive
<1>26. CASE Drain
  <2>1. room' \in 0 .. Capacity
    BY <1>26, CapacityAssumption DEF Drain
  <2> QED BY <1>26, <2>1 DEF Drain
<1>27. CASE RivalReads
  <2>1. left' \in [calls : Nat, signals : Nat, stalls : Nat, rivals : Nat, arrivals : Nat]
    BY <1>27, MayKeepsTypes DEF RivalReads
  <2> QED BY <1>27, <2>1 DEF RivalReads
<1>28. CASE RivalWrites
  <2>1. left' \in [calls : Nat, signals : Nat, stalls : Nat, rivals : Nat, arrivals : Nat]
    BY <1>28, MayKeepsTypes DEF RivalWrites
  <2>2. room' \in 0 .. Capacity
    BY <1>28, CapacityAssumption DEF RivalWrites
  <2> QED BY <1>28, <2>1, <2>2 DEF RivalWrites
<1>29. CASE HangUp
  BY <1>29 DEF HangUp
<1>30. CASE Stall
  <2>1. left' \in [calls : Nat, signals : Nat, stalls : Nat, rivals : Nat, arrivals : Nat]
    BY <1>30, MayKeepsTypes DEF Stall
  <2> QED BY <1>30, <2>1 DEF Stall
<1>31. CASE Tick
  BY <1>31 DEF Tick
<1>32. CASE UNCHANGED vars
  BY <1>32 DEF vars
<1> QED
  BY <1>1, <1>2, <1>3, <1>4, <1>5, <1>6, <1>7, <1>8, <1>9, <1>10, <1>11, <1>12, <1>13,
     <1>14, <1>15, <1>16, <1>17, <1>18, <1>19, <1>20, <1>21, <1>22, <1>23, <1>24, <1>25,
     <1>26, <1>27, <1>28, <1>29, <1>30, <1>31, <1>32
  DEF Next, Transfer, Control, Signal, Environment

(* Where a call is goes on saying of which kind it is.                     *)
LEMMA CallShapeStep == TypeOK /\ TypeOK' /\ Shape /\ [Next]_vars => CallShape'
<1> SUFFICES ASSUME TypeOK, TypeOK', Shape, [Next]_vars PROVE CallShape'
  OBVIOUS
<1> USE DEF CallShape, Timed, Answer, Goto, deviceVars, callVars, historyVars
<1> USE DEF Shape
<1>1. CASE BeginTransfer \/ BeginControl
  <2>1. PICK o \in Operations : Begin(o) /\ Entering(o) \in PCs
    BY <1>1, BeginsWell DEF TypeOK
  <2>2. CASE o.kind \in {"read", "write"}
    BY <2>1, <2>2 DEF Begin, Entering
  <2>3. CASE o.kind \in {"flush", "reset", "query", "signals"}
    BY <2>1, <2>3 DEF Begin, Entering
  <2> QED BY <2>1, <2>2, <2>3 DEF Operations
<1>2. CASE Return
  BY <1>2 DEF Return
<1>3. CASE WriteDone
  BY <1>3 DEF WriteDone
<1>4. CASE WriteTooLate
  BY <1>4 DEF WriteTooLate
<1>5. CASE WriteTurn
  BY <1>5 DEF WriteTurn, PollFor
<1>6. CASE EnterPoll
  BY <1>6 DEF EnterPoll
<1>7. CASE PollReady
  BY <1>7 DEF PollReady
<1>8. CASE PollHangsUp
  BY <1>8 DEF PollHangsUp
<1>9. CASE PollExpires
  BY <1>9 DEF PollExpires
<1>10. CASE ReadSome
  BY <1>10 DEF ReadSome
<1>11. CASE ReadNothing
  BY <1>11 DEF ReadNothing
<1>12. CASE WriteSome
  BY <1>12 DEF WriteSome
<1>13. CASE WriteNothing
  BY <1>13 DEF WriteNothing
<1>14. CASE TransferFails
  BY <1>14 DEF TransferFails
<1>15. CASE Flush
  BY <1>15 DEF Flush
<1>16. CASE ResetBuffers
  BY <1>16 DEF ResetBuffers
<1>17. CASE Query
  BY <1>17 DEF Query
<1>18. CASE ControlFails
  BY <1>18 DEF ControlFails
<1>19. CASE SetSignals
  BY <1>19 DEF SetSignals
<1>20. CASE ClearSignals
  BY <1>20 DEF ClearSignals
<1>21. CASE SignalsFail
  BY <1>21 DEF SignalsFail
<1>22. CASE PollInterrupted
  BY <1>22 DEF PollInterrupted
<1>23. CASE TransferInterrupted
  BY <1>23 DEF TransferInterrupted
<1>24. CASE FlushInterrupted
  BY <1>24 DEF FlushInterrupted
<1>25. CASE Arrive \/ Drain \/ RivalReads \/ RivalWrites \/ HangUp \/ Stall \/ Tick
  BY <1>25 DEF Arrive, Drain, RivalReads, RivalWrites, HangUp, Stall, Tick
<1>26. CASE UNCHANGED vars
  BY <1>26 DEF vars
<1> QED
  BY <1>1, <1>2, <1>3, <1>4, <1>5, <1>6, <1>7, <1>8, <1>9, <1>10, <1>11, <1>12, <1>13,
     <1>14, <1>15, <1>16, <1>17, <1>18, <1>19, <1>20, <1>21, <1>22, <1>23, <1>24, <1>25,
     <1>26
  DEF Next, Transfer, Control, Signal, Environment

(* What was written stays, and grows by the places that follow.            *)
LEMMA WriteShapeStep == TypeOK /\ TypeOK' /\ Shape /\ [Next]_vars => WriteShape'
<1> SUFFICES ASSUME TypeOK, TypeOK', Shape, [Next]_vars PROVE WriteShape'
  OBVIOUS
<1> USE DEF WriteShape, CallShape, Timed, Answer, Goto, deviceVars, callVars, historyVars
<1> USE DEF Shape
<1>1. CASE BeginTransfer \/ BeginControl
  <2>1. PICK o \in Operations : Begin(o) /\ Entering(o) \in PCs
    BY <1>1, BeginsWell DEF TypeOK
  <2>2. o.kind = "write" => o.length \in Nat /\ Entering(o) = "turn"
    BY <2>1 DEF Operations, Entering
  <2>3. [i \in 1 .. 0 |-> i] = <<>>
    OBVIOUS
  <2> QED BY <2>1, <2>2, <2>3 DEF Begin
<1>2. CASE WriteTurn
  BY <1>2 DEF WriteTurn, PollFor
<1>3. CASE WriteSome
  <2>1. op.length \in Nat
    BY <1>3, TransferFields DEF WriteSome
  <2>2. PICK k \in 1 .. op.length - total :
            /\ total' = total + k
            /\ sent' = sent \o [i \in 1 .. k |-> total + i]
    BY <1>3 DEF WriteSome
  <2> total \in Nat
    BY DEF TypeOK
  <2>3. k \in Nat /\ total + k <= op.length
    BY <2>1, <2>2
  <2>4. sent = [i \in 1 .. total |-> i]
    BY <1>3 DEF WriteSome
  <2>5. sent' = [i \in 1 .. total + k |-> i]
    BY <2>2, <2>3, <2>4, RunsConcatenate
  <2> QED BY <1>3, <2>2, <2>3, <2>5 DEF WriteSome
<1>4. CASE PollReady
  BY <1>4 DEF PollReady
<1>5. CASE
        \/ Return \/ WriteDone \/ WriteTooLate \/ EnterPoll \/ PollHangsUp
        \/ PollExpires \/ ReadSome \/ ReadNothing \/ WriteNothing
        \/ TransferFails \/ Flush \/ ResetBuffers \/ Query \/ ControlFails
        \/ SetSignals \/ ClearSignals \/ SignalsFail \/ PollInterrupted
        \/ TransferInterrupted \/ FlushInterrupted
  BY <1>5 DEF Return, WriteDone, WriteTooLate, EnterPoll, PollHangsUp, PollExpires,
     ReadSome, ReadNothing, WriteNothing, TransferFails, Flush, ResetBuffers, Query,
     ControlFails, SetSignals, ClearSignals, SignalsFail, PollInterrupted,
     TransferInterrupted, FlushInterrupted
<1>6. CASE Arrive \/ Drain \/ RivalReads \/ RivalWrites \/ HangUp \/ Stall \/ Tick
  BY <1>6 DEF Arrive, Drain, RivalReads, RivalWrites, HangUp, Stall, Tick
<1>7. CASE UNCHANGED vars
  BY <1>7 DEF vars
<1> QED
  BY <1>1, <1>2, <1>3, <1>4, <1>5, <1>6, <1>7
  DEF Next, Transfer, Control, Signal, Environment

(* The end of a wait does not move, but by the time that is lost.          *)
LEMMA TimeShapeStep == TypeOK /\ TypeOK' /\ Shape /\ BackInTime /\ [Next]_vars => TimeShape'
<1> SUFFICES ASSUME TypeOK, TypeOK', Shape, BackInTime, [Next]_vars PROVE TimeShape'
  OBVIOUS
<1> USE DEF TimeShape, CallShape, Timed, Answer, Goto, deviceVars, callVars, historyVars
<1> USE DEF Shape
<1>1. CASE BeginTransfer \/ BeginControl
  <2>1. PICK o \in Operations : Begin(o) /\ Entering(o) \in PCs
    BY <1>1, BeginsWell DEF TypeOK
  <2>2. Entering(o) \in {"wait", "poll"} => o.kind = "read" /\ Entering(o) = "wait" /\ o.timeout \in Int
    BY <2>1 DEF Operations, Entering
  <2> QED BY <2>1, <2>2 DEF Begin
<1>2. CASE WriteTurn
  <2>1. op.timeout \in Int
    BY <1>2, TransferFields DEF WriteTurn
  <2>2. /\ pc = "turn" /\ pc' = "wait" /\ UNCHANGED <<op, elapsed, late>>
        /\ wait' = IF op.timeout > 0 THEN op.timeout - elapsed ELSE op.timeout
        /\ op.timeout > 0 => op.timeout - elapsed > 0
    BY <1>2 DEF WriteTurn, PollFor, Remaining
  <2>3. elapsed \in Nat /\ late \in Nat
    BY DEF TypeOK
  <2>4. op.timeout = 0 => elapsed <= late
    BY <1>2 DEF WriteTurn, BackInTime, TypeOK
  <2>5. /\ wait' >= 0 <=> op.timeout >= 0
        /\ wait' >= 0 => op.timeout <= elapsed + wait' /\ elapsed + wait' <= op.timeout + late
    BY <2>1, <2>2, <2>3, <2>4
  <2> QED BY <2>2, <2>5
<1>3. CASE EnterPoll
  <2>1. op.timeout \in Int
    BY <1>3, TransferFields DEF EnterPoll
  <2> QED BY <1>3, <2>1 DEF EnterPoll, TypeOK
<1>4. CASE PollInterrupted
  <2>1. op.timeout \in Int
    BY <1>4, TransferFields DEF PollInterrupted
  <2>2. /\ pc = "poll" /\ pc' = "wait" /\ UNCHANGED <<op, wait, elapsed>>
        /\ late' = late + (elapsed - since)
    BY <1>4 DEF PollInterrupted
  <2>3. elapsed \in Nat /\ late \in Nat /\ since \in Nat /\ wait \in Int
    BY DEF TypeOK
  <2> QED BY <2>1, <2>2, <2>3
<1>5. CASE PollReady
  <2>1. pc' \notin {"wait", "poll"}
    BY <1>5 DEF PollReady
  <2> QED BY <2>1
<1>6. CASE
        \/ Return \/ WriteDone \/ WriteTooLate \/ PollHangsUp \/ PollExpires
        \/ ReadSome \/ ReadNothing \/ WriteSome \/ WriteNothing \/ TransferFails
        \/ Flush \/ ResetBuffers \/ Query \/ ControlFails \/ SetSignals
        \/ ClearSignals \/ SignalsFail \/ TransferInterrupted \/ FlushInterrupted
  BY <1>6 DEF Return, WriteDone, WriteTooLate, PollHangsUp, PollExpires, ReadSome,
     ReadNothing, WriteSome, WriteNothing, TransferFails, Flush, ResetBuffers, Query,
     ControlFails, SetSignals, ClearSignals, SignalsFail, TransferInterrupted,
     FlushInterrupted
<1>7. CASE Stall
  <2>1. op.timeout \in Int
    BY <1>7, TransferFields DEF Stall
  <2>2. elapsed \in Nat /\ late \in Nat /\ wait \in Int /\ since \in Nat
    BY DEF TypeOK
  <2>3. UNCHANGED <<pc, op, wait, since>> /\ elapsed' = elapsed + 1 /\ late' = late + 1
    BY <1>7 DEF Stall
  <2> QED BY <2>1, <2>2, <2>3
<1>8. CASE Tick
  <2>1. op.timeout \in Int
    BY <1>8, TransferFields DEF Tick
  <2> QED BY <1>8, <2>1 DEF Tick, TypeOK
<1>9. CASE Arrive \/ Drain \/ RivalReads \/ RivalWrites \/ HangUp
  BY <1>9 DEF Arrive, Drain, RivalReads, RivalWrites, HangUp
<1>10. CASE UNCHANGED vars
  BY <1>10 DEF vars
<1> QED
  BY <1>1, <1>2, <1>3, <1>4, <1>5, <1>6, <1>7, <1>8, <1>9, <1>10
  DEF Next, Transfer, Control, Signal, Environment

(* Input that was seen is there until another process takes it.            *)
LEMMA ReadShapeStep == TypeOK /\ TypeOK' /\ Shape /\ [Next]_vars => ReadShape'
<1> SUFFICES ASSUME TypeOK, TypeOK', Shape, [Next]_vars PROVE ReadShape'
  OBVIOUS
<1> USE DEF ReadShape, CallShape, Timed, Answer, Goto, deviceVars, callVars, historyVars
<1> USE DEF Shape
<1>1. CASE BeginTransfer \/ BeginControl
  <2>1. PICK o \in Operations : Begin(o) /\ Entering(o) \in PCs
    BY <1>1, BeginsWell DEF TypeOK
  <2>2. o.kind = "read" => o.length \in Nat /\ (o.length = 0 => Entering(o) = "return")
    BY <2>1 DEF Operations, Entering
  <2>3. Entering(o) # "read"
    BY <2>1 DEF Operations, Entering
  <2> QED BY <2>1, <2>2, <2>3 DEF Begin
<1>2. CASE WriteTurn
  BY <1>2 DEF WriteTurn, PollFor
<1>3. CASE PollReady
  BY <1>3 DEF PollReady, Ready
<1>4. CASE
        \/ Return \/ WriteDone \/ WriteTooLate \/ EnterPoll \/ PollHangsUp
        \/ PollExpires \/ ReadSome \/ ReadNothing \/ WriteSome \/ WriteNothing
        \/ TransferFails \/ Flush \/ ResetBuffers \/ Query \/ ControlFails
        \/ SetSignals \/ ClearSignals \/ SignalsFail \/ PollInterrupted
        \/ TransferInterrupted \/ FlushInterrupted
  BY <1>4 DEF Return, WriteDone, WriteTooLate, EnterPoll, PollHangsUp, PollExpires,
     ReadSome, ReadNothing, WriteSome, WriteNothing, TransferFails, Flush, ResetBuffers,
     Query, ControlFails, SetSignals, ClearSignals, SignalsFail, PollInterrupted,
     TransferInterrupted, FlushInterrupted
<1>5. CASE Arrive \/ Drain \/ RivalReads \/ RivalWrites \/ HangUp \/ Stall \/ Tick
  <2>1. CASE RivalReads
    BY <2>1 DEF RivalReads
  <2>2. CASE Arrive
    <3>1. input \in Nat
      BY DEF TypeOK
    <3>2. UNCHANGED <<pc, op, total, stolen, hungUp>> /\ input' = input + 1
      BY <2>2 DEF Arrive
    <3>3. input > 0 => input' > 0
      BY <3>1, <3>2
    <3> QED BY <3>2, <3>3
  <2>3. CASE HangUp
    BY <2>3 DEF HangUp
  <2>4. CASE Drain \/ RivalWrites \/ Stall \/ Tick
    BY <2>4 DEF Drain, RivalWrites, Stall, Tick
  <2> QED BY <1>5, <2>1, <2>2, <2>3, <2>4
<1>6. CASE UNCHANGED vars
  BY <1>6 DEF vars
<1> QED
  BY <1>1, <1>2, <1>3, <1>4, <1>5, <1>6
  DEF Next, Transfer, Control, Signal, Environment

(* Only the two ioctls change the modem lines.                             *)
LEMMA SignalShapeStep == TypeOK /\ TypeOK' /\ Shape /\ [Next]_vars => SignalShape'
<1> SUFFICES ASSUME TypeOK, TypeOK', Shape, [Next]_vars PROVE SignalShape'
  OBVIOUS
<1> USE DEF SignalShape, CallShape, Timed, Answer, Goto, deviceVars, callVars, historyVars
<1> USE DEF Shape
<1>1. CASE BeginTransfer \/ BeginControl
  <2>1. PICK o \in Operations : Begin(o) /\ Entering(o) \in PCs
    BY <1>1, BeginsWell DEF TypeOK
  <2>2. Entering(o) # "clear"
    BY <2>1 DEF Operations, Entering
  <2> QED BY <2>1, <2>2 DEF Begin
<1>2. CASE WriteTurn
  BY <1>2 DEF WriteTurn, PollFor
<1>3. CASE PollReady
  BY <1>3 DEF PollReady
<1>4. CASE
        \/ Return \/ WriteDone \/ WriteTooLate \/ EnterPoll \/ PollHangsUp
        \/ PollExpires \/ ReadSome \/ ReadNothing \/ WriteSome \/ WriteNothing
        \/ TransferFails \/ Flush \/ ResetBuffers \/ Query \/ ControlFails
        \/ SetSignals \/ ClearSignals \/ SignalsFail \/ PollInterrupted
        \/ TransferInterrupted \/ FlushInterrupted
  BY <1>4 DEF Return, WriteDone, WriteTooLate, EnterPoll, PollHangsUp, PollExpires,
     ReadSome, ReadNothing, WriteSome, WriteNothing, TransferFails, Flush, ResetBuffers,
     Query, ControlFails, SetSignals, ClearSignals, SignalsFail, PollInterrupted,
     TransferInterrupted, FlushInterrupted
<1>5. CASE Arrive \/ Drain \/ RivalReads \/ RivalWrites \/ HangUp \/ Stall \/ Tick
  BY <1>5 DEF Arrive, Drain, RivalReads, RivalWrites, HangUp, Stall, Tick
<1>6. CASE UNCHANGED vars
  BY <1>6 DEF vars
<1> QED
  BY <1>1, <1>2, <1>3, <1>4, <1>5, <1>6
  DEF Next, Transfer, Control, Signal, Environment

(* A write answers with what was written.                                  *)
LEMMA WrittenStep == IInv /\ TypeOK' /\ [Next]_vars => WrittenIsAPrefix'
<1> SUFFICES ASSUME IInv, TypeOK', [Next]_vars PROVE WrittenIsAPrefix'
  OBVIOUS
<1> USE DEF WrittenIsAPrefix, CallShape, Timed, Answer, Goto, deviceVars, callVars, historyVars
<1> USE DEF IInv, Shape
<1>1. CASE BeginTransfer \/ BeginControl
  <2>1. PICK o \in Operations : Begin(o) /\ Entering(o) \in PCs
    BY <1>1, BeginsWell DEF TypeOK
  <2>2. o.kind = "write" => Entering(o) # "return"
    BY <2>1 DEF Entering
  <2> QED BY <2>1, <2>2 DEF Begin
<1>2. CASE WriteDone
  <2>1. op.length \in Nat /\ total \in Nat
    BY <1>2, TransferFields DEF WriteDone, TypeOK
  <2> QED BY <1>2, <2>1 DEF WriteDone, WriteShape
<1>3. CASE WriteTooLate
  <2>1. op.length \in Nat /\ total \in Nat
    BY <1>3, TransferFields DEF WriteTooLate, TypeOK
  <2> QED BY <1>3, <2>1 DEF WriteTooLate, WriteShape
<1>4. CASE WriteTurn
  BY <1>4 DEF WriteTurn, PollFor
<1>5. CASE PollReady
  BY <1>5 DEF PollReady
<1>6. CASE PollHangsUp
  <2>1. op.length \in Nat /\ total \in Nat
    BY <1>6, TransferFields DEF PollHangsUp, TypeOK
  <2> QED BY <1>6, <2>1 DEF PollHangsUp, WriteShape
<1>7. CASE PollExpires
  <2>1. op.length \in Nat /\ total \in Nat
    BY <1>7, TransferFields DEF PollExpires, TypeOK
  <2> QED BY <1>7, <2>1 DEF PollExpires, WriteShape
<1>8. CASE TransferFails
  <2>1. op.kind = "write" => op.length \in Nat /\ total \in Nat
    BY <1>8, TransferFields DEF TransferFails, TypeOK
  <2> QED BY <1>8, <2>1 DEF TransferFails, WriteShape
<1>9. CASE
        \/ Return \/ EnterPoll \/ ReadSome \/ ReadNothing \/ WriteSome
        \/ WriteNothing \/ Flush \/ ResetBuffers \/ Query \/ ControlFails
        \/ SetSignals \/ ClearSignals \/ SignalsFail \/ PollInterrupted
        \/ TransferInterrupted \/ FlushInterrupted
  BY <1>9 DEF Return, EnterPoll, ReadSome, ReadNothing, WriteSome, WriteNothing, Flush,
     ResetBuffers, Query, ControlFails, SetSignals, ClearSignals, SignalsFail,
     PollInterrupted, TransferInterrupted, FlushInterrupted
<1>10. CASE Arrive \/ Drain \/ RivalReads \/ RivalWrites \/ HangUp \/ Stall \/ Tick
  BY <1>10 DEF Arrive, Drain, RivalReads, RivalWrites, HangUp, Stall, Tick
<1>11. CASE UNCHANGED vars
  BY <1>11 DEF vars
<1> QED
  BY <1>1, <1>2, <1>3, <1>4, <1>5, <1>6, <1>7, <1>8, <1>9, <1>10, <1>11
  DEF Next, Transfer, Control, Signal, Environment

(* Time passes in poll until the wait ends, and elsewhere it is lost.      *)
LEMMA BackInTimeStep == IInv /\ TypeOK' /\ [Next]_vars => BackInTime'
<1> SUFFICES ASSUME IInv, TypeOK', [Next]_vars PROVE BackInTime'
  OBVIOUS
<1> USE DEF BackInTime, CallShape, Timed, Answer, Goto, deviceVars, callVars, historyVars
<1> USE DEF IInv, Shape
<1>1. CASE BeginTransfer \/ BeginControl
  <2>1. PICK o \in Operations : Begin(o) /\ Entering(o) \in PCs
    BY <1>1, BeginsWell DEF TypeOK
  <2>2. op' = o /\ elapsed' = 0 /\ late' = 0
    BY <2>1 DEF Begin
  <2>3. o.kind \in {"read", "write"} => o.timeout \in Int
    BY DEF Operations
  <2> QED BY <2>2, <2>3
<1>2. CASE WriteTurn
  BY <1>2 DEF WriteTurn, PollFor
<1>3. CASE PollReady
  BY <1>3 DEF PollReady
<1>4. CASE PollInterrupted
  <2>1. op.timeout \in Int
    BY <1>4, TransferFields DEF PollInterrupted
  <2>2. elapsed \in Nat /\ late \in Nat /\ wait \in Int /\ since \in Nat
    BY DEF TypeOK
  <2>3. since <= elapsed /\ op' = op /\ elapsed' = elapsed /\ late' = late + (elapsed - since)
    BY <1>4 DEF PollInterrupted, TimeShape
  <2> QED BY <1>4, <2>1, <2>2, <2>3 DEF PollInterrupted
<1>5. CASE
        \/ Return \/ WriteDone \/ WriteTooLate \/ EnterPoll \/ PollHangsUp
        \/ PollExpires \/ ReadSome \/ ReadNothing \/ WriteSome \/ WriteNothing
        \/ TransferFails \/ Flush \/ ResetBuffers \/ Query \/ ControlFails
        \/ SetSignals \/ ClearSignals \/ SignalsFail \/ TransferInterrupted
        \/ FlushInterrupted
  BY <1>5 DEF Return, WriteDone, WriteTooLate, EnterPoll, PollHangsUp, PollExpires,
     ReadSome, ReadNothing, WriteSome, WriteNothing, TransferFails, Flush, ResetBuffers,
     Query, ControlFails, SetSignals, ClearSignals, SignalsFail, TransferInterrupted,
     FlushInterrupted
<1>6. CASE Stall
  <2>1. op.timeout \in Int
    BY <1>6, TransferFields DEF Stall
  <2>2. elapsed \in Nat /\ late \in Nat /\ wait \in Int /\ since \in Nat
    BY DEF TypeOK
  <2> QED BY <1>6, <2>1, <2>2 DEF Stall
<1>7. CASE Tick
  <2>1. op.timeout \in Int
    BY <1>7, TransferFields DEF Tick
  <2>2. elapsed \in Nat /\ late \in Nat /\ wait \in Int /\ since \in Nat
    BY DEF TypeOK
  <2>3. op.timeout >= 0 => elapsed + 1 <= op.timeout + late
    BY <1>7, <2>1, <2>2 DEF Tick, Due, TimeShape
  <2> QED BY <1>7, <2>3 DEF Tick
<1>8. CASE Arrive \/ Drain \/ RivalReads \/ RivalWrites \/ HangUp
  BY <1>8 DEF Arrive, Drain, RivalReads, RivalWrites, HangUp
<1>9. CASE UNCHANGED vars
  BY <1>9 DEF vars
<1> QED
  BY <1>1, <1>2, <1>3, <1>4, <1>5, <1>6, <1>7, <1>8, <1>9
  DEF Next, Transfer, Control, Signal, Environment

(* The two ways to time out find that the time is over.                    *)
LEMMA TimesOutStep == IInv /\ TypeOK' /\ [Next]_vars => TimesOutInTime'
<1> SUFFICES ASSUME IInv, TypeOK', [Next]_vars PROVE TimesOutInTime'
  OBVIOUS
<1> USE DEF TimesOutInTime, CallShape, Timed, Answer, Goto, deviceVars, callVars, historyVars
<1> USE DEF IInv, Shape
<1>1. CASE BeginTransfer \/ BeginControl
  <2>1. PICK o \in Operations : Begin(o) /\ Entering(o) \in PCs
    BY <1>1, BeginsWell DEF TypeOK
  <2> QED BY <2>1 DEF Begin
<1>2. CASE WriteTooLate
  <2>1. op.timeout \in Int /\ elapsed \in Nat
    BY <1>2, TransferFields DEF WriteTooLate, TypeOK
  <2> QED BY <1>2, <2>1 DEF WriteTooLate, Remaining
<1>3. CASE WriteTurn
  BY <1>3 DEF WriteTurn, PollFor
<1>4. CASE PollReady
  BY <1>4 DEF PollReady
<1>5. CASE PollExpires
  <2>1. op.timeout \in Int
    BY <1>5, TransferFields DEF PollExpires
  <2>2. elapsed \in Nat /\ late \in Nat /\ wait \in Int /\ since \in Nat
    BY DEF TypeOK
  <2>3. op.timeout >= 0 /\ elapsed >= op.timeout
    BY <1>5, <2>1, <2>2 DEF PollExpires, Due, TimeShape
  <2> QED BY <1>5, <2>1, <2>3 DEF PollExpires
<1>6. CASE
        \/ Return \/ WriteDone \/ EnterPoll \/ PollHangsUp \/ ReadSome
        \/ ReadNothing \/ WriteSome \/ WriteNothing \/ TransferFails \/ Flush
        \/ ResetBuffers \/ Query \/ ControlFails \/ SetSignals \/ ClearSignals
        \/ SignalsFail \/ PollInterrupted \/ TransferInterrupted
        \/ FlushInterrupted
  BY <1>6 DEF Return, WriteDone, EnterPoll, PollHangsUp, ReadSome, ReadNothing, WriteSome,
     WriteNothing, TransferFails, Flush, ResetBuffers, Query, ControlFails, SetSignals,
     ClearSignals, SignalsFail, PollInterrupted, TransferInterrupted, FlushInterrupted
<1>7. CASE Arrive \/ Drain \/ RivalReads \/ RivalWrites \/ HangUp \/ Stall \/ Tick
  BY <1>7 DEF Arrive, Drain, RivalReads, RivalWrites, HangUp, Stall, Tick
<1>8. CASE UNCHANGED vars
  BY <1>8 DEF vars
<1> QED
  BY <1>1, <1>2, <1>3, <1>4, <1>5, <1>6, <1>7, <1>8
  DEF Next, Transfer, Control, Signal, Environment

(* An empty read saw a byte that is gone, or had no time to wait.          *)
LEMMA EmptyReadsStep == IInv /\ TypeOK' /\ [Next]_vars => EmptyReadsAreExplained'
<1> SUFFICES ASSUME IInv, TypeOK', [Next]_vars PROVE EmptyReadsAreExplained'
  OBVIOUS
<1> USE DEF EmptyReadsAreExplained, CallShape, Timed, Answer, Goto, deviceVars, callVars, historyVars
<1> USE DEF IInv, Shape
<1>1. CASE BeginTransfer \/ BeginControl
  <2>1. PICK o \in Operations : Begin(o) /\ Entering(o) \in PCs
    BY <1>1, BeginsWell DEF TypeOK
  <2>2. o.kind = "read" /\ Entering(o) = "return" => o.length = 0
    BY <2>1 DEF Entering
  <2> QED BY <2>1, <2>2 DEF Begin
<1>2. CASE WriteTurn
  BY <1>2 DEF WriteTurn, PollFor
<1>3. CASE PollReady
  BY <1>3 DEF PollReady
<1>4. CASE PollExpires
  BY <1>4 DEF PollExpires
<1>5. CASE ReadSome
  <2>1. op.length \in Nat
    BY <1>5, TransferFields DEF ReadSome
  <2>2. PICK k \in 1 .. op.length : Answer("SUCCESS", k)
    BY <1>5 DEF ReadSome
  <2>3. count' # 0
    BY <2>1, <2>2
  <2> QED BY <2>3
<1>6. CASE ReadNothing
  <2>1. stolen \/ hungUp
    BY <1>6 DEF ReadNothing, ReadShape
  <2> QED BY <1>6, <2>1 DEF ReadNothing
<1>7. CASE
        \/ Return \/ WriteDone \/ WriteTooLate \/ EnterPoll \/ PollHangsUp
        \/ WriteSome \/ WriteNothing \/ TransferFails \/ Flush \/ ResetBuffers
        \/ Query \/ ControlFails \/ SetSignals \/ ClearSignals \/ SignalsFail
        \/ PollInterrupted \/ TransferInterrupted \/ FlushInterrupted
  BY <1>7 DEF Return, WriteDone, WriteTooLate, EnterPoll, PollHangsUp, WriteSome,
     WriteNothing, TransferFails, Flush, ResetBuffers, Query, ControlFails, SetSignals,
     ClearSignals, SignalsFail, PollInterrupted, TransferInterrupted, FlushInterrupted
<1>8. CASE Arrive \/ Drain \/ RivalReads \/ RivalWrites \/ HangUp \/ Stall \/ Tick
  BY <1>8 DEF Arrive, Drain, RivalReads, RivalWrites, HangUp, Stall, Tick
<1>9. CASE UNCHANGED vars
  BY <1>9 DEF vars
<1> QED
  BY <1>1, <1>2, <1>3, <1>4, <1>5, <1>6, <1>7, <1>8, <1>9
  DEF Next, Transfer, Control, Signal, Environment

(* The lines when a call answers.                                          *)
LEMMA SignalsStep == IInv /\ TypeOK' /\ [Next]_vars => SignalsAsAsked'
<1> SUFFICES ASSUME IInv, TypeOK', [Next]_vars PROVE SignalsAsAsked'
  OBVIOUS
<1> USE DEF SignalsAsAsked, CallShape, Timed, Answer, Goto, deviceVars, callVars, historyVars
<1> USE DEF IInv, Shape
<1>1. CASE BeginTransfer \/ BeginControl
  <2>1. PICK o \in Operations : Begin(o) /\ Entering(o) \in PCs
    BY <1>1, BeginsWell DEF TypeOK
  <2>2. o.kind = "signals" => Entering(o) # "return"
    BY <2>1 DEF Entering
  <2> QED BY <2>1, <2>2 DEF Begin
<1>2. CASE WriteTurn
  BY <1>2 DEF WriteTurn, PollFor
<1>3. CASE PollReady
  BY <1>3 DEF PollReady
<1>4. CASE SetSignals
  BY <1>4 DEF SetSignals
<1>5. CASE ClearSignals
  BY <1>5 DEF ClearSignals, SignalShape
<1>6. CASE SignalsFail
  BY <1>6 DEF SignalsFail, SignalShape
<1>7. CASE
        \/ Return \/ WriteDone \/ WriteTooLate \/ EnterPoll \/ PollHangsUp
        \/ PollExpires \/ ReadSome \/ ReadNothing \/ WriteSome \/ WriteNothing
        \/ TransferFails \/ Flush \/ ResetBuffers \/ Query \/ ControlFails
        \/ PollInterrupted \/ TransferInterrupted \/ FlushInterrupted
  BY <1>7 DEF Return, WriteDone, WriteTooLate, EnterPoll, PollHangsUp, PollExpires,
     ReadSome, ReadNothing, WriteSome, WriteNothing, TransferFails, Flush, ResetBuffers,
     Query, ControlFails, PollInterrupted, TransferInterrupted, FlushInterrupted
<1>8. CASE Arrive \/ Drain \/ RivalReads \/ RivalWrites \/ HangUp \/ Stall \/ Tick
  BY <1>8 DEF Arrive, Drain, RivalReads, RivalWrites, HangUp, Stall, Tick
<1>9. CASE UNCHANGED vars
  BY <1>9 DEF vars
<1> QED
  BY <1>1, <1>2, <1>3, <1>4, <1>5, <1>6, <1>7, <1>8, <1>9
  DEF Next, Transfer, Control, Signal, Environment

(* Every conjunct of the inductive invariant is kept by every step.       *)
LEMMA IInvStep == IInv /\ [Next]_vars => IInv'
<1> SUFFICES ASSUME IInv, [Next]_vars PROVE IInv'
  OBVIOUS
<1>1. TypeOK'
  BY TypeOKStep DEF IInv
<1>2. Shape'
  BY <1>1, CallShapeStep, WriteShapeStep, TimeShapeStep, ReadShapeStep, SignalShapeStep
  DEF IInv, Shape
<1>3. WrittenIsAPrefix' /\ BackInTime' /\ TimesOutInTime'
  BY <1>1, WrittenStep, BackInTimeStep, TimesOutStep
<1>4. EmptyReadsAreExplained' /\ SignalsAsAsked'
  BY <1>1, EmptyReadsStep, SignalsStep
<1> QED BY <1>1, <1>2, <1>3, <1>4 DEF IInv

(* The inductive invariant holds in every state the device and its one     *)
(* call can reach, whatever the line, its rivals and signals do.           *)
THEOREM Invariance == Spec => []IInv
BY InitIInv, IInvStep, PTL DEF Spec

(* For every queue, buffer and timeout, the port's state and the call's    *)
(* local state keep their types: a count is never negative.                *)
THEOREM TypeCorrect == Spec => []TypeOK
<1>1. IInv => TypeOK
  BY DEF IInv
<1> QED BY <1>1, Invariance, PTL

(* serial_port_write_with_timeout reports exactly the bytes the tty took,  *)
(* however often it was interrupted, refused or cut short.                 *)
THEOREM WritesAreExact == Spec => []WrittenIsAPrefix
<1>1. IInv => WrittenIsAPrefix
  BY DEF IInv
<1> QED BY <1>1, Invariance, PTL

(* A timed read or write overruns its timeout only by time in which it was *)
(* not scheduled and by polls that a signal interrupted.                   *)
THEOREM DeadlinesAreKept == Spec => []BackInTime
<1>1. IInv => BackInTime
  BY DEF IInv
<1> QED BY <1>1, Invariance, PTL

(* -ETIMEDOUT is never early, and never the answer of a call that waits    *)
(* for ever or of a read that only looks; a write with timeout 0 is not    *)
(* spoken of.                                                              *)
THEOREM TimeoutsAreTrue == Spec => []TimesOutInTime
<1>1. IInv => TimesOutInTime
  BY DEF IInv
<1> QED BY <1>1, Invariance, PTL

(* A read with a timeout that answers with success and no byte lost its    *)
(* byte to another process or its device.                                  *)
THEOREM EmptyReadsExplained == Spec => []EmptyReadsAreExplained
<1>1. IInv => EmptyReadsAreExplained
  BY DEF IInv
<1> QED BY <1>1, Invariance, PTL

(* serial_port_set_control_signals changes the lines it was asked to       *)
(* change, or says that it did not.                                        *)
THEOREM SignalsFollow == Spec => []SignalsAsAsked
<1>1. IInv => SignalsAsAsked
  BY DEF IInv
<1> QED BY <1>1, Invariance, PTL

=============================================================================
