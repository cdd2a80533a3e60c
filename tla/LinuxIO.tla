------------------------------- MODULE LinuxIO -------------------------------
(***************************************************************************)
(* linux/serial_port.c: reading, writing and controlling one open port.    *)
(*                                                                         *)
(* The descriptor does not block; poll(2) does the waiting.  A write goes  *)
(* round a loop: what is left of its time, poll, write a part.  Around it  *)
(* the line takes bytes or stops taking them, bytes arrive, another        *)
(* process uses the same tty, signals interrupt poll, the device hangs up, *)
(* and the thread is not always scheduled when it could run.               *)
(*                                                                         *)
(* Calls on a port follow one another (the manager holds its mutex around  *)
(* them, see LinuxPortManager), and a port in the manager is open.         *)
(***************************************************************************)
EXTENDS Integers, Sequences

CONSTANTS
    Lengths,        \* lengths of the buffers read and written
    Timeouts,       \* timeouts in milliseconds
    Capacity,       \* the room of the tty's output queue
    Lines,          \* the modem lines a caller can set
    MaxCalls,       \* bounds: the calls made,
    MaxSignals,     \* the signals that interrupt a call,
    MaxStalls,      \* the milliseconds in which the thread could run and does not,
    MaxRivals,      \* the bytes another process reads or writes,
    MaxArrivals     \* the bytes received

ASSUME LengthsAssumption == Lengths \subseteq Nat
ASSUME TimeoutsAssumption == Timeouts \subseteq Nat
ASSUME CapacityAssumption == Capacity \in Nat \ {0}
ASSUME LimitsAssumption ==
    {MaxCalls, MaxSignals, MaxStalls, MaxRivals, MaxArrivals} \subseteq Nat

VARIABLES
    room,       \* free places in the output queue
    input,      \* received bytes that wait in the tty
    modem,      \* the modem lines that are on
    hungUp,     \* the device is gone
    configured, \* the timeouts of port->config; nothing checks them
    left,       \* what may still happen, within the bounds
    pc,         \* where the call is
    op,         \* the call; its timeout is the one in force
    wait,       \* the timeout given to poll
    since,      \* when poll was entered
    total,      \* total_written
    count,      \* *bytes_written, *bytes_read or *bytes_available
    ret,        \* the error code
    elapsed,    \* milliseconds since the call began
    late,       \* of these, when the thread could run or poll was started over
    sent,       \* the places of the buffer whose bytes the tty took, in order
    before,     \* modem when the call began
    stolen      \* another process took input during the call

deviceVars  == <<room, input, modem, hungUp, configured>>
(* A negative timeout stands for the configured one, and that one may be   *)
(* negative: poll then waits for ever.                                     *)
Forever == -1

callVars    == <<pc, op, wait, since, total, count, ret>>
historyVars == <<elapsed, late, sent, before, stolen>>
vars == <<deviceVars, left, callVars, historyVars>>

Operations ==
         [kind : {"read", "write"}, length : Nat, timeout : Int]
    \cup [kind : {"flush", "reset", "query"}]
    \cup [kind : {"signals"}, set : SUBSET Lines, clear : SUBSET Lines]

NoOperation == [kind |-> "none"]

Timed == op.kind \in {"read", "write"}

Answers == {"SUCCESS", "EIO", "EINTR", "ETIMEDOUT"}

PCs == {"idle", "turn", "wait", "poll", "read", "write", "flush", "reset", "query",
        "set", "clear", "return"}

Init ==
    /\ room = Capacity
    /\ input = 0
    /\ modem = {}
    /\ hungUp = FALSE
    /\ configured \in Timeouts \cup {Forever}
    /\ left = [calls |-> MaxCalls, signals |-> MaxSignals, stalls |-> MaxStalls,
                rivals |-> MaxRivals, arrivals |-> MaxArrivals]
    /\ pc = "idle"
    /\ op = NoOperation
    /\ wait = 0
    /\ since = 0
    /\ total = 0
    /\ count = 0
    /\ ret = "SUCCESS"
    /\ elapsed = 0
    /\ late = 0
    /\ sent = <<>>
    /\ before = {}
    /\ stolen = FALSE

May(what) == left[what] > 0 /\ left' = [left EXCEPT ![what] = @ - 1]

-----------------------------------------------------------------------------
(* A call begins.                                                          *)
InForce(timeout) == IF timeout < 0 THEN configured ELSE timeout

Entering(o) ==
    CASE o.kind = "read"    -> IF o.length = 0 THEN "return" ELSE "wait"
      [] o.kind = "write"   -> "turn"
      [] o.kind = "signals" -> "set"
      [] OTHER              -> o.kind

Begin(o) ==
    /\ pc = "idle"
    /\ May("calls")
    /\ op' = o
    /\ pc' = Entering(o)
    /\ wait' = IF o.kind = "read" THEN o.timeout ELSE 0
    /\ since' = 0 /\ total' = 0 /\ count' = 0 /\ ret' = "SUCCESS"
    /\ elapsed' = 0 /\ late' = 0 /\ sent' = <<>> /\ before' = modem /\ stolen' = FALSE
    /\ UNCHANGED deviceVars

BeginTransfer ==
    \E kind \in {"read", "write"}, n \in Lengths, timeout \in Timeouts \cup {Forever} :
        Begin([kind |-> kind, length |-> n, timeout |-> InForce(timeout)])

BeginControl ==
    \/ \E kind \in {"flush", "reset", "query"} : Begin([kind |-> kind])
    \/ \E on, off \in SUBSET Lines : Begin([kind |-> "signals", set |-> on, clear |-> off])

Goto(l) == pc' = l /\ UNCHANGED <<op, wait, since, total, count, ret>>

Answer(code, n) ==
    /\ pc' = "return"
    /\ ret' = code
    /\ count' = n
    /\ UNCHANGED <<op, wait, since, total>>

Return ==
    /\ pc = "return"
    /\ Goto("idle")
    /\ UNCHANGED <<deviceVars, left, historyVars>>

-----------------------------------------------------------------------------
(* The top of the loop of a write.  deadline_ms is the timeout after the   *)
(* time the call began.                                                    *)
Remaining == op.timeout - elapsed

WriteDone ==
    /\ pc = "turn"
    /\ total >= op.length
    /\ Answer("SUCCESS", total)
    /\ UNCHANGED <<deviceVars, left, historyVars>>

WriteTooLate ==
    /\ pc = "turn"
    /\ total < op.length
    /\ op.timeout > 0 /\ Remaining <= 0
    /\ Answer("ETIMEDOUT", total)
    /\ UNCHANGED <<deviceVars, left, historyVars>>

PollFor(ms) ==
    /\ wait' = ms
    /\ pc' = "wait"
    /\ UNCHANGED <<op, since, total, count, ret>>

(* Mutant: every turn waits for the whole timeout.                         *)
WriteTurnWhole ==
    /\ pc = "turn"
    /\ total < op.length
    /\ op.timeout > 0 => Remaining > 0
    /\ PollFor(op.timeout)
    /\ UNCHANGED <<deviceVars, left, historyVars>>

(* Mutant: nothing looks whether there is time left.                       *)
WriteTurnUnchecked ==
    /\ pc = "turn"
    /\ total < op.length
    /\ PollFor(IF op.timeout > 0 THEN Remaining ELSE op.timeout)
    /\ UNCHANGED <<deviceVars, left, historyVars>>

WriteTurn ==
    /\ pc = "turn"
    /\ total < op.length
    /\ op.timeout > 0 => Remaining > 0
    /\ PollFor(IF op.timeout > 0 THEN Remaining ELSE op.timeout)
    /\ UNCHANGED <<deviceVars, left, historyVars>>

-----------------------------------------------------------------------------
(* serial_wait_for_fd.                                                     *)
Ready == IF op.kind = "read" THEN input > 0 ELSE room > 0

Due == wait >= 0 /\ elapsed >= since + wait

EnterPoll ==
    /\ pc = "wait"
    /\ pc' = "poll"
    /\ since' = elapsed
    /\ UNCHANGED <<op, wait, total, count, ret, deviceVars, left, historyVars>>

PollReady ==
    /\ pc = "poll"
    /\ Ready /\ ~hungUp
    /\ Goto(op.kind)
    /\ UNCHANGED <<deviceVars, left, historyVars>>

(* POLLHUP goes before POLLIN: bytes that wait are not read any more.      *)
PollHangsUp ==
    /\ pc = "poll"
    /\ hungUp
    /\ Answer("EIO", total)
    /\ UNCHANGED <<deviceVars, left, historyVars>>

(* Mutant: a read that timed out is an empty read, whatever its timeout.   *)
PollExpiresEmpty ==
    /\ pc = "poll"
    /\ Due /\ ~Ready /\ ~hungUp
    /\ Answer(IF op.kind = "read" THEN "SUCCESS" ELSE "ETIMEDOUT", total)
    /\ UNCHANGED <<deviceVars, left, historyVars>>

PollExpires ==
    /\ pc = "poll"
    /\ Due /\ ~Ready /\ ~hungUp
    /\ Answer(IF op.kind = "read" /\ op.timeout = 0 THEN "SUCCESS" ELSE "ETIMEDOUT", total)
    /\ UNCHANGED <<deviceVars, left, historyVars>>

(* Mutant: a signal ends the wait.                                         *)
PollInterruptedEnds ==
    /\ pc = "poll"
    /\ ~Ready /\ ~hungUp
    /\ May("signals")
    /\ Answer("ETIMEDOUT", total)
    /\ UNCHANGED <<deviceVars, historyVars>>

(* EINTR: poll is started over with the same timeout.                      *)
PollInterrupted ==
    /\ pc = "poll"
    /\ ~Ready /\ ~hungUp
    /\ May("signals")
    /\ Goto("wait")
    /\ late' = late + (elapsed - since)
    /\ UNCHANGED <<deviceVars, elapsed, sent, before, stolen>>

-----------------------------------------------------------------------------
(* read(2) and write(2).                                                   *)
ReadSome ==
    /\ pc = "read"
    /\ \E k \in 1 .. op.length :
          /\ k <= input
          /\ input' = input - k
          /\ Answer("SUCCESS", k)
    /\ UNCHANGED <<room, modem, hungUp, configured, left, historyVars>>

(* Mutant: the result is stored before it is looked at.                    *)
ReadNothingStored ==
    /\ pc = "read"
    /\ input = 0 \/ hungUp
    /\ Answer("SUCCESS", -1)
    /\ UNCHANGED <<deviceVars, left, historyVars>>

(* EAGAIN or nothing: another process was faster, or the device is gone.   *)
ReadNothing ==
    /\ pc = "read"
    /\ input = 0 \/ hungUp
    /\ Answer("SUCCESS", 0)
    /\ UNCHANGED <<deviceVars, left, historyVars>>

(* Mutant: every turn begins at the start of the buffer.                   *)
WriteSomeAgain ==
    /\ pc = "write"
    /\ ~hungUp
    /\ \E k \in 1 .. op.length - total :
          /\ k <= room
          /\ room' = room - k
          /\ total' = total + k
          /\ sent' = sent \o [i \in 1 .. k |-> i]
    /\ pc' = "turn"
    /\ UNCHANGED <<op, wait, since, count, ret, input, modem, hungUp, configured, left,
                   elapsed, late, before, stolen>>

WriteSome ==
    /\ pc = "write"
    /\ ~hungUp
    /\ \E k \in 1 .. op.length - total :
          /\ k <= room
          /\ room' = room - k
          /\ total' = total + k
          /\ sent' = sent \o [i \in 1 .. k |-> total + i]
    /\ pc' = "turn"
    /\ UNCHANGED <<op, wait, since, count, ret, input, modem, hungUp, configured, left,
                   elapsed, late, before, stolen>>

(* EAGAIN: another process filled the queue.                               *)
WriteNothing ==
    /\ pc = "write"
    /\ room = 0 /\ ~hungUp
    /\ Goto("turn")
    /\ UNCHANGED <<deviceVars, left, historyVars>>

(* EINTR from read or write.                                               *)
TransferInterrupted ==
    /\ pc \in {"read", "write"}
    /\ May("signals")
    /\ Goto(IF pc = "read" THEN "read" ELSE "turn")
    /\ UNCHANGED <<deviceVars, historyVars>>

(* An error, or a write that takes nothing and does not say why.           *)
TransferFails ==
    /\ pc \in {"read", "write"}
    /\ hungUp \/ pc = "write"
    /\ Answer("EIO", total)
    /\ UNCHANGED <<deviceVars, left, historyVars>>

-----------------------------------------------------------------------------
(* tcdrain waits until the line has taken everything; it has no timeout    *)
(* and is not started over.                                                *)
Flush ==
    /\ pc = "flush"
    /\ room = Capacity /\ ~hungUp
    /\ Answer("SUCCESS", 0)
    /\ UNCHANGED <<deviceVars, left, historyVars>>

FlushInterrupted ==
    /\ pc = "flush"
    /\ May("signals")
    /\ Answer("EINTR", 0)
    /\ UNCHANGED <<deviceVars, historyVars>>

(* tcflush drops what was received and what was written but not sent.      *)
ResetBuffers ==
    /\ pc = "reset"
    /\ ~hungUp
    /\ input' = 0
    /\ room' = Capacity
    /\ Answer("SUCCESS", 0)
    /\ UNCHANGED <<modem, hungUp, configured, left, historyVars>>

(* FIONREAD, or TIOCMGET, whose answer is modem.                           *)
Query ==
    /\ pc = "query"
    /\ ~hungUp
    /\ Answer("SUCCESS", input)
    /\ UNCHANGED <<deviceVars, left, historyVars>>

ControlFails ==
    /\ pc \in {"flush", "reset", "query"}
    /\ hungUp
    /\ Answer("EIO", 0)
    /\ UNCHANGED <<deviceVars, left, historyVars>>

(* serial_port_set_control_signals: TIOCMBIS, then TIOCMBIC, each only     *)
(* when it has something to do.  Drivers may refuse either.                *)
SetSignals ==
    /\ pc = "set"
    /\ hungUp => op.set = {}
    /\ modem' = modem \cup op.set
    /\ Goto("clear")
    /\ UNCHANGED <<room, input, hungUp, configured, left, historyVars>>

(* Mutant: a failure to clear lines is ignored.                            *)
ClearSignalsRegardless ==
    /\ pc = "clear"
    /\ modem' = IF hungUp THEN modem ELSE modem \ op.clear
    /\ Answer("SUCCESS", 0)
    /\ UNCHANGED <<room, input, hungUp, configured, left, historyVars>>

ClearSignals ==
    /\ pc = "clear"
    /\ hungUp => op.clear = {}
    /\ modem' = modem \ op.clear
    /\ Answer("SUCCESS", 0)
    /\ UNCHANGED <<room, input, hungUp, configured, left, historyVars>>

SignalsFail ==
    /\ \/ pc = "set" /\ op.set # {}
       \/ pc = "clear" /\ op.clear # {}
    /\ Answer("EIO", 0)
    /\ UNCHANGED <<deviceVars, left, historyVars>>

-----------------------------------------------------------------------------
(* The world around the call.                                              *)
Arrive ==
    /\ ~hungUp
    /\ May("arrivals")
    /\ input' = input + 1
    /\ UNCHANGED <<room, modem, hungUp, configured, callVars, historyVars>>

Drain ==
    /\ ~hungUp
    /\ room < Capacity
    /\ room' = room + 1
    /\ UNCHANGED <<input, modem, hungUp, configured, left, callVars, historyVars>>

(* Another process reads or writes the tty: nothing keeps it away.         *)
RivalReads ==
    /\ May("rivals")
    /\ input > 0
    /\ input' = input - 1
    /\ stolen' = TRUE
    /\ UNCHANGED <<room, modem, hungUp, configured, callVars, elapsed, late, sent, before>>

RivalWrites ==
    /\ May("rivals")
    /\ room > 0
    /\ room' = room - 1
    /\ UNCHANGED <<input, modem, hungUp, configured, callVars, historyVars>>

HangUp ==
    /\ ~hungUp
    /\ hungUp' = TRUE
    /\ UNCHANGED <<room, input, modem, configured, left, callVars, historyVars>>

(* A millisecond passes in poll.                                           *)
Tick ==
    /\ pc = "poll"
    /\ wait >= 0 /\ ~Due /\ ~Ready /\ ~hungUp
    /\ elapsed' = elapsed + 1
    /\ UNCHANGED <<deviceVars, left, callVars, late, sent, before, stolen>>

(* A millisecond passes while the thread could run.                        *)
Stall ==
    /\ Timed
    /\ pc \notin {"idle", "return"}
    /\ pc = "poll" => Due \/ Ready \/ hungUp
    /\ May("stalls")
    /\ elapsed' = elapsed + 1
    /\ late' = late + 1
    /\ UNCHANGED <<deviceVars, callVars, sent, before, stolen>>

-----------------------------------------------------------------------------
Transfer ==
    \/ WriteDone \/ WriteTooLate \/ WriteTurn
    \/ EnterPoll \/ PollReady \/ PollHangsUp \/ PollExpires
    \/ ReadSome \/ ReadNothing \/ WriteSome \/ WriteNothing \/ TransferFails

Control ==
    \/ Flush \/ ResetBuffers \/ Query \/ ControlFails
    \/ SetSignals \/ ClearSignals \/ SignalsFail

Signal == PollInterrupted \/ TransferInterrupted \/ FlushInterrupted

Environment == Arrive \/ Drain \/ RivalReads \/ RivalWrites \/ HangUp \/ Stall

Next ==
    \/ BeginTransfer \/ BeginControl \/ Return
    \/ Transfer \/ Control \/ Signal
    \/ Environment \/ Tick

Spec == Init /\ [][Next]_vars

(* The thread runs and time passes.  Nothing makes the line take bytes.    *)
FairSpec == Spec /\ WF_vars(Transfer \/ Control \/ Return) /\ WF_vars(Tick)

-----------------------------------------------------------------------------
(* Types.                                                                  *)
TypeOK ==
    /\ room \in 0 .. Capacity
    /\ input \in Nat
    /\ modem \subseteq Lines
    /\ hungUp \in BOOLEAN
    /\ configured \in Int
    /\ left \in [calls : Nat, signals : Nat, stalls : Nat, rivals : Nat, arrivals : Nat]
    /\ pc \in PCs
    /\ op \in Operations \cup {NoOperation}
    /\ wait \in Int
    /\ since \in Nat
    /\ total \in Nat
    /\ count \in Nat
    /\ ret \in Answers
    /\ elapsed \in Nat
    /\ late \in Nat
    /\ sent \in Seq(Nat)
    /\ before \subseteq Lines
    /\ stolen \in BOOLEAN

(* What a write reports is what the tty took: the first *bytes_written     *)
(* bytes of the buffer, each once and in order, after whatever EAGAIN,     *)
(* EINTR and short counts; and it reports success exactly when that is the *)
(* whole buffer.                                                           *)
WrittenIsAPrefix ==
    pc = "return" /\ op.kind = "write" =>
        /\ sent = [i \in 1 .. count |-> i]
        /\ ret = "SUCCESS" <=> count = op.length

(* A read or a write with a timeout is over when its timeout is, but for   *)
(* the time its thread was not scheduled and the polls that a signal made  *)
(* it start over (EINTR starts poll over with the whole timeout).          *)
BackInTime ==
    pc # "idle" /\ Timed /\ op.timeout >= 0 => elapsed <= op.timeout + late

(* No call reports ETIMEDOUT before its time, one that waits for ever      *)
(* never does, and a read that only looks (timeout 0) is not an error.     *)
(* Excepted is a write with timeout 0, which reports it at once when the   *)
(* queue is full: see ZeroMeansNoTimeout.                                  *)
TimesOutInTime ==
    pc = "return" /\ ret = "ETIMEDOUT" =>
        \/ op.timeout > 0 /\ elapsed >= op.timeout
        \/ op.timeout = 0 /\ op.kind = "write"

(* What lib/src/models/serial_config.dart says of both timeouts ("0 = no   *)
(* timeout"): a call with timeout 0 does not time out.  A write does.      *)
ZeroMeansNoTimeout ==
    pc = "return" /\ Timed /\ op.timeout = 0 => ret # "ETIMEDOUT"

(* A read that waits does not come back empty, unless another process took *)
(* the byte it saw or the device went away: "no data" is an error then.    *)
EmptyReadsAreExplained ==
    pc = "return" /\ op.kind = "read" /\ ret = "SUCCESS" /\ count = 0 =>
        op.length = 0 \/ op.timeout = 0 \/ stolen \/ hungUp

(* Lines are changed as asked when the call succeeds, to those set but not *)
(* cleared at worst when it fails.                                         *)
SignalsAsAsked ==
    pc = "return" /\ op.kind = "signals" =>
        IF ret = "SUCCESS" THEN modem = (before \cup op.set) \ op.clear
                           ELSE modem \in {before, before \cup op.set}

(* A call with a timeout returns, also when the line never takes a byte.   *)
TimedCallsReturn ==
    pc # "idle" /\ Timed /\ op.timeout >= 0 ~> pc = "idle"

-----------------------------------------------------------------------------
(* The inductive invariant: what is so in the middle of a call.            *)

(* Where a call is says which kind of call it is.                          *)
CallShape ==
    /\ pc # "idle" => op \in Operations
    /\ pc \in {"turn", "write"} => op.kind = "write"
    /\ pc \in {"wait", "poll"} => Timed
    /\ pc = "read" => op.kind = "read"
    /\ pc \in {"set", "clear"} => op.kind = "signals"
    /\ pc \in {"flush", "reset", "query"} => op.kind = pc
    /\ ret = "ETIMEDOUT" /\ pc = "return" => Timed

(* What the tty took so far is the first total bytes of the buffer.        *)
WriteShape ==
    pc # "idle" /\ op.kind = "write" =>
        /\ total <= op.length
        /\ sent = [i \in 1 .. total |-> i]
        /\ pc \in {"wait", "poll", "write"} => total < op.length

(* The wait that poll is given, or is in, ends with the call's timeout, up *)
(* to the time that was lost; and not before.                              *)
TimeShape ==
    /\ pc \in {"wait", "poll"} => (wait >= 0 <=> op.timeout >= 0)
    /\ pc = "wait" /\ wait >= 0 =>
           op.timeout <= elapsed + wait /\ elapsed + wait <= op.timeout + late
    /\ pc = "poll" => since <= elapsed
    /\ pc = "poll" /\ wait >= 0 =>
           op.timeout <= since + wait /\ since + wait <= op.timeout + late

(* A read that was told that there is input finds it, or an explanation.   *)
ReadShape ==
    /\ pc \in {"wait", "poll", "read"} /\ op.kind = "read" => total = 0 /\ op.length > 0
    /\ pc = "read" => input > 0 \/ stolen \/ hungUp

(* Between the two ioctls the lines to be set are set.                     *)
SignalShape ==
    /\ pc = "set" => modem = before
    /\ pc = "clear" => modem = before \cup op.set

Shape == CallShape /\ WriteShape /\ TimeShape /\ ReadShape /\ SignalShape

IInv ==
    /\ TypeOK /\ Shape
    /\ WrittenIsAPrefix /\ BackInTime /\ TimesOutInTime
    /\ EmptyReadsAreExplained /\ SignalsAsAsked

=============================================================================
