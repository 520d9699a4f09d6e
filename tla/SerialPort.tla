------------------------------ MODULE SerialPort ------------------------------
(***************************************************************************)
(* The serial port of the Coin D4 lidar: SerialPort and how the handler    *)
(* opens, closes and reads it.  The handler joins its threads before it    *)
(* closes the port, so one call runs at a time (LidarHandler); the         *)
(* environment is the tty: bytes arrive and leave, the cable is unplugged, *)
(* a signal interrupts a system call.                                      *)
(*                                                                         *)
(* Time is counted in ticks and passes only where a call sleeps or blocks; *)
(* system calls that do neither take none.  Bytes are counted, not named.  *)
(***************************************************************************)
EXTENDS Integers, FiniteSetsExt

CONSTANTS
    Wants,          \* byte counts that are waited for
    Timeouts,       \* and for how many ticks
    ByteTicks,      \* 1000000 * 8 / baudrate_: what waitForData takes for a byte
    MaxInput,       \* the tty's buffers, in bytes
    MaxOutput,
    CommandLength,  \* start_lidar, end_lidar: 4 bytes
    Parities, StopBits, FlowControls,   \* configurations of the port
    Leftovers,      \* flags that the last user of the tty may have left
    MaxDescriptors  \* bound: descriptors that are open at a time

\* The call of open() that fails, once the tty is open; "readBack" is the one
\* that reads the baud rate back after it was set.
Failures == {"getTermios", "setTermios", "setBaudrate", "readBack", "nothing"}

Flags == {"ICANON", "PARENB", "PARODD", "CMSPAR", "CSTOPB", "CRTSCTS", "IXON"}

ASSUME SerialAssumption ==
    /\ Wants \subseteq Nat \ {0} /\ Timeouts \subseteq Nat
    /\ ByteTicks \in Nat \ {0} /\ MaxInput \in Nat /\ MaxOutput \in Nat \ {0}
    /\ CommandLength \in Nat \ {0} /\ MaxDescriptors \in Nat \ {0}
    /\ Parities \subseteq {"none", "even", "odd", "mark", "space"}
    /\ StopBits \subseteq {"one", "two"}
    /\ FlowControls \subseteq {"none", "hardware", "software"}
    /\ Leftovers \subseteq SUBSET Flags

VARIABLES
    config,       \* what the constructor of SerialPort was given
    leftover,     \* history: the flags of the tty before anything was opened
    line,         \* the tty's termios: its flags, size and baud rate
    descriptors,  \* open descriptors of the process that refer to the tty
    fd,           \* fd_; 0 stands for -1
    is_open,      \* is_open_
    plugged,      \* the device is there
    input,        \* bytes waiting to be read
    room,         \* bytes the output buffer takes
    call,         \* the call that runs: where it is and its local variables
    last,         \* the latest result
    promised      \* history: bytes waitForData said were there, unread since

ttyVars  == <<plugged, input, room>>
portVars == <<config, leftover, line, descriptors, fd, is_open>>
vars == <<portVars, ttyVars, call, last, promised>>

NoCall == [pc |-> "none"]
NoWait == [op |-> "none"]
Idle   == call = NoCall

-----------------------------------------------------------------------------
(* The settings.                                                           *)

With(tio, on, off) == [tio EXCEPT !.flags = (@ \ off) \cup on]

\* set_common_props: cfmakeraw, and VMIN and VTIME are zero.
set_common_props(tio) == [With(tio, {}, {"ICANON", "PARENB", "IXON"}) EXCEPT !.size = 8]

set_databits(tio, databits) == [tio EXCEPT !.size = databits]

set_parity(tio, parity) ==
    CASE parity = "none"  -> With(tio, {}, {"PARENB"})
      [] parity = "even"  -> With(tio, {"PARENB"}, {"PARODD"})
      [] parity = "odd"   -> With(tio, {"PARENB", "PARODD"}, {})
      [] parity = "mark"  -> With(tio, {"PARENB", "PARODD", "CMSPAR"}, {})
      [] parity = "space" -> With(tio, {"PARENB", "CMSPAR"}, {"PARODD"})

set_stopbits(tio, stopbits) ==
    IF stopbits = "two" THEN With(tio, {"CSTOPB"}, {}) ELSE With(tio, {}, {"CSTOPB"})

set_flowcontrol(tio, flowcontrol) ==
    CASE flowcontrol = "none"     -> With(tio, {}, {"CRTSCTS", "IXON"})
      [] flowcontrol = "hardware" -> With(tio, {"CRTSCTS"}, {"IXON"})
      [] flowcontrol = "software" -> With(tio, {"IXON"}, {"CRTSCTS"})

Settings(tio) ==
    set_flowcontrol(
        set_stopbits(
            set_parity(
                set_databits(set_common_props(tio), config.databits),
                config.parity),
            config.stopbits),
        config.flowcontrol)

-----------------------------------------------------------------------------
(* open and close.                                                         *)

Init ==
    /\ config \in [databits : {8}, parity : Parities, stopbits : StopBits,
                   flowcontrol : FlowControls]
    /\ leftover \in Leftovers
    /\ line = [flags |-> leftover, size |-> 7, baud |-> "other"]
    /\ descriptors = {} /\ fd = 0 /\ is_open = FALSE
    /\ plugged = TRUE /\ input = 0 /\ room = MaxOutput
    /\ call = NoCall /\ last = NoWait /\ promised = 0

Forget == last' = NoWait /\ promised' = 0

\* What the steps of open() before the one that fails did to the line and to
\* the input, which tcflush empties.
Configured(failing) ==
    CASE failing \in {"getTermios", "setTermios"} -> line
      [] failing = "setBaudrate" -> Settings(line)
      [] failing \in {"readBack", "nothing"} -> [Settings(line) EXCEPT !.baud = "baudrate_"]

Flushed(failing) == IF failing = "getTermios" THEN input ELSE 0

OpenFails ==
    /\ Idle /\ ~is_open
    /\ fd' = 0
    /\ Forget
    /\ UNCHANGED <<config, leftover, line, descriptors, is_open, ttyVars, call>>

\* init_lidar_port: a new SerialPort object, and open() up to the system call
\* that fails.  The close() of its error paths does nothing, since is_open_ is
\* not set yet: the descriptor stays.
OpenBeforeBaudrate(failing, descriptor) ==                         \* mutant
    /\ Idle /\ ~is_open /\ plugged
    /\ descriptor \notin descriptors
    /\ fd' = descriptor /\ descriptors' = descriptors \cup {descriptor}
    /\ is_open' = (failing \in {"setBaudrate", "nothing"})
    /\ line' = Configured(failing) /\ input' = Flushed(failing)
    /\ Forget
    /\ UNCHANGED <<config, leftover, plugged, room, call>>
Open(failing, descriptor) ==
    /\ Idle /\ ~is_open /\ plugged
    /\ descriptor \notin descriptors
    /\ fd' = descriptor /\ descriptors' = descriptors \cup {descriptor}
    /\ is_open' = (failing = "nothing")
    /\ line' = Configured(failing) /\ input' = Flushed(failing)
    /\ Forget
    /\ UNCHANGED <<config, leftover, plugged, room, call>>

\* close(), from the handler's destructor.
Close ==
    /\ Idle /\ is_open
    /\ descriptors' = descriptors \ {fd} /\ fd' = 0 /\ is_open' = FALSE
    /\ Forget
    /\ UNCHANGED <<config, leftover, line, ttyVars, call>>

-----------------------------------------------------------------------------
(* waitForData.                                                            *)

\* The call returns; "late" is how long after its time was up.
WaitReturns(result, want, timeout, left, interrupted) ==
    /\ call' = NoCall
    /\ last' = [op |-> "wait", result |-> result, want |-> want, timeout |-> timeout,
                late |-> -left, interrupted |-> interrupted]
    /\ promised' = IF result = "OK" THEN want ELSE 0
    /\ UNCHANGED <<portVars, ttyVars>>

EnoughButOne(want) == input + 1 >= want                            \* mutant
Enough(want)       == input >= want

\* FIONREAD fails once the device is gone.
WaitForData(want, timeout) ==
    /\ Idle
    /\ \/ /\ ~is_open \/ ~plugged
          /\ WaitReturns("FAIL", want, timeout, timeout, FALSE)
       \/ /\ is_open /\ plugged /\ Enough(want)
          /\ WaitReturns("OK", want, timeout, timeout, FALSE)
       \/ /\ is_open /\ plugged /\ ~Enough(want)
          /\ call' = [pc |-> "loop", want |-> want, timeout |-> timeout,
                      left |-> timeout, known |-> 0, sleep |-> 0]
          /\ last' = NoWait /\ promised' = 0
          /\ UNCHANGED <<portVars, ttyVars>>

GoTo(pc) ==
    /\ call' = [call EXCEPT !.pc = pc,
                            !.known = IF pc = "select" THEN call.left ELSE @]
    /\ UNCHANGED <<portVars, ttyVars, last, promised>>

Returns(result, interrupted) ==
    WaitReturns(result, call.want, call.timeout, call.left, interrupted)

\* The head of the loop; the remaining time is taken once, before pselect.
LoopRestartsTimer ==                                               \* mutant
    /\ call.pc = "loop"
    /\ call' = [call EXCEPT !.pc = "select", !.left = call.timeout, !.known = call.timeout]
    /\ UNCHANGED <<portVars, ttyVars, last, promised>>
Loop ==
    /\ call.pc = "loop"
    /\ \/ call.left <= 0 /\ Returns("TIMEOUT", FALSE)
       \/ call.left > 0 /\ GoTo("select")

\* After a wake-up with too few bytes: the sleep is what the rest takes on the
\* line, when there was more time than that before pselect; else the loop runs
\* again at once, and again, which takes a tick each time.
SleepUnchecked(missing) == ByteTicks * missing                     \* mutant
SleepFor(missing) ==
    IF call.known > ByteTicks * missing THEN ByteTicks * missing ELSE 1

Readable == input > 0 \/ ~plugged

SelectReturns ==
    /\ call.pc = "select"
    /\ \/ Returns("TIMEOUT", TRUE)                         \* EINTR
       \/ ~Readable /\ call.left <= 0 /\ Returns("TIMEOUT", FALSE)
       \/ ~plugged /\ Returns("FAIL", FALSE)               \* FIONREAD fails
       \/ plugged /\ Enough(call.want) /\ Returns("OK", FALSE)
       \/ /\ Readable /\ ~Enough(call.want)
          /\ call' = [call EXCEPT !.pc = "sleep", !.sleep = SleepFor(call.want - input)]
          /\ UNCHANGED <<portVars, ttyVars, last, promised>>

WakeUp == call.pc = "sleep" /\ call.sleep <= 0 /\ GoTo("loop")

-----------------------------------------------------------------------------
(* available, read_data and write_data.  A local "Timeout timeout_" hides  *)
(* the member that the handler set to two seconds: all its fields are 0.   *)

\* read_data reads once; then the time is up.
ReadData(size) ==
    /\ Idle /\ is_open
    /\ LET got == IF plugged THEN Min({size, input}) ELSE 0
       IN  /\ last' = [op |-> "read", size |-> size, got |-> got, promised |-> promised]
           /\ input' = IF plugged THEN input - got ELSE 0
    /\ promised' = 0
    /\ UNCHANGED <<portVars, plugged, room, call>>

WriteReturns(written) ==
    /\ room' = room - written
    /\ call' = NoCall
    /\ last' = [op |-> "write", written |-> written]
    /\ UNCHANGED <<portVars, plugged, input, promised>>

\* The write after a successful pselect; the time is up for a second round.
Writable == IF plugged THEN Min({CommandLength, room}) ELSE 0

\* write_data: pselect polls with time zero.  If a millisecond went by since
\* the timer was set, the remaining time is -1, which timespec_from_ms takes
\* for 2^32 - 1 ms: pselect then blocks while there is no room.
WriteData ==
    /\ Idle /\ is_open
    /\ \/ WriteReturns(Writable)
       \/ WriteReturns(0)                                  \* EINTR
       \/ /\ plugged /\ room = 0
          /\ call' = [pc |-> "blocked"]
          /\ last' = NoWait
          /\ UNCHANGED <<portVars, ttyVars, promised>>

Unblock ==
    /\ call.pc = "blocked"
    /\ \/ (room > 0 \/ ~plugged) /\ WriteReturns(Writable)
       \/ WriteReturns(0)                                  \* EINTR

-----------------------------------------------------------------------------
(* The tty and time.                                                       *)

Tty(in, out) ==
    /\ plugged
    /\ input' = in /\ room' = out
    /\ UNCHANGED <<portVars, plugged, call, last, promised>>

Arrive == input < MaxInput /\ is_open /\ Tty(input + 1, room)
Drain  == room < MaxOutput /\ Tty(input, room + 1)

Unplug ==
    /\ plugged /\ plugged' = FALSE
    /\ promised' = 0
    /\ UNCHANGED <<portVars, input, room, call, last>>

Tick ==
    /\ \/ call.pc = "select" /\ ~Readable /\ call.left > 0
       \/ call.pc = "sleep" /\ call.sleep > 0
    /\ call' = [call EXCEPT !.left = @ - 1, !.sleep = @ - 1]
    /\ UNCHANGED <<portVars, ttyVars, last, promised>>

Steps == Loop \/ SelectReturns \/ WakeUp

Next ==
    \/ OpenFails
    \/ \E failing \in Failures, descriptor \in 1 .. MaxDescriptors : Open(failing, descriptor)
    \/ Close
    \/ \E want \in Wants : ReadData(want) \/ \E timeout \in Timeouts : WaitForData(want, timeout)
    \/ WriteData \/ Unblock
    \/ Steps \/ Tick
    \/ Arrive \/ Drain \/ Unplug

Spec == Init /\ [][Next]_vars

\* A thread that can go on without a signal goes on, time passes, and a device
\* whose output is not held up by flow control takes what is sent to it.
Awake == \/ call.pc \in {"loop", "sleep"}
         \/ call.pc = "select" /\ (Readable \/ call.left <= 0)
         \/ call.pc = "blocked" /\ (room > 0 \/ ~plugged)

FairSpec ==
    /\ Spec /\ WF_vars(Awake /\ (Steps \/ Unblock)) /\ WF_vars(Tick)
    /\ WF_vars(config.flowcontrol = "none" /\ Drain)

-----------------------------------------------------------------------------
(* Properties.                                                             *)

\* What the flags make the line do.
Parity ==
    IF "PARENB" \notin line.flags THEN "none"
    ELSE IF "CMSPAR" \in line.flags
         THEN IF "PARODD" \in line.flags THEN "mark" ELSE "space"
         ELSE IF "PARODD" \in line.flags THEN "odd" ELSE "even"

\* The types of the variables and of the local ones of waitForData.
TypeOK ==
    /\ config \in [databits : {8}, parity : Parities, stopbits : StopBits,
                   flowcontrol : FlowControls]
    /\ leftover \in SUBSET Flags
    /\ line \in [flags : SUBSET Flags, size : {7, 8}, baud : {"other", "baudrate_"}]
    /\ descriptors \subseteq 1 .. MaxDescriptors /\ fd \in 0 .. MaxDescriptors
    /\ is_open \in BOOLEAN /\ plugged \in BOOLEAN
    /\ input \in 0 .. MaxInput /\ room \in 0 .. MaxOutput
    /\ \/ call \in {NoCall, [pc |-> "blocked"]}
       \/ call \in [pc : {"loop", "select", "sleep"}, want : Wants, timeout : Timeouts,
                    left : Int, known : Int, sleep : Int]
    /\ promised \in Nat

\* An open port has its own descriptor and the line is set as the constructor
\* was told, whatever its last user left and whichever opens failed before.
\* The one setting that is not undone is CMSPAR, which turns even and odd
\* parity into space and mark (the handler asks for no parity).
OpenPortIsSet ==
    is_open =>
        /\ fd \in descriptors
        /\ line.size = config.databits /\ line.baud = "baudrate_"
        /\ "ICANON" \notin line.flags
        /\ \/ Parity = config.parity
           \/ "CMSPAR" \in leftover /\ config.parity \in {"even", "odd"}
        /\ ("CSTOPB" \in line.flags) = (config.stopbits = "two")
        /\ ("CRTSCTS" \in line.flags) = (config.flowcontrol = "hardware")
        /\ ("IXON" \in line.flags) = (config.flowcontrol = "software")

\* waitForData does not give up before its time unless a signal comes, and it
\* is late by less than the timeout (or by the tick of one pass of its loop)
\* and by no more than the bytes it missed take, although it decides to sleep
\* by a remaining time that pselect has used up.
WaitEndsInTime ==
    last.op = "wait" =>
        /\ last.result = "TIMEOUT" => last.late >= 0 \/ last.interrupted
        /\ last.late > 1 => last.late < last.timeout
        /\ last.late > 0 => last.late <= ByteTicks * last.want

\* Bytes that waitForData announced are there for the read that follows,
\* unless the cable is pulled in between: the parser takes them all from its
\* buffer and does not look at what read_data returned.
ReadIsWhole == last.op = "read" => last.got >= Min({last.size, last.promised})

\* A call comes to its end: a wait whatever arrives or does not arrive, and a
\* write as soon as the device takes bytes.
CallReturns ==
    config.flowcontrol = "none" /\ ~Idle ~> Idle
=============================================================================
