--------------------------- MODULE SerialPortProofs ---------------------------
(***************************************************************************)
(* What holds of SerialPort for any sizes of buffers, counts and timeouts  *)
(* and any configuration.                                                  *)
(*                                                                         *)
(* For the time a wait takes: inside pselect the time left is no less than *)
(* zero, and a sleep is chosen so that it ends on time (Punctual); ticks   *)
(* move what is left and the sleep together.  For reads: what was promised *)
(* is still there, since only the caller reads (Kept).  For settings: the  *)
(* only flag that may differ from what set_... leave is CMSPAR (Inherited).*)
(***************************************************************************)
EXTENDS SerialPort, TLAPS

\* A call that returns this late with these arguments is on time.
OnTime(late, want, timeout) ==
    /\ late > 1 => late < timeout
    /\ late > 0 => late <= ByteTicks * want

Waiting == call.pc \in {"loop", "select", "sleep"}

Punctual ==
    /\ call.pc = "loop" => OnTime(-call.left, call.want, call.timeout)
    /\ call.pc = "select" => /\ 0 <= call.left /\ call.left <= call.known
                             /\ call.known <= call.timeout
    /\ call.pc = "sleep" => /\ call.sleep >= 0
                            /\ OnTime(call.sleep - call.left, call.want, call.timeout)
    /\ Waiting => call.left <= call.timeout

Kept == promised > 0 => plugged /\ promised <= input

Inherited ==
    "CMSPAR" \in line.flags =>
        "CMSPAR" \in leftover \/ config.parity \in {"mark", "space"}

Inv ==
    /\ TypeOK /\ Punctual /\ Kept /\ Inherited
    /\ OpenPortIsSet /\ WaitEndsInTime /\ ReadIsWhole

-----------------------------------------------------------------------------
(* Helpers.                                                                *)

LEMMA MinOfTwo ==
    ASSUME NEW a \in Int, NEW b \in Int
    PROVE  Min({a, b}) = IF a <= b THEN a ELSE b
<1> DEFINE m == IF a <= b THEN a ELSE b
<1>1. m \in {a, b} /\ \A y \in {a, b} : m <= y
  OBVIOUS
<1>2. \A x \in {a, b} : (\A y \in {a, b} : x <= y) => x = m
  OBVIOUS
<1> HIDE DEF m
<1>3. Min({a, b}) = m
  BY <1>1, <1>2 DEF Min
<1> QED BY <1>3 DEF m

Lines == [flags : SUBSET Flags, size : {7, 8}, baud : {"other", "baudrate_"}]

LEMMA WithFacts ==
    ASSUME NEW t \in Lines, NEW on \in SUBSET Flags, NEW off \in SUBSET Flags
    PROVE  /\ With(t, on, off) \in Lines
           /\ With(t, on, off).flags = (t.flags \ off) \cup on
           /\ With(t, on, off).size = t.size
           /\ With(t, on, off).baud = t.baud
BY DEF With, Lines

LEMMA ParityFacts ==
    ASSUME NEW t \in Lines, NEW parity \in Parities,
           NEW s, s = set_parity(t, parity)
    PROVE  /\ s \in Lines /\ s.size = t.size
           /\ "ICANON" \in s.flags => "ICANON" \in t.flags
           /\ \A f \in {"CSTOPB", "CRTSCTS", "IXON"} : (f \in s.flags) = (f \in t.flags)
           /\ "CMSPAR" \in s.flags => "CMSPAR" \in t.flags \/ parity \in {"mark", "space"}
           /\ parity \in {"mark", "space"} => "CMSPAR" \in s.flags
           /\ ("PARENB" \in s.flags) = (parity # "none")
           /\ parity \in {"odd", "mark"} => "PARODD" \in s.flags
           /\ parity \in {"even", "space"} => "PARODD" \notin s.flags
<1>1. parity \in {"none", "even", "odd", "mark", "space"}
  BY SerialAssumption
<1>2. CASE parity = "none"
  <2>1. s = With(t, {}, {"PARENB"}) /\ {} \in SUBSET Flags /\ {"PARENB"} \in SUBSET Flags
    BY <1>2 DEF set_parity, Flags
  <2> QED BY <1>2, <2>1, WithFacts
<1>3. CASE parity = "even"
  <2>1. /\ s = With(t, {"PARENB"}, {"PARODD"})
        /\ {"PARODD"} \in SUBSET Flags /\ {"PARENB"} \in SUBSET Flags
    BY <1>3 DEF set_parity, Flags
  <2> QED BY <1>3, <2>1, WithFacts
<1>4. CASE parity = "odd"
  <2>1. /\ s = With(t, {"PARENB", "PARODD"}, {})
        /\ {"PARENB", "PARODD"} \in SUBSET Flags /\ {} \in SUBSET Flags
    BY <1>4 DEF set_parity, Flags
  <2> QED BY <1>4, <2>1, WithFacts, SMTT(40)
<1>5. CASE parity = "mark"
  <2>1. /\ s = With(t, {"PARENB", "PARODD", "CMSPAR"}, {})
        /\ {"PARENB", "PARODD", "CMSPAR"} \in SUBSET Flags /\ {} \in SUBSET Flags
    BY <1>5 DEF set_parity, Flags
  <2> QED BY <1>5, <2>1, WithFacts
<1>6. CASE parity = "space"
  <2>1. /\ s = With(t, {"PARENB", "CMSPAR"}, {"PARODD"})
        /\ {"PARENB", "CMSPAR"} \in SUBSET Flags /\ {"PARODD"} \in SUBSET Flags
    BY <1>6 DEF set_parity, Flags
  <2> QED BY <1>6, <2>1, WithFacts
<1> QED BY <1>1, <1>2, <1>3, <1>4, <1>5, <1>6

\* What the line does after all settings are made, as OpenPortIsSet says it.
LineFacts(l) ==
    /\ l.size = config.databits
    /\ "ICANON" \notin l.flags
    /\ ("CSTOPB" \in l.flags) = (config.stopbits = "two")
    /\ ("CRTSCTS" \in l.flags) = (config.flowcontrol = "hardware")
    /\ ("IXON" \in l.flags) = (config.flowcontrol = "software")
    /\ ("PARENB" \in l.flags) = (config.parity # "none")
    /\ config.parity \in {"odd", "mark"} => "PARODD" \in l.flags
    /\ config.parity \in {"even", "space"} => "PARODD" \notin l.flags
    /\ config.parity \in {"mark", "space"} => "CMSPAR" \in l.flags
    /\ "CMSPAR" \in l.flags =>
          "CMSPAR" \in leftover \/ config.parity \in {"mark", "space"}

LEMMA SettingsFacts ==
    ASSUME TypeOK, Inherited
    PROVE  Settings(line) \in Lines /\ LineFacts(Settings(line))
<1> DEFINE a == set_common_props(line)
           b == set_databits(a, config.databits)
           c == set_parity(b, config.parity)
           d == set_stopbits(c, config.stopbits)
           e == set_flowcontrol(d, config.flowcontrol)
<1>1. /\ line \in Lines /\ config.databits = 8
      /\ config.parity \in Parities /\ config.stopbits \in {"one", "two"}
      /\ config.flowcontrol \in {"none", "hardware", "software"}
  BY SerialAssumption DEF TypeOK, Lines
<1>2. /\ b \in Lines /\ b.size = 8 /\ "ICANON" \notin b.flags
      /\ "CMSPAR" \in b.flags => "CMSPAR" \in line.flags
  <2>1. {} \in SUBSET Flags /\ {"ICANON", "PARENB", "IXON"} \in SUBSET Flags
    BY DEF Flags
  <2> DEFINE w == With(line, {}, {"ICANON", "PARENB", "IXON"})
  <2>2. /\ w \in Lines
        /\ w.flags = (line.flags \ {"ICANON", "PARENB", "IXON"}) \cup {}
    BY <1>1, <2>1, WithFacts, ZenonT(40)
  <2>3. b = [[w EXCEPT !.size = 8] EXCEPT !.size = 8]
    BY <1>1 DEF set_common_props, set_databits
  <2>4. b \in Lines /\ b.size = 8 /\ b.flags = w.flags
    <3> HIDE DEF w, b
    <3> QED BY <2>2, <2>3 DEF Lines
  <2> QED BY <2>2, <2>4
<1> HIDE DEF a, b
<1>3. /\ c \in Lines /\ c.size = 8 /\ "ICANON" \notin c.flags
      /\ "CMSPAR" \in c.flags => "CMSPAR" \in b.flags \/ config.parity \in {"mark", "space"}
      /\ config.parity \in {"mark", "space"} => "CMSPAR" \in c.flags
      /\ ("PARENB" \in c.flags) = (config.parity # "none")
      /\ config.parity \in {"odd", "mark"} => "PARODD" \in c.flags
      /\ config.parity \in {"even", "space"} => "PARODD" \notin c.flags
  BY <1>1, <1>2, ParityFacts
<1> HIDE DEF c
<1>4. /\ d \in Lines /\ d.size = 8
      /\ ("CSTOPB" \in d.flags) = (config.stopbits = "two")
      /\ \A f \in Flags \ {"CSTOPB"} : (f \in d.flags) = (f \in c.flags)
  <2>1. {} \in SUBSET Flags /\ {"CSTOPB"} \in SUBSET Flags
    BY DEF Flags
  <2>2. CASE config.stopbits = "two"
    <3>1. d = With(c, {"CSTOPB"}, {})
      BY <2>2 DEF set_stopbits
    <3> QED BY <1>3, <2>1, <2>2, <3>1, WithFacts
  <2>3. CASE config.stopbits # "two"
    <3>1. d = With(c, {}, {"CSTOPB"})
      BY <2>3 DEF set_stopbits
    <3> QED BY <1>3, <2>1, <2>3, <3>1, WithFacts
  <2> QED BY <2>2, <2>3
<1> HIDE DEF d
<1>5. /\ e \in Lines /\ e.size = 8
      /\ ("CRTSCTS" \in e.flags) = (config.flowcontrol = "hardware")
      /\ ("IXON" \in e.flags) = (config.flowcontrol = "software")
      /\ \A f \in Flags \ {"CRTSCTS", "IXON"} : (f \in e.flags) = (f \in d.flags)
  <2>1. /\ {} \in SUBSET Flags /\ {"CRTSCTS"} \in SUBSET Flags
        /\ {"IXON"} \in SUBSET Flags /\ {"CRTSCTS", "IXON"} \in SUBSET Flags
    BY DEF Flags
  <2>2. CASE config.flowcontrol = "none"
    <3>1. e = With(d, {}, {"CRTSCTS", "IXON"})
      BY <2>2 DEF set_flowcontrol
    <3> QED BY <1>4, <2>1, <2>2, <3>1, WithFacts
  <2>3. CASE config.flowcontrol = "hardware"
    <3>1. e = With(d, {"CRTSCTS"}, {"IXON"})
      BY <2>3 DEF set_flowcontrol
    <3>2. e \in Lines /\ e.size = 8 /\ e.flags = (d.flags \ {"IXON"}) \cup {"CRTSCTS"}
      BY <1>4, <2>1, <3>1, WithFacts
    <3> QED BY <2>3, <3>2
  <2>4. CASE config.flowcontrol = "software"
    <3>1. e = With(d, {"IXON"}, {"CRTSCTS"})
      BY <2>4 DEF set_flowcontrol
    <3> DEFINE on == {"IXON"}
               off == {"CRTSCTS"}
    <3>2. on \in SUBSET Flags /\ off \in SUBSET Flags
      BY <2>1
    <3>3. on = {"IXON"} /\ off = {"CRTSCTS"} /\ e = With(d, on, off)
      BY <3>1
    <3> HIDE DEF on, off
    <3>4. d \in Lines /\ d.size = 8
      BY <1>4
    <3>5. With(d, on, off) \in Lines /\ With(d, on, off).size = d.size
      BY <3>4, <3>2, WithFacts, ZenonT(40)
    <3>6. With(d, on, off).flags = (d.flags \ off) \cup on
      BY <3>4, <3>2, WithFacts
    <3>7. e \in Lines /\ e.size = 8 /\ e.flags = (d.flags \ off) \cup on
      BY <3>4, <3>5, <3>6, <3>3
    <3> QED BY <2>4, <3>3, <3>7
  <2> QED BY <1>1, <2>2, <2>3, <2>4
<1> HIDE DEF e
<1>6. Settings(line) = e
  BY DEF Settings, a, b, c, d, e
<1>7. \A f \in {"ICANON", "PARENB", "PARODD", "CMSPAR"} : (f \in e.flags) = (f \in c.flags)
  BY <1>4, <1>5 DEF Flags
<1>8. "CMSPAR" \in e.flags => "CMSPAR" \in leftover \/ config.parity \in {"mark", "space"}
  BY <1>2, <1>3, <1>7 DEF Inherited
<1>9. ("CSTOPB" \in e.flags) = (config.stopbits = "two")
  BY <1>4, <1>5 DEF Flags
<1> QED BY <1>1, <1>3, <1>5, <1>6, <1>7, <1>8, <1>9 DEF LineFacts

-----------------------------------------------------------------------------
(* Initial states and steps.                                               *)

LEMMA InitInv == ASSUME Init PROVE Inv
<1>1. TypeOK
  <2>1. leftover \in SUBSET Flags /\ line = [flags |-> leftover, size |-> 7, baud |-> "other"]
    BY SerialAssumption DEF Init
  <2>2. /\ 0 \in 0 .. MaxDescriptors /\ 0 \in 0 .. MaxInput
        /\ MaxOutput \in 0 .. MaxOutput
    BY SerialAssumption
  <2>3. call = NoCall
    BY DEF Init
  <2>4. line \in [flags : SUBSET Flags, size : {7, 8}, baud : {"other", "baudrate_"}]
    BY <2>1
  <2>5. /\ config \in [databits : {8}, parity : Parities, stopbits : StopBits,
                       flowcontrol : FlowControls]
        /\ descriptors = {} /\ fd = 0 /\ is_open = FALSE /\ plugged = TRUE
        /\ input = 0 /\ room = MaxOutput /\ promised = 0
    BY DEF Init
  <2> QED BY <2>1, <2>2, <2>3, <2>4, <2>5 DEF TypeOK
<1>2. call.pc = "none"
  BY DEF Init, NoCall
<1>3. last.op = "none"
  BY DEF Init, NoWait
<1>4. Punctual
  BY <1>2 DEF Punctual, Waiting
<1>5. Kept /\ Inherited /\ OpenPortIsSet
  BY DEF Init, Kept, Inherited, OpenPortIsSet
<1>6. WaitEndsInTime /\ ReadIsWhole
  BY <1>3 DEF WaitEndsInTime, ReadIsWhole
<1> QED BY <1>1, <1>4, <1>5, <1>6 DEF Inv

\* The settings stay as they are when the port does.
LEMMA PortStays ==
    ASSUME Inv, UNCHANGED portVars
    PROVE  Inherited' /\ OpenPortIsSet'
BY DEF Inv, portVars, Inherited, OpenPortIsSet, Parity

LEMMA ForgetFacts ==
    ASSUME Forget
    PROVE  WaitEndsInTime' /\ ReadIsWhole' /\ promised' = 0
<1>1. last'.op = "none" /\ promised' = 0
  BY DEF Forget, NoWait
<1> QED BY <1>1 DEF WaitEndsInTime, ReadIsWhole

LEMMA OpenInv ==
    ASSUME Inv,
           \/ OpenFails
           \/ \E failing \in Failures, descriptor \in 1 .. MaxDescriptors :
                 Open(failing, descriptor)
           \/ Close
    PROVE  Inv'
<1>1. /\ Forget /\ Idle /\ UNCHANGED <<config, leftover, plugged, room, call>>
  BY DEF OpenFails, Open, Close, ttyVars
<1>2. call' = NoCall /\ call'.pc = "none"
  BY <1>1 DEF Idle, NoCall
<1>3. WaitEndsInTime' /\ ReadIsWhole' /\ promised' = 0 /\ Kept'
  BY <1>1, ForgetFacts DEF Kept
<1>4. Punctual'
  BY <1>2 DEF Punctual, Waiting
<1>5. CASE OpenFails
  <2>1. UNCHANGED <<line, descriptors, is_open, input>> /\ fd' = 0 /\ ~is_open
    BY <1>5 DEF OpenFails, ttyVars
  <2>2. TypeOK'
    BY <1>1, <1>2, <1>3, <2>1, SerialAssumption DEF Inv, TypeOK
  <2>3. Inherited' /\ OpenPortIsSet'
    BY <1>1, <2>1 DEF Inv, Inherited, OpenPortIsSet
  <2> QED BY <1>3, <1>4, <2>2, <2>3 DEF Inv
<1>6. CASE Close
  <2>1. UNCHANGED <<line, input>> /\ fd' = 0 /\ ~is_open' /\ is_open' \in BOOLEAN
        /\ descriptors' \subseteq descriptors
    BY <1>6 DEF Close, ttyVars
  <2>2. TypeOK'
    BY <1>1, <1>2, <1>3, <2>1, SerialAssumption DEF Inv, TypeOK
  <2>3. Inherited' /\ OpenPortIsSet'
    BY <1>1, <2>1 DEF Inv, Inherited, OpenPortIsSet
  <2> QED BY <1>3, <1>4, <2>2, <2>3 DEF Inv
<1>7. ASSUME NEW failing \in Failures, NEW descriptor \in 1 .. MaxDescriptors,
             Open(failing, descriptor)
      PROVE  Inv'
  <2>1. /\ fd' = descriptor /\ descriptors' = descriptors \cup {descriptor}
        /\ is_open' = (failing = "nothing")
        /\ line' = Configured(failing) /\ input' = Flushed(failing)
    BY <1>7 DEF Open
  <2>2. Settings(line) \in Lines /\ LineFacts(Settings(line))
    BY SettingsFacts DEF Inv
  <2>3. CASE failing \in {"getTermios", "setTermios"}
    <3>1. line' = line /\ ~is_open' /\ is_open' \in BOOLEAN
      BY <2>1, <2>3 DEF Configured
    <3>2. line' \in Lines /\ Inherited' /\ OpenPortIsSet' /\ is_open' \in BOOLEAN
      BY <1>1, <3>1, <1>7 DEF Inv, TypeOK, Lines, Inherited, OpenPortIsSet, Open
    <3>3. input' \in 0 .. MaxInput
      BY <2>1, SerialAssumption DEF Flushed, Inv, TypeOK
    <3>4. TypeOK'
      BY <1>1, <1>2, <1>3, <2>1, <3>2, <3>3, <1>7 DEF Inv, TypeOK, Lines, Open
    <3> QED BY <1>3, <1>4, <3>2, <3>4 DEF Inv
  <2>4. CASE failing \in {"setBaudrate", "readBack", "nothing"}
    <3>1. /\ line' \in Lines /\ line'.size = Settings(line).size
          /\ line'.flags = Settings(line).flags
          /\ failing = "nothing" => line'.baud = "baudrate_"
      <4>1. CASE failing = "setBaudrate"
        <5>1. line' = Settings(line)
          BY <2>1, <4>1 DEF Configured
        <5> QED BY <2>2, <4>1, <5>1
      <4>2. CASE failing \in {"readBack", "nothing"}
        <5>1. line' = [Settings(line) EXCEPT !.baud = "baudrate_"]
          BY <2>1, <4>2 DEF Configured
        <5> QED BY <2>2, <5>1 DEF Lines
      <4> QED BY <2>4, <4>1, <4>2
    <3>2. config' = config /\ leftover' = leftover
      BY <1>7 DEF Open
    <3>3. LineFacts(line)'
      BY <2>2, <3>1, <3>2 DEF LineFacts
    <3>4. Inherited'
      BY <3>3 DEF LineFacts, Inherited
    <3>5. OpenPortIsSet'
      <4>1. SUFFICES ASSUME is_open'
                     PROVE  /\ fd' \in descriptors'
                            /\ line'.baud = "baudrate_"
                            /\ \/ Parity' = config'.parity
                               \/ "CMSPAR" \in leftover' /\ config'.parity \in {"even", "odd"}
        BY <3>3 DEF OpenPortIsSet, LineFacts
      <4>2. failing = "nothing"
        BY <2>1, <4>1
      <4>3. config'.parity \in {"none", "even", "odd", "mark", "space"}
        BY <3>2, SerialAssumption DEF Inv, TypeOK
      <4>4. \/ Parity' = config'.parity
            \/ "CMSPAR" \in leftover' /\ config'.parity \in {"even", "odd"}
        <5>1. CASE config'.parity = "none"
          BY <3>3, <5>1 DEF LineFacts, Parity
        <5>2. CASE config'.parity \in {"mark", "space"}
          BY <3>3, <5>2 DEF LineFacts, Parity
        <5>3. CASE config'.parity \in {"even", "odd"}
          BY <3>3, <5>3 DEF LineFacts, Parity
        <5> QED BY <4>3, <5>1, <5>2, <5>3
      <4> QED BY <2>1, <3>1, <4>2, <4>4
    <3>6. input' \in 0 .. MaxInput
      BY <2>1, SerialAssumption DEF Flushed, Inv, TypeOK
    <3>7. is_open' \in BOOLEAN
      BY <2>1
    <3>8. TypeOK'
      BY <1>2, <1>3, <2>1, <3>1, <3>6, <3>7, <1>7 DEF Inv, TypeOK, Lines, Open
    <3> QED BY <1>3, <1>4, <3>4, <3>5, <3>8 DEF Inv
  <2> QED BY <2>3, <2>4 DEF Failures
<1> QED BY <1>5, <1>6, <1>7

\* waitForData returns on time, and OK only when the bytes are there.
LEMMA ReturnInv ==
    ASSUME Inv, NEW result, NEW want \in Wants, NEW timeout, NEW left, NEW interrupted,
           WaitReturns(result, want, timeout, left, interrupted),
           OnTime(-left, want, timeout),
           result = "TIMEOUT" => -left >= 0 \/ interrupted,
           result = "OK" => plugged /\ want <= input
    PROVE  Inv'
<1>1. /\ call' = NoCall /\ UNCHANGED <<portVars, ttyVars>>
      /\ promised' = IF result = "OK" THEN want ELSE 0
  BY DEF WaitReturns
<1>2. last' = [op |-> "wait", result |-> result, want |-> want, timeout |-> timeout,
               late |-> -left, interrupted |-> interrupted]
  BY DEF WaitReturns
<1>3. promised' \in Nat
  BY <1>1, SerialAssumption
<1>4. TypeOK'
  BY <1>1, <1>3 DEF Inv, TypeOK, portVars, ttyVars
<1>5. Punctual'
  <2>1. call'.pc = "none"
    BY <1>1 DEF NoCall
  <2> QED BY <2>1 DEF Punctual, Waiting
<1>6. Kept'
  BY <1>1 DEF Kept, ttyVars
<1>7. WaitEndsInTime'
  <2>1. /\ last'.result = result /\ last'.late = -left /\ last'.interrupted = interrupted
        /\ last'.timeout = timeout /\ last'.want = want
    BY <1>2
  <2> QED BY <2>1 DEF WaitEndsInTime, OnTime
<1>8. ReadIsWhole'
  <2>1. last'.op = "wait"
    BY <1>2
  <2> QED BY <2>1 DEF ReadIsWhole
<1>9. Inherited' /\ OpenPortIsSet'
  BY <1>1, PortStays
<1> QED BY <1>4, <1>5, <1>6, <1>7, <1>8, <1>9 DEF Inv

\* A step of a call that leaves port, tty and promises alone.
LEMMA CallInv ==
    ASSUME Inv, UNCHANGED <<portVars, ttyVars, promised>>,
           last' \in {last, NoWait},
           \/ call' \in {NoCall, [pc |-> "blocked"]}
           \/ call' \in [pc : {"loop", "select", "sleep"}, want : Wants, timeout : Timeouts,
                         left : Int, known : Int, sleep : Int],
           Punctual'
    PROVE  Inv'
<1>1. TypeOK'
  BY DEF Inv, TypeOK, portVars, ttyVars
<1>2. Kept'
  BY DEF Inv, Kept, ttyVars
<1>3. WaitEndsInTime' /\ ReadIsWhole'
  <2>1. CASE last' = last
    BY <2>1 DEF Inv, WaitEndsInTime, ReadIsWhole
  <2>2. CASE last' = NoWait
    <3>1. last'.op = "none"
      BY <2>2 DEF NoWait
    <3> QED BY <3>1 DEF WaitEndsInTime, ReadIsWhole
  <2> QED BY <2>1, <2>2
<1>4. Inherited' /\ OpenPortIsSet'
  BY PortStays
<1> QED BY <1>1, <1>2, <1>3, <1>4 DEF Inv

Calls == [pc : {"loop", "select", "sleep"}, want : Wants, timeout : Timeouts,
          left : Int, known : Int, sleep : Int]

\* What is known of a call that is under way.
LEMMA CallFacts ==
    ASSUME Inv, Waiting
    PROVE  /\ call \in Calls
           /\ call.want \in Wants /\ call.want \in Nat \ {0} /\ call.timeout \in Nat
           /\ call.left \in Int /\ call.known \in Int /\ call.sleep \in Int
           /\ call.left <= call.timeout
           /\ input \in Nat
<1>1. call # NoCall /\ call # [pc |-> "blocked"]
  BY DEF Waiting, NoCall
<1>2. call \in Calls
  BY <1>1 DEF Inv, TypeOK, Calls
<1>3. call.want \in Wants /\ call.timeout \in Timeouts
      /\ call.left \in Int /\ call.known \in Int /\ call.sleep \in Int
  BY <1>2 DEF Calls
<1>4. call.left <= call.timeout
  BY DEF Inv, Punctual
<1>5. input \in Nat
  BY SerialAssumption DEF Inv, TypeOK
<1> QED BY <1>2, <1>3, <1>4, <1>5, SerialAssumption

LEMMA WaitInv ==
    ASSUME Inv, NEW want \in Wants, NEW timeout \in Timeouts, WaitForData(want, timeout)
    PROVE  Inv'
<1>1. timeout \in Nat /\ want \in Nat \ {0} /\ ByteTicks \in Nat \ {0}
  BY SerialAssumption
<1>2. OnTime(-timeout, want, timeout)
  BY <1>1 DEF OnTime
<1>3. CASE WaitReturns("FAIL", want, timeout, timeout, FALSE)
  BY <1>2, <1>3, ReturnInv
<1>4. CASE plugged /\ Enough(want) /\ WaitReturns("OK", want, timeout, timeout, FALSE)
  <2>1. want <= input
    BY <1>1, <1>4, SerialAssumption DEF Enough, Inv, TypeOK
  <2> QED BY <1>2, <1>4, <2>1, ReturnInv
<1>5. CASE /\ call' = [pc |-> "loop", want |-> want, timeout |-> timeout,
                       left |-> timeout, known |-> 0, sleep |-> 0]
           /\ last' = NoWait /\ promised' = 0 /\ UNCHANGED <<portVars, ttyVars>>
  <2>1. call' \in Calls
    BY <1>1, <1>5 DEF Calls
  <2>2. /\ call'.pc = "loop" /\ call'.left = timeout
        /\ call'.timeout = timeout /\ call'.want = want
    BY <1>5
  <2>3. Punctual'
    BY <1>1, <1>2, <2>2 DEF Punctual, Waiting
  <2>4. TypeOK'
    BY <1>5, <2>1 DEF Inv, TypeOK, portVars, ttyVars, Calls
  <2>5. Kept'
    BY <1>5 DEF Kept
  <2>6. WaitEndsInTime' /\ ReadIsWhole'
    BY <1>5, ForgetFacts DEF Forget
  <2>7. Inherited' /\ OpenPortIsSet'
    BY <1>5, PortStays
  <2> QED BY <2>3, <2>4, <2>5, <2>6, <2>7 DEF Inv
<1> QED BY <1>3, <1>4, <1>5 DEF WaitForData

LEMMA LoopInv == ASSUME Inv, Loop PROVE Inv'
<1>1. Waiting /\ call.pc = "loop"
  BY DEF Loop, Waiting
<1>2. /\ call \in Calls /\ call.want \in Wants /\ call.timeout \in Nat
      /\ call.left \in Int /\ call.left <= call.timeout
  BY <1>1, CallFacts
<1>3. OnTime(-call.left, call.want, call.timeout)
  BY <1>1 DEF Inv, Punctual
<1>4. CASE call.left <= 0 /\ Returns("TIMEOUT", FALSE)
  <2>1. -call.left >= 0
    BY <1>2, <1>4
  <2>2. WaitReturns("TIMEOUT", call.want, call.timeout, call.left, FALSE)
    BY <1>4 DEF Returns
  <2> QED BY <1>2, <1>3, <2>1, <2>2, ReturnInv
<1>5. CASE call.left > 0 /\ GoTo("select")
  <2>1. /\ call' = [call EXCEPT !.pc = "select", !.known = call.left]
        /\ UNCHANGED <<portVars, ttyVars, last, promised>>
    BY <1>5 DEF GoTo
  <2>2. /\ call' \in Calls /\ call'.pc = "select" /\ call'.known = call.left
        /\ call'.left = call.left /\ call'.timeout = call.timeout
    BY <1>2, <2>1 DEF Calls
  <2>3. Punctual'
    BY <1>2, <1>5, <2>2 DEF Punctual, Waiting
  <2> QED BY <2>1, <2>2, <2>3, CallInv DEF Calls
<1> QED BY <1>4, <1>5 DEF Loop

LEMMA TimesFacts ==
    ASSUME NEW b \in Nat \ {0}, NEW w \in Nat \ {0}, NEW m \in Int, 0 < m, m <= w
    PROVE  b * m \in Nat /\ b * w \in Nat /\ b * m <= b * w /\ 1 <= b * w
<1>1. b * w = b * m + b * (w - m)
  OBVIOUS
<1>2. b * (w - m) >= 0 /\ b * m >= 1
  OBVIOUS
<1> QED BY <1>1, <1>2

LEMMA SelectInv == ASSUME Inv, SelectReturns PROVE Inv'
<1>1. Waiting /\ call.pc = "select"
  BY DEF SelectReturns, Waiting
<1>2. /\ call \in Calls /\ call.want \in Wants /\ call.want \in Nat \ {0}
      /\ call.timeout \in Nat /\ call.left \in Int /\ call.known \in Int
      /\ call.left <= call.timeout /\ input \in Nat
  BY <1>1, CallFacts
<1>3. /\ 0 <= call.left /\ call.left <= call.known /\ call.known <= call.timeout
      /\ ByteTicks \in Nat \ {0}
  BY <1>1, SerialAssumption DEF Inv, Punctual
<1>4. OnTime(-call.left, call.want, call.timeout)
  BY <1>2, <1>3 DEF OnTime
<1>5. CASE Returns("TIMEOUT", TRUE)
  BY <1>2, <1>4, <1>5, ReturnInv DEF Returns
<1>6. CASE ~Readable /\ call.left <= 0 /\ Returns("TIMEOUT", FALSE)
  <2>1. -call.left >= 0
    BY <1>2, <1>6
  <2>2. WaitReturns("TIMEOUT", call.want, call.timeout, call.left, FALSE)
    BY <1>6 DEF Returns
  <2> QED BY <1>2, <1>4, <2>1, <2>2, ReturnInv
<1>7. CASE Returns("FAIL", FALSE)
  BY <1>2, <1>4, <1>7, ReturnInv DEF Returns
<1>8. CASE plugged /\ Enough(call.want) /\ Returns("OK", FALSE)
  <2>1. call.want <= input
    BY <1>2, <1>8 DEF Enough
  <2>2. WaitReturns("OK", call.want, call.timeout, call.left, FALSE)
    BY <1>8 DEF Returns
  <2> QED BY <1>2, <1>4, <1>8, <2>1, <2>2, ReturnInv
<1>9. CASE /\ ~Enough(call.want)
           /\ call' = [call EXCEPT !.pc = "sleep", !.sleep = SleepFor(call.want - input)]
           /\ UNCHANGED <<portVars, ttyVars, last, promised>>
  <2> DEFINE missing == call.want - input
             sleep   == SleepFor(missing)
  <2>1. missing \in Int /\ 0 < missing /\ missing <= call.want
    BY <1>2, <1>9 DEF Enough
  <2>2. /\ ByteTicks * missing \in Nat /\ ByteTicks * call.want \in Nat
        /\ ByteTicks * missing <= ByteTicks * call.want /\ 1 <= ByteTicks * call.want
    <3> HIDE DEF missing
    <3> QED BY <1>2, <1>3, <2>1, TimesFacts
  <2>3. /\ sleep \in Nat
        /\ OnTime(sleep - call.left, call.want, call.timeout)
    <3>1. CASE call.known > ByteTicks * missing
      <4>1. sleep = ByteTicks * missing
        BY <3>1 DEF SleepFor
      <4> HIDE DEF missing, sleep
      <4> QED BY <1>2, <1>3, <2>2, <3>1, <4>1 DEF OnTime
    <3>2. CASE ~(call.known > ByteTicks * missing)
      <4>1. sleep = 1
        BY <3>2 DEF SleepFor
      <4> HIDE DEF missing, sleep
      <4> QED BY <1>2, <1>3, <2>2, <4>1 DEF OnTime
    <3> QED BY <3>1, <3>2
  <2>4. call' = [call EXCEPT !.pc = "sleep", !.sleep = sleep]
    BY <1>9
  <2> HIDE DEF missing, sleep
  <2>5. /\ call' \in Calls /\ call'.pc = "sleep" /\ call'.sleep = sleep
        /\ call'.left = call.left /\ call'.timeout = call.timeout
        /\ call'.want = call.want
    <3>1. sleep \in Int
      BY <2>3
    <3> QED BY <1>2, <2>4, <3>1 DEF Calls
  <2>6. Punctual'
    BY <1>2, <2>3, <2>5 DEF Punctual, Waiting
  <2> QED BY <1>9, <2>5, <2>6, CallInv DEF Calls
<1> QED BY <1>5, <1>6, <1>7, <1>8, <1>9 DEF SelectReturns

LEMMA WakeUpInv == ASSUME Inv, WakeUp PROVE Inv'
<1>1. Waiting /\ call.pc = "sleep" /\ call.sleep <= 0 /\ GoTo("loop")
  BY DEF WakeUp, Waiting
<1>2. /\ call \in Calls /\ call.want \in Nat \ {0} /\ call.timeout \in Nat
      /\ call.left \in Int /\ call.sleep \in Int /\ call.left <= call.timeout
  BY <1>1, CallFacts
<1>3. OnTime(call.sleep - call.left, call.want, call.timeout) /\ call.sleep = 0
  BY <1>1, <1>2 DEF Inv, Punctual
<1>4. /\ call' = [call EXCEPT !.pc = "loop", !.known = call.known]
      /\ UNCHANGED <<portVars, ttyVars, last, promised>>
  BY <1>1 DEF GoTo
<1>5. /\ call' \in Calls /\ call'.pc = "loop" /\ call'.left = call.left
      /\ call'.timeout = call.timeout /\ call'.want = call.want
  BY <1>2, <1>4 DEF Calls
<1>6. call'.left <= call'.timeout
  BY <1>2, <1>5
<1>7. OnTime(-call'.left, call'.want, call'.timeout)
  <2>1. call.sleep - call.left = -call.left
    BY <1>2, <1>3
  <2> QED BY <1>3, <1>5, <2>1
<1>8. Punctual'
  BY <1>5, <1>6, <1>7 DEF Punctual, Waiting
<1> QED BY <1>4, <1>5, <1>8, CallInv DEF Calls

LEMMA TickInv == ASSUME Inv, Tick PROVE Inv'
<1>1. Waiting
  BY DEF Tick, Waiting
<1>2. /\ call \in Calls /\ call.want \in Nat \ {0} /\ call.timeout \in Nat
      /\ call.left \in Int /\ call.sleep \in Int /\ call.known \in Int
      /\ call.left <= call.timeout
  BY <1>1, CallFacts
<1>3. /\ call' = [call EXCEPT !.left = call.left - 1, !.sleep = call.sleep - 1]
      /\ UNCHANGED <<portVars, ttyVars, last, promised>>
  BY DEF Tick
<1>4. /\ call' \in Calls /\ call'.pc = call.pc /\ call'.left = call.left - 1
      /\ call'.sleep = call.sleep - 1 /\ call'.timeout = call.timeout
      /\ call'.want = call.want /\ call'.known = call.known
  <2>1. call.left - 1 \in Int /\ call.sleep - 1 \in Int
    BY <1>2
  <2> QED BY <1>2, <1>3, <2>1 DEF Calls
<1>5. Punctual'
  <2>1. CASE call.pc = "select"
    <3>1. call.left > 0
      BY <2>1 DEF Tick
    <3> QED BY <1>2, <1>4, <2>1, <3>1 DEF Inv, Punctual, Waiting
  <2>2. CASE call.pc = "sleep"
    <3>1. call'.sleep - call'.left = call.sleep - call.left /\ call'.sleep >= 0
      BY <1>2, <1>4, <2>2 DEF Tick
    <3> QED BY <1>2, <1>4, <2>2, <3>1 DEF Inv, Punctual, Waiting
  <2> QED BY <2>1, <2>2 DEF Tick
<1> QED BY <1>3, <1>4, <1>5, CallInv DEF Calls

-----------------------------------------------------------------------------
(* Reads, writes and the tty.                                              *)

LEMMA MinFacts ==
    ASSUME NEW a \in Nat, NEW b \in Nat
    PROVE  Min({a, b}) \in Nat /\ Min({a, b}) <= a /\ Min({a, b}) <= b
BY MinOfTwo

LEMMA ReadInv == ASSUME Inv, NEW size \in Wants, ReadData(size) PROVE Inv'
<1> DEFINE got == IF plugged THEN Min({size, input}) ELSE 0
<1>1. /\ last' = [op |-> "read", size |-> size, got |-> got, promised |-> promised]
      /\ input' = IF plugged THEN input - got ELSE 0
      /\ promised' = 0 /\ UNCHANGED <<portVars, plugged, room, call>>
  BY DEF ReadData
<1>2. /\ size \in Nat /\ input \in 0 .. MaxInput /\ MaxInput \in Nat /\ input \in Nat
      /\ promised \in Nat
  BY SerialAssumption DEF Inv, TypeOK
<1>3. got \in Nat /\ got <= input
  BY <1>2, MinFacts
<1>4. input' \in 0 .. MaxInput
  <2> HIDE DEF got
  <2> QED BY <1>1, <1>2, <1>3
<1>5. TypeOK'
  BY <1>1, <1>4 DEF Inv, TypeOK, portVars
<1>6. Punctual'
  BY <1>1 DEF Inv, Punctual, Waiting
<1>7. Kept'
  BY <1>1 DEF Kept
<1>8. Min({size, promised}) <= got
  <2>1. CASE promised > 0
    <3>1. plugged /\ promised <= input
      BY <2>1 DEF Inv, Kept
    <3>2. Min({size, promised}) = IF size <= promised THEN size ELSE promised
      BY <1>2, MinOfTwo
    <3>3. Min({size, input}) = IF size <= input THEN size ELSE input
      BY <1>2, MinOfTwo
    <3> QED BY <1>2, <3>1, <3>2, <3>3
  <2>2. CASE promised = 0
    <3>1. Min({size, promised}) <= 0
      BY <1>2, <2>2, MinFacts
    <3>2. Min({size, promised}) \in Nat
      BY <1>2, MinFacts
    <3> HIDE DEF got
    <3> QED BY <1>3, <3>1, <3>2
  <2> QED BY <1>2, <2>1, <2>2
<1>9. WaitEndsInTime' /\ ReadIsWhole'
  <2>1. /\ last'.op = "read" /\ last'.size = size /\ last'.got = got
        /\ last'.promised = promised
    BY <1>1
  <2>2. Min({size, promised}) \in Nat
    BY <1>2, MinFacts
  <2> HIDE DEF got
  <2> QED BY <1>3, <1>8, <2>1, <2>2 DEF WaitEndsInTime, ReadIsWhole
<1>10. Inherited' /\ OpenPortIsSet'
  BY <1>1, PortStays
<1> QED BY <1>5, <1>6, <1>7, <1>9, <1>10 DEF Inv

LEMMA WrittenInv ==
    ASSUME Inv, NEW n \in Nat, n <= room, WriteReturns(n)
    PROVE  Inv'
<1>1. /\ room' = room - n /\ call' = NoCall
      /\ last' = [op |-> "write", written |-> n]
      /\ UNCHANGED <<portVars, plugged, input, promised>>
  BY DEF WriteReturns
<1>2. room \in 0 .. MaxOutput /\ MaxOutput \in Nat
  BY SerialAssumption DEF Inv, TypeOK
<1>3. room' \in 0 .. MaxOutput
  BY <1>1, <1>2
<1>4. TypeOK'
  BY <1>1, <1>3 DEF Inv, TypeOK, portVars
<1>5. Punctual'
  <2>1. call'.pc = "none"
    BY <1>1 DEF NoCall
  <2> QED BY <2>1 DEF Punctual, Waiting
<1>6. Kept'
  BY <1>1 DEF Inv, Kept
<1>7. WaitEndsInTime' /\ ReadIsWhole'
  <2>1. last'.op = "write"
    BY <1>1
  <2> QED BY <2>1 DEF WaitEndsInTime, ReadIsWhole
<1>8. Inherited' /\ OpenPortIsSet'
  BY <1>1, PortStays
<1> QED BY <1>4, <1>5, <1>6, <1>7, <1>8 DEF Inv

LEMMA WriteInv == ASSUME Inv, WriteData \/ Unblock PROVE Inv'
<1>1. /\ CommandLength \in Nat /\ room \in Nat
  BY SerialAssumption DEF Inv, TypeOK
<1>2. Writable \in Nat /\ Writable <= room
  BY <1>1, MinFacts DEF Writable
<1>3. CASE WriteReturns(Writable)
  BY <1>2, <1>3, WrittenInv
<1>4. CASE WriteReturns(0)
  BY <1>1, <1>4, WrittenInv
<1>5. CASE /\ call' = [pc |-> "blocked"] /\ last' = NoWait
           /\ UNCHANGED <<portVars, ttyVars, promised>>
  <2>1. call'.pc = "blocked"
    BY <1>5
  <2>2. Punctual'
    BY <2>1 DEF Punctual, Waiting
  <2> QED BY <1>5, <2>2, CallInv
<1> QED BY <1>3, <1>4, <1>5 DEF WriteData, Unblock

\* What arrives, leaves or is pulled does not concern a call.
LEMMA TtyInv == ASSUME Inv, Arrive \/ Drain \/ Unplug PROVE Inv'
<1>1. UNCHANGED <<portVars, call, last>> /\ plugged' \in BOOLEAN
  BY DEF Arrive, Drain, Unplug, Tty, Inv, TypeOK
<1>2. input \in 0 .. MaxInput /\ room \in 0 .. MaxOutput
      /\ MaxInput \in Nat /\ MaxOutput \in Nat /\ promised \in Nat
  BY SerialAssumption DEF Inv, TypeOK
<1>3. /\ input' \in 0 .. MaxInput /\ room' \in 0 .. MaxOutput
      /\ promised' \in Nat /\ Kept'
  <2>1. CASE Arrive
    BY <1>2, <2>1 DEF Arrive, Tty, Inv, Kept
  <2>2. CASE Drain
    BY <1>2, <2>2 DEF Drain, Tty, Inv, Kept
  <2>3. CASE Unplug
    BY <1>2, <2>3 DEF Unplug, Kept
  <2> QED BY <2>1, <2>2, <2>3
<1>4. TypeOK'
  BY <1>1, <1>3 DEF Inv, TypeOK, portVars
<1>5. Punctual' /\ WaitEndsInTime' /\ ReadIsWhole'
  BY <1>1 DEF Inv, Punctual, Waiting, WaitEndsInTime, ReadIsWhole
<1>6. Inherited' /\ OpenPortIsSet'
  BY <1>1, PortStays
<1> QED BY <1>3, <1>4, <1>5, <1>6 DEF Inv

-----------------------------------------------------------------------------

LEMMA StepInv == ASSUME Inv, [Next]_vars PROVE Inv'
<1>1. CASE UNCHANGED vars
  <2>1. UNCHANGED <<portVars, ttyVars, promised>> /\ last' = last /\ call' = call
    BY <1>1 DEF vars
  <2>2. Punctual'
    BY <2>1 DEF Inv, Punctual, Waiting
  <2> QED BY <2>1, <2>2, CallInv DEF Inv, TypeOK
<1>2. CASE Next
  <2>1. CASE \/ OpenFails
             \/ \E failing \in Failures, descriptor \in 1 .. MaxDescriptors :
                   Open(failing, descriptor)
             \/ Close
    BY <2>1, OpenInv
  <2>2. ASSUME NEW want \in Wants, ReadData(want) PROVE Inv'
    BY <2>2, ReadInv
  <2>3. ASSUME NEW want \in Wants, NEW timeout \in Timeouts, WaitForData(want, timeout)
        PROVE  Inv'
    BY <2>3, WaitInv
  <2>4. CASE WriteData \/ Unblock
    BY <2>4, WriteInv
  <2>5. CASE Steps \/ Tick
    BY <2>5, LoopInv, SelectInv, WakeUpInv, TickInv DEF Steps
  <2>6. CASE Arrive \/ Drain \/ Unplug
    BY <2>6, TtyInv
  <2> QED BY <1>2, <2>1, <2>2, <2>3, <2>4, <2>5, <2>6 DEF Next
<1> QED BY <1>1, <1>2

\* The types of the variables and of the local ones of waitForData.
THEOREM TypeCorrect == Spec => []TypeOK
<1>1. Init => Inv BY InitInv
<1>2. Inv /\ [Next]_vars => Inv' BY StepInv
<1>3. Inv => TypeOK BY DEF Inv
<1> QED BY <1>1, <1>2, <1>3, PTL DEF Spec

\* An open port is set as it was asked to be, whatever its last user left and
\* whichever opens failed before.
THEOREM PortIsSet == Spec => []OpenPortIsSet
<1>1. Init => Inv BY InitInv
<1>2. Inv /\ [Next]_vars => Inv' BY StepInv
<1>3. Inv => OpenPortIsSet BY DEF Inv
<1> QED BY <1>1, <1>2, <1>3, PTL DEF Spec

\* waitForData keeps its time for every timeout, count and speed of the line.
THEOREM WaitsEndInTime == Spec => []WaitEndsInTime
<1>1. Init => Inv BY InitInv
<1>2. Inv /\ [Next]_vars => Inv' BY StepInv
<1>3. Inv => WaitEndsInTime BY DEF Inv
<1> QED BY <1>1, <1>2, <1>3, PTL DEF Spec

\* A read gets what the wait before it announced.
THEOREM ReadsAreWhole == Spec => []ReadIsWhole
<1>1. Init => Inv BY InitInv
<1>2. Inv /\ [Next]_vars => Inv' BY StepInv
<1>3. Inv => ReadIsWhole BY DEF Inv
<1> QED BY <1>1, <1>2, <1>3, PTL DEF Spec
=============================================================================
