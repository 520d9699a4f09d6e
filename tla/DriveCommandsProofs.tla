-------------------------- MODULE DriveCommandsProofs --------------------------
(***************************************************************************)
(* What holds of DriveCommands for every queue depth, every range of the   *)
(* heartbeat counter and any number of commands.                           *)
(*                                                                         *)
(* The argument: the queue holds the latest commands without a gap, and    *)
(* the board has a velocity older than all of them (Consecutive, Behind).  *)
(* So a callback, which writes the head of the queue or nothing, never     *)
(* writes an older velocity, and the one that empties the queue has the    *)
(* latest command in its hands.                                            *)
(***************************************************************************)
EXTENDS DriveCommands, TLAPS, SequenceTheorems

Waiting == Len(cmd_vel)

\* The queue holds the latest commands, in the order of their publication.
Consecutive ==
    /\ Waiting <= published
    /\ \A i \in 1 .. Waiting : cmd_vel[i] = (published - Waiting) + i

\* The board has a velocity from before the queue.
Behind == registers["velocity"] <= published - Waiting

Inv ==
    /\ TypeOK /\ Consecutive /\ Behind
    /\ LatestCommandHolds /\ AnswerIsTrue

-----------------------------------------------------------------------------

LEMMA WriteType ==
    ASSUME registers \in [Registers -> Nat],
           NEW r \in Registers, NEW v \in Nat, NEW outcome \in Outcomes,
           Write(r, v, outcome)
    PROVE  /\ registers' \in [Registers -> Nat]
           /\ \A q \in Registers \ {r} : registers'[q] = registers[q]
           /\ registers'[r] \in {registers[r], v}
           /\ outcome = "done" => registers'[r] = v
BY DEF Write, Outcomes

LEMMA RegisterNames ==
    /\ Services \subseteq Registers
    /\ "velocity" \in Registers /\ "velocity" \notin Services
    /\ "acceleration" \in Registers /\ "acceleration" \notin Services
    /\ "heartbeat" \in Registers /\ "heartbeat" \notin Services
    /\ "acceleration" # "velocity" /\ "heartbeat" # "velocity"
BY DEF Services, Registers

\* An action that leaves commands, services and the registers of both alone.
LEMMA Frame ==
    ASSUME Inv, UNCHANGED <<cmdVars, serviceVars>>,
           registers' \in [Registers -> Nat],
           registers'["velocity"] = registers["velocity"],
           \A s \in Services : registers'[s] = registers[s],
           executor' \in {"connecting", "failed", "starting", "idle", "calibrating"},
           count' \in 0 .. HeartbeatRange - 1
    PROVE  Inv'
<1>1. TypeOK'
  BY DEF Inv, TypeOK, cmdVars, serviceVars
<1>2. (Consecutive /\ Behind /\ LatestCommandHolds)'
  BY DEF Inv, cmdVars, Consecutive, Behind, Waiting, LatestCommandHolds
<1>3. AnswerIsTrue'
  BY DEF Inv, serviceVars, AnswerIsTrue
<1> QED BY <1>1, <1>2, <1>3 DEF Inv

LEMMA InitInv == ASSUME Init PROVE Inv
<1> USE DriveAssumption DEF Init
<1>1. TypeOK
  BY DEF TypeOK, Registers, Services, Values, NoAnswer, NoRequest
<1>2. Consecutive /\ Behind /\ LatestCommandHolds
  BY RegisterNames DEF Consecutive, Behind, Waiting, LatestCommandHolds
<1>3. AnswerIsTrue
  BY DEF AnswerIsTrue, NoAnswer
<1> QED BY <1>1, <1>2, <1>3 DEF Inv

LEMMA PublishInv == ASSUME Inv, PublishCommand PROVE Inv'
<1> DEFINE n == published + 1
<1>1. /\ published \in Nat /\ n \in 1 .. n /\ n <= MaxCommands
      /\ cmd_vel \in Seq(1 .. n) /\ cmd_vel \in Seq(1 .. published)
      /\ QueueDepth \in Nat \ {0} /\ MaxCommands \in Nat
      /\ Waiting \in Nat /\ Waiting <= QueueDepth
  <2>1. published \in Nat /\ cmd_vel \in Seq(1 .. published)
    BY DriveAssumption DEF Inv, TypeOK
  <2>2. 1 .. published \subseteq 1 .. n /\ n \in 1 .. n
    BY <2>1
  <2>3. cmd_vel \in Seq(1 .. n)
    BY <2>1, <2>2
  <2> QED BY <2>1, <2>2, <2>3, DriveAssumption DEF Inv, TypeOK, PublishCommand, Waiting
<1>2. published' = n /\ cmd_vel' = KeepLast(cmd_vel, n)
  BY DEF PublishCommand
<1>3. /\ cmd_vel' \in Seq(1 .. n) /\ cmd_vel' # <<>>
      /\ Waiting' <= QueueDepth /\ Waiting' <= n
      /\ n - Waiting' >= published - Waiting
      /\ \A i \in 1 .. Waiting' : cmd_vel'[i] = (n - Waiting') + i
  <2>1. CASE Len(cmd_vel) < QueueDepth
    <3>1. cmd_vel' = Append(cmd_vel, n)
      BY <1>2, <2>1 DEF KeepLast
    <3>2. cmd_vel' \in Seq(1 .. n) /\ Waiting' = Waiting + 1
      BY <1>1, <3>1 DEF Waiting
    <3>3. \A i \in 1 .. Waiting : cmd_vel'[i] = cmd_vel[i]
      BY <1>1, <3>1 DEF Waiting
    <3>4. cmd_vel'[Waiting + 1] = n
      BY <1>1, <3>1 DEF Waiting
    <3>5. /\ Waiting <= published /\ Waiting < QueueDepth
          /\ \A i \in 1 .. Waiting : cmd_vel[i] = (published - Waiting) + i
      BY <2>1 DEF Inv, Consecutive, Waiting
    <3>6. cmd_vel' # <<>>
      BY <1>1, <3>1
    <3>7. \A i \in 1 .. Waiting + 1 : cmd_vel'[i] = (published - Waiting) + i
      BY <1>1, <3>3, <3>4, <3>5
    <3> HIDE DEF Waiting
    <3> QED BY <1>1, <3>2, <3>5, <3>6, <3>7
  <2>2. CASE ~(Len(cmd_vel) < QueueDepth)
    <3>1. cmd_vel' = Append(Tail(cmd_vel), n) /\ cmd_vel # <<>>
      BY <1>1, <1>2, <2>2 DEF KeepLast
    <3>2. /\ Tail(cmd_vel) \in Seq(1 .. n) /\ Len(Tail(cmd_vel)) = Waiting - 1
          /\ \A i \in 1 .. Waiting - 1 : Tail(cmd_vel)[i] = cmd_vel[i + 1]
      BY <1>1, <3>1 DEF Waiting
    <3>3. cmd_vel' \in Seq(1 .. n) /\ Waiting' = Waiting
      BY <1>1, <3>1, <3>2 DEF Waiting
    <3>4. \A i \in 1 .. Waiting - 1 : cmd_vel'[i] = cmd_vel[i + 1]
      BY <1>1, <3>1, <3>2
    <3>5. cmd_vel'[Waiting] = n
      BY <1>1, <3>1, <3>2
    <3>6. Waiting >= 1 /\ cmd_vel' # <<>>
      BY <1>1, <2>2, <3>3 DEF Waiting
    <3>7. /\ Waiting <= published
          /\ \A i \in 1 .. Waiting : cmd_vel[i] = (published - Waiting) + i
      BY DEF Inv, Consecutive
    <3>8. \A i \in 1 .. Waiting : cmd_vel'[i] = (n - Waiting) + i
      <4>1. TAKE i \in 1 .. Waiting
      <4>2. CASE i = Waiting
        BY <1>1, <3>5, <4>2
      <4>3. CASE i # Waiting
        <5>1. i \in 1 .. Waiting - 1 /\ i + 1 \in 1 .. Waiting
          BY <1>1, <4>3
        <5>2. cmd_vel'[i] = (published - Waiting) + (i + 1)
          BY <3>4, <3>7, <5>1
        <5> QED BY <1>1, <5>1, <5>2
      <4> QED BY <4>2, <4>3
    <3> QED BY <1>1, <3>3, <3>6, <3>7, <3>8
  <2> QED BY <2>1, <2>2
<1>4. UNCHANGED <<executor, unsure, registers, count, serviceVars>>
  BY DEF PublishCommand
<1>5. TypeOK'
  BY <1>1, <1>2, <1>3, <1>4 DEF Inv, TypeOK, serviceVars, Waiting
<1>6. Consecutive'
  BY <1>2, <1>3 DEF Consecutive
<1>7. Behind'
  <2>1. registers["velocity"] \in Nat /\ registers["velocity"] <= published - Waiting
    BY RegisterNames DEF Inv, TypeOK, Behind
  <2>2. Waiting' \in Nat
    BY <1>3 DEF Waiting
  <2>3. registers'["velocity"] = registers["velocity"] /\ published' = n
    BY <1>2, <1>4
  <2>4. /\ Waiting \in Nat /\ published \in Nat /\ n \in Nat
        /\ n - Waiting' >= published - Waiting
    BY <1>1, <1>3
  <2>5. \A v, a, b \in Int : v <= a /\ b >= a => v <= b
    OBVIOUS
  <2>6. published - Waiting \in Int /\ n - Waiting' \in Int
    BY <2>2, <2>4
  <2>7. registers["velocity"] <= n - Waiting'
    BY <2>1, <2>4, <2>5, <2>6
  <2> QED BY <2>3, <2>7 DEF Behind
<1>8. LatestCommandHolds' /\ AnswerIsTrue'
  BY <1>3, <1>4 DEF Inv, serviceVars, LatestCommandHolds, AnswerIsTrue
<1> QED BY <1>5, <1>6, <1>7, <1>8 DEF Inv

\* What the callback finds at the head of the queue.
LEMMA HeadIsNext ==
    ASSUME Inv, cmd_vel # <<>>
    PROVE  /\ published \in Nat /\ Waiting \in Nat /\ Waiting >= 1
           /\ Waiting <= published
           /\ Head(cmd_vel) = (published - Waiting) + 1
           /\ Head(cmd_vel) \in 1 .. published
           /\ Tail(cmd_vel) \in Seq(1 .. published)
           /\ Len(Tail(cmd_vel)) = Waiting - 1
           /\ \A i \in 1 .. Waiting - 1 : Tail(cmd_vel)[i] = cmd_vel[i + 1]
<1>1. cmd_vel \in Seq(1 .. published) /\ published \in Nat
  BY DriveAssumption DEF Inv, TypeOK
<1>2. /\ Waiting \in Nat /\ Waiting >= 1 /\ Head(cmd_vel) = cmd_vel[1]
      /\ Tail(cmd_vel) \in Seq(1 .. published) /\ Len(Tail(cmd_vel)) = Waiting - 1
      /\ \A i \in 1 .. Waiting - 1 : Tail(cmd_vel)[i] = cmd_vel[i + 1]
  BY <1>1 DEF Waiting
<1>3. Waiting <= published /\ cmd_vel[1] = (published - Waiting) + 1
  BY <1>2 DEF Inv, Consecutive
<1> QED BY <1>1, <1>2, <1>3

LEMMA CmdVelInv ==
    ASSUME Inv, NEW outcome \in Outcomes, CmdVelCallback(outcome)
    PROVE  Inv' /\ registers'["velocity"] >= registers["velocity"]
<1>1. /\ cmd_vel # <<>> /\ Write("velocity", Head(cmd_vel), outcome)
      /\ cmd_vel' = Tail(cmd_vel)
      /\ unsure' = IF outcome = "done" THEN unsure ELSE Head(cmd_vel)
      /\ UNCHANGED <<executor, published, count, serviceVars>>
  BY DEF CmdVelCallback, Succeeded
<1>2. /\ published \in Nat /\ Waiting \in Nat /\ Waiting >= 1 /\ Waiting <= published
      /\ Head(cmd_vel) = (published - Waiting) + 1
      /\ Head(cmd_vel) \in 1 .. published
      /\ Tail(cmd_vel) \in Seq(1 .. published) /\ Len(Tail(cmd_vel)) = Waiting - 1
      /\ \A i \in 1 .. Waiting - 1 : Tail(cmd_vel)[i] = cmd_vel[i + 1]
  BY <1>1, HeadIsNext
<1>3. /\ registers' \in [Registers -> Nat]
      /\ \A q \in Registers \ {"velocity"} : registers'[q] = registers[q]
      /\ registers'["velocity"] \in {registers["velocity"], Head(cmd_vel)}
      /\ outcome = "done" => registers'["velocity"] = Head(cmd_vel)
  <2>1. registers \in [Registers -> Nat] /\ Head(cmd_vel) \in Nat
    BY <1>2 DEF Inv, TypeOK
  <2> HIDE DEF Write
  <2> QED BY <1>1, <2>1, WriteType, RegisterNames
<1>4. Waiting' = Waiting - 1
  BY <1>1, <1>2 DEF Waiting
<1>5. registers["velocity"] \in Nat /\ registers["velocity"] <= published - Waiting
  BY RegisterNames DEF Inv, TypeOK, Behind
<1>6. TypeOK'
  <2>1. unsure' \in 0 .. published
    BY <1>1, <1>2 DEF Inv, TypeOK
  <2>2. Len(cmd_vel') <= QueueDepth
    BY <1>1, <1>2, DriveAssumption DEF Inv, TypeOK, Waiting
  <2> QED BY <1>1, <1>2, <1>3, <2>1, <2>2 DEF Inv, TypeOK, serviceVars
<1>7. Consecutive'
  <2>1. \A i \in 1 .. Waiting - 1 : cmd_vel[i + 1] = (published - Waiting) + (i + 1)
    BY <1>2 DEF Inv, Consecutive
  <2> QED BY <1>1, <1>2, <1>4, <2>1 DEF Consecutive
<1>8. Behind'
  BY <1>1, <1>2, <1>3, <1>4, <1>5 DEF Behind
<1>9. LatestCommandHolds'
  <2>1. SUFFICES ASSUME cmd_vel' = <<>>
                 PROVE  published \in {registers'["velocity"], unsure'}
    BY <1>1 DEF LatestCommandHolds
  <2>2. Waiting' = 0
    BY <2>1 DEF Waiting
  <2>3. Waiting = 1
    BY <1>2, <1>4, <2>2
  <2>4. Head(cmd_vel) = published
    BY <1>2, <2>3
  <2> QED BY <1>1, <1>3, <2>4
<1>10. AnswerIsTrue'
  <2>1. \A s \in Services : registers'[s] = registers[s]
    BY <1>3, RegisterNames
  <2> QED BY <1>1, <2>1 DEF Inv, AnswerIsTrue, serviceVars
<1>11. registers'["velocity"] >= registers["velocity"]
  BY <1>2, <1>3, <1>5
<1> QED BY <1>6, <1>7, <1>8, <1>9, <1>10, <1>11 DEF Inv

LEMMA RequestInv ==
    ASSUME Inv, NEW s \in Services, NEW v \in Values, Request(s, v) PROVE Inv'
<1> USE DEF Inv, Request
<1>1. TypeOK'
  BY DEF TypeOK, cmdVars
<1>2. (Consecutive /\ Behind /\ LatestCommandHolds)'
  BY DEF cmdVars, Consecutive, Behind, Waiting, LatestCommandHolds
<1>3. AnswerIsTrue'
  BY DEF AnswerIsTrue
<1> QED BY <1>1, <1>2, <1>3

LEMMA CommandInv ==
    ASSUME Inv, NEW s \in Services, NEW outcome \in Outcomes, Command(s, outcome)
    PROVE  Inv' /\ registers'["velocity"] = registers["velocity"]
<1> DEFINE v == requests[s]
<1>1. v \in Values /\ v \in Nat /\ s \in Registers \ {"velocity"}
      /\ registers \in [Registers -> Nat]
  BY RegisterNames DEF Inv, TypeOK, Command, Values, NoRequest
<1>2. /\ Write(s, v, outcome)
      /\ answers' = [answers EXCEPT ![s] = [asked |-> v, success |-> outcome = "done"]]
      /\ requests' = [requests EXCEPT ![s] = NoRequest]
      /\ UNCHANGED <<executor, cmdVars, count>>
  BY DEF Command, Succeeded
<1>3. /\ registers' \in [Registers -> Nat]
      /\ \A q \in Registers \ {s} : registers'[q] = registers[q]
      /\ outcome = "done" => registers'[s] = v
  BY <1>1, <1>2, WriteType
<1>4. registers'["velocity"] = registers["velocity"]
  BY <1>1, <1>3, RegisterNames
<1>5. TypeOK'
  <2>1. answers' \in [Services -> [asked : Values \cup {NoRequest}, success : BOOLEAN]]
    BY <1>1, <1>2 DEF Inv, TypeOK
  <2>2. requests' \in [Services -> Values \cup {NoRequest}]
    BY <1>2 DEF Inv, TypeOK
  <2> QED BY <1>2, <1>3, <2>1, <2>2 DEF Inv, TypeOK, cmdVars
<1>6. (Consecutive /\ Behind /\ LatestCommandHolds)'
  BY <1>2, <1>4 DEF Inv, cmdVars, Consecutive, Behind, Waiting, LatestCommandHolds
<1>7. AnswerIsTrue'
  <2>1. SUFFICES ASSUME NEW t \in Services, answers'[t].success
                 PROVE  registers'[t] = answers'[t].asked
    BY DEF AnswerIsTrue
  <2>2. CASE t = s
    <3>1. answers'[s] = [asked |-> v, success |-> outcome = "done"]
      BY <1>2 DEF Inv, TypeOK
    <3>2. answers'[t].success = (outcome = "done") /\ answers'[t].asked = v
      BY <2>2, <3>1
    <3>3. outcome = "done"
      BY <2>1, <3>2
    <3> QED BY <1>3, <2>2, <3>2, <3>3
  <2>3. CASE t # s
    <3>1. answers'[t] = answers[t] /\ registers'[t] = registers[t]
      BY <1>2, <1>3, <2>3, RegisterNames DEF Inv, TypeOK
    <3> QED BY <2>1, <3>1 DEF Inv, AnswerIsTrue
  <2> QED BY <2>2, <2>3
<1> QED BY <1>4, <1>5, <1>6, <1>7 DEF Inv

LEMMA ControlInv ==
    ASSUME Inv,
           (\E ok \in BOOLEAN : Connect(ok)) \/ Run \/ ResetCommand \/ CalibrationEnd
    PROVE  Inv' /\ registers' = registers
<1>1. /\ UNCHANGED <<cmdVars, serviceVars, registers, count>>
      /\ executor' \in {"connecting", "failed", "starting", "idle", "calibrating"}
  BY DEF Connect, Run, ResetCommand, CalibrationEnd
<1>2. registers \in [Registers -> Nat] /\ count \in 0 .. HeartbeatRange - 1
  BY DEF Inv, TypeOK
<1> QED BY <1>1, <1>2, Frame

LEMMA HeartbeatInv ==
    ASSUME Inv, NEW outcome \in Outcomes, HeartbeatTimer(outcome)
    PROVE  Inv' /\ registers'["velocity"] = registers["velocity"]
<1>1. /\ Write("heartbeat", count, outcome) /\ count' = (count + 1) % HeartbeatRange
      /\ UNCHANGED <<executor, cmdVars, serviceVars>>
  BY DEF HeartbeatTimer
<1>2. /\ registers \in [Registers -> Nat] /\ count \in Nat /\ HeartbeatRange \in Nat \ {0}
      /\ executor \in {"connecting", "failed", "starting", "idle", "calibrating"}
  BY DriveAssumption DEF Inv, TypeOK
<1>3. /\ registers' \in [Registers -> Nat]
      /\ registers'["velocity"] = registers["velocity"]
      /\ \A s \in Services : registers'[s] = registers[s]
  BY <1>1, <1>2, WriteType, RegisterNames
<1>4. count' \in 0 .. HeartbeatRange - 1
  BY <1>1, <1>2
<1> QED BY <1>1, <1>2, <1>3, <1>4, Frame

LEMMA ParameterInv ==
    ASSUME Inv, NEW v \in Values, NEW outcome \in Outcomes, ParameterEvent(v, outcome)
    PROVE  Inv' /\ registers'["velocity"] = registers["velocity"]
<1>1. /\ Write("acceleration", v, outcome)
      /\ UNCHANGED <<executor, cmdVars, count, serviceVars>>
  BY DEF ParameterEvent
<1>2. /\ registers \in [Registers -> Nat] /\ v \in Nat /\ count \in 0 .. HeartbeatRange - 1
      /\ executor \in {"connecting", "failed", "starting", "idle", "calibrating"}
  BY DEF Inv, TypeOK, Values
<1>3. /\ registers' \in [Registers -> Nat]
      /\ registers'["velocity"] = registers["velocity"]
      /\ \A s \in Services : registers'[s] = registers[s]
  BY <1>1, <1>2, WriteType, RegisterNames
<1> QED BY <1>1, <1>2, <1>3, Frame

-----------------------------------------------------------------------------

LEMMA StepInv ==
    ASSUME Inv, [Next]_vars
    PROVE  Inv' /\ registers'["velocity"] >= registers["velocity"]
<1>1. registers["velocity"] \in Nat
  BY RegisterNames DEF Inv, TypeOK
<1>2. CASE (\E ok \in BOOLEAN : Connect(ok)) \/ Run \/ ResetCommand \/ CalibrationEnd
  BY <1>1, <1>2, ControlInv
<1>3. CASE PublishCommand
  <2>1. registers' = registers
    BY <1>3 DEF PublishCommand
  <2> QED BY <1>1, <1>3, <2>1, PublishInv
<1>4. ASSUME NEW s \in Services, NEW v \in Values, Request(s, v)
      PROVE  Inv' /\ registers'["velocity"] >= registers["velocity"]
  <2>1. registers' = registers
    BY <1>4 DEF Request
  <2> QED BY <1>1, <1>4, <2>1, RequestInv
<1>5. ASSUME NEW outcome \in Outcomes, CmdVelCallback(outcome)
      PROVE  Inv' /\ registers'["velocity"] >= registers["velocity"]
  BY <1>5, CmdVelInv
<1>6. ASSUME NEW outcome \in Outcomes, HeartbeatTimer(outcome)
      PROVE  Inv' /\ registers'["velocity"] >= registers["velocity"]
  BY <1>1, <1>6, HeartbeatInv
<1>7. ASSUME NEW outcome \in Outcomes, NEW s \in Services, Command(s, outcome)
      PROVE  Inv' /\ registers'["velocity"] >= registers["velocity"]
  BY <1>1, <1>7, CommandInv
<1>8. ASSUME NEW outcome \in Outcomes, NEW v \in Values, ParameterEvent(v, outcome)
      PROVE  Inv' /\ registers'["velocity"] >= registers["velocity"]
  BY <1>1, <1>8, ParameterInv
<1>9. CASE UNCHANGED vars
  <2>1. /\ UNCHANGED <<cmdVars, serviceVars, registers, count, executor>>
        /\ registers \in [Registers -> Nat] /\ count \in 0 .. HeartbeatRange - 1
        /\ executor \in {"connecting", "failed", "starting", "idle", "calibrating"}
    BY <1>9 DEF vars, Inv, TypeOK
  <2> QED BY <1>1, <2>1, Frame
<1> QED BY <1>2, <1>3, <1>4, <1>5, <1>6, <1>7, <1>8, <1>9 DEF Next, Callback

\* The types of the variables, and no more than QueueDepth commands wait.
THEOREM TypeCorrect == Spec => []TypeOK
<1>1. Init => Inv BY InitInv
<1>2. Inv /\ [Next]_vars => Inv' BY StepInv
<1>3. Inv => TypeOK BY DEF Inv
<1> QED BY <1>1, <1>2, <1>3, PTL DEF Spec

\* When the queue is empty the board has the latest command or its write was
\* reported to have failed, whatever the queue dropped.
THEOREM LatestHolds == Spec => []LatestCommandHolds
<1>1. Init => Inv BY InitInv
<1>2. Inv /\ [Next]_vars => Inv' BY StepInv
<1>3. Inv => LatestCommandHolds BY DEF Inv
<1> QED BY <1>1, <1>2, <1>3, PTL DEF Spec

\* A success that motor_power or sound reported stays true.
THEOREM AnswersAreTrue == Spec => []AnswerIsTrue
<1>1. Init => Inv BY InitInv
<1>2. Inv /\ [Next]_vars => Inv' BY StepInv
<1>3. Inv => AnswerIsTrue BY DEF Inv
<1> QED BY <1>1, <1>2, <1>3, PTL DEF Spec

\* The velocity of the board never goes back to an older command.
THEOREM InOrder == Spec => CommandsInOrder
<1>1. Init => Inv BY InitInv
<1>2. Inv /\ [Next]_vars => Inv' BY StepInv
<1>3. Inv /\ [Next]_vars => [registers'["velocity"] >= registers["velocity"]]_vars
  BY StepInv
<1> QED BY <1>1, <1>2, <1>3, PTL DEF Spec, CommandsInOrder
=============================================================================
