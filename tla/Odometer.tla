------------------------------- MODULE Odometer -------------------------------
(***************************************************************************)
(* What the wheel odometry promises its subscribers, without the           *)
(* differences, accumulators and static variables it is built from: a      *)
(* lossy channel of places, in order.  The robot's place is sampled, both  *)
(* wheels at once; a sample may repeat the one before it (when a read of   *)
(* the board fails), it is ready once the next is taken, the oldest may be *)
(* lost, and none overtakes another.  The distance travelled is the one    *)
(* from the origin to the place shown last, whatever lay between them.     *)
(***************************************************************************)
EXTENDS Integers, Sequences

VARIABLES
    place,      (* ticks of each wheel since the start             *)
    sampled,    (* samples not shown yet, the newest not ready yet *)
    shown,      (* the sample shown last                           *)
    started,    (* has one been shown?                             *)
    origin,     (* the place from which the distance counts        *)
    travelled   (* that distance, in ticks of both wheels          *)

odometerVars == <<place, sampled, shown, started, origin, travelled>>

Wheels   == {"left", "right"}
Places   == [Wheels -> Int]
Start    == [w \in Wheels |-> 0]
Ticks(p) == p["left"] + p["right"]

Init ==
    /\ place \in Places
    /\ sampled = <<Start>>
    /\ shown = Start /\ origin = Start
    /\ started = FALSE
    /\ travelled = 0

Move ==
    /\ \E w \in Wheels, d \in {-1, 1} : place' = [place EXCEPT ![w] = @ + d]
    /\ UNCHANGED <<sampled, shown, started, origin, travelled>>

\* A new sample, which may push the oldest ready one out of the channel.
Sample ==
    /\ \E new \in {place, sampled[Len(sampled)]} :
          \/ sampled' = Append(sampled, new)
          \/ Len(sampled) > 1 /\ sampled' = Append(Tail(sampled), new)
    /\ UNCHANGED <<place, shown, started, origin, travelled>>

Lose ==
    /\ Len(sampled) > 1
    /\ sampled' = Tail(sampled)
    /\ UNCHANGED <<place, shown, started, origin, travelled>>

\* The first place shown is the origin.
Show ==
    /\ Len(sampled) > 1
    /\ shown' = Head(sampled)
    /\ sampled' = Tail(sampled)
    /\ started' = TRUE
    /\ origin' = IF started THEN origin ELSE shown'
    /\ travelled' = Ticks(shown') - Ticks(origin')
    /\ UNCHANGED place

Reset ==
    /\ origin' = shown
    /\ travelled' = 0
    /\ UNCHANGED <<place, sampled, shown, started>>

Next == Move \/ Sample \/ Lose \/ Show \/ Reset

Spec == Init /\ [][Next]_odometerVars
=============================================================================
