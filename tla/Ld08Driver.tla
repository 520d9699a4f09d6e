------------------------------ MODULE Ld08Driver ------------------------------
(***************************************************************************)
(* The LD08 lidar driver: the receive thread of CmdInterfaceLinux, which   *)
(* parses packets and assembles them into frames (LiPkg), and the main     *)
(* loop, which polls mIsFrameReady at 100 Hz and publishes LiPkg::output.  *)
(* The two threads share output and mIsFrameReady without a lock.  main    *)
(* opens the port, which starts the thread, and closes it when the node    *)
(* shuts down.                                                             *)
(*                                                                         *)
(* A point is numbered by its place in the lidar's stream; its angle is    *)
(* that number modulo Slots, its rotation the quotient.  A point is valid  *)
(* if Transform and NearFilter keep it (distance # 0).  Writing output     *)
(* (ToLaserscan) and copying it (GetLaserScan) take time: a copy that      *)
(* overlaps a write is not whole.                                          *)
(***************************************************************************)
EXTENDS Naturals, FiniteSetsExt, SequencesExt

CONSTANTS
    Slots,       \* points in a rotation
    CutDrop,     \* the 350 degrees of lipkg.cpp:177, in slots; points are
                 \* closer than the 10 degrees that are left
    MaxChunk,    \* bound: points that one read of the port delivers
    MaxPoints    \* bound: the points sent have smaller numbers

ASSUME Ld08Assumption ==
    /\ Slots \in Nat \ {0} /\ CutDrop \in Nat /\ CutDrop < Slots - 1
    /\ MaxChunk \in Nat \ {0} /\ MaxPoints \in Nat /\ Slots <= MaxPoints

VARIABLES
    received,       \* history: the points parsed so far, in order
    sent,           \* number of the point the lidar sends next
    mFrameTemp,     \* points not assembled into a frame yet
    rx,             \* what the receive thread is doing
    output,         \* the LaserScan message the threads share
    mIsFrameReady,
    main,           \* where main is; the flags of CmdInterfaceLinux follow
    copy,           \* the message returned by GetLaserScan
    published,      \* the latest message on topic scan
    framed,         \* history: all points that were put into frames
    late            \* history: Behind when the latest frame was begun

vars == <<received, sent, mFrameTemp, rx, output, mIsFrameReady, main, copy,
          published, framed, late>>
mainVars == <<main, copy, published>>

Points   == [at : Nat, valid : BOOLEAN]
Messages == [serial : Nat, frame : Seq(Points), whole : BOOLEAN]

Angle(p)    == p.at % Slots
Rotation(p) == p.at \div Slots
Valid(p)    == p.valid

Init ==
    /\ received = <<>> /\ sent \in 0 .. Slots - 1 /\ mFrameTemp = <<>> /\ framed = {}
    /\ rx = "none"
    /\ output = [serial |-> 0, frame |-> <<>>, whole |-> TRUE]
    /\ mIsFrameReady = FALSE
    /\ main = "starting"
    /\ copy = output /\ published = output
    /\ late = FALSE

-----------------------------------------------------------------------------
(* AssemblePacket.                                                         *)

\* Points whose angle falls back far enough to end a rotation.
Cuts(points) ==
    {i \in 2 .. Len(points) : Angle(points[i-1]) > Angle(points[i]) + CutDrop}

\* The members of a finite set as a sequence: each follows those before it.
Listed(S, Before(_, _)) ==
    [k \in 1 .. Cardinality(S) |->
        CHOOSE p \in S : Cardinality({q \in S : Before(q, p)}) = k - 1]

\* Transform and NearFilter drop points of tmp, here at the indices I, and
\* move none in the stream.
Filtered(points, I) == {points[k] : k \in {k \in I : Valid(points[k])}}

\* The frame is sorted by its angles, which are turned into a right-handed
\* system: the lidar counts clockwise.  std::sort may leave points of the same
\* angle in any order; this is one.
RightHand(p)      == (Slots - Angle(p)) % Slots
AngleBefore(q, p) == \/ RightHand(q) < RightHand(p)
                     \/ RightHand(q) = RightHand(p) /\ q.at < p.at
Sorted(S)         == Listed(S, AngleBefore)

\* The points that make the frame at cut i: those before it that survive
\* the filters.  A cut that found no such point is passed over and its own
\* point with it: tmp then starts after it.
Start(points, i) == 1 + Max({0} \cup {j \in Cuts(points) : j < i})
FrameUpTo(points, i)   == Filtered(points, Start(points, i) .. i)      \* mutant
FrameBefore(points, i) == Filtered(points, Start(points, i) .. i - 1)

\* The cuts at which a frame can be made; the first one is used.
FrameCutsUnchecked(points) == Cuts(points)                         \* mutant
FrameCuts(points) == {i \in Cuts(points) : FrameBefore(points, i) # {}}
FirstCut(points)  == Min(FrameCuts(points))

-----------------------------------------------------------------------------
(* CmdInterfaceLinux: opening and closing the port.                        *)

\* What Close has written: each is read by the receive thread.
ExitFlagUnset     == FALSE                                         \* mutant
mRxThreadExitFlag == main \in {"closing", "joining"}
mComHandleClosed  == main = "joining"

Main(pc) ==
    /\ main' = pc
    /\ UNCHANGED <<received, sent, mFrameTemp, output, mIsFrameReady, copy,
                   published, framed, late>>

\* GetCmdDevices finds no CP2102.
NoDevice == main = "starting" /\ Main("returned") /\ UNCHANGED rx

\* Open starts the thread and then sets mIsCmdOpened.  The flag is not
\* initialised, so the thread may find it set before that or may not, and read
\* or wait.  Where open, tcgetattr or tcsetattr fails there is no thread, and
\* main waits all the same.
Open(ok) ==
    /\ main = "starting"
    /\ IF ok THEN rx' = "reading" /\ Main("started")
             ELSE UNCHANGED rx /\ Main("poll")

Opened == main = "started" /\ Main("poll") /\ UNCHANGED rx

\* rclcpp::ok() is false: main returns and ~CmdInterfaceLinux calls Close,
\* which sets the flag, closes the handle and joins the thread.
Shutdown == main = "poll" /\ Main("closing") /\ UNCHANGED rx
Close    == main = "closing" /\ Main("joining") /\ UNCHANGED rx
Join     == main = "joining" /\ rx \in {"none", "ended"} /\ Main("returned") /\ UNCHANGED rx

\* mRxThreadProc reads the flag before each read of the port.
RxContinues == rx' = IF mRxThreadExitFlag THEN "ended" ELSE "reading"

\* ReadFromIO has nothing: no byte for 100 ms, or the handle is closed.
ReadNothing ==
    /\ rx = "reading"
    /\ RxContinues
    /\ UNCHANGED <<received, sent, mFrameTemp, output, mIsFrameReady, mainVars, framed, late>>

\* A handle of -1 in FD_SET or FD_ISSET is undefined; the checked macros of a
\* hardened build abort the process.
HandleGone ==
    /\ rx = "reading" /\ mComHandleClosed
    /\ rx' = "ended" /\ Main("aborted")

-----------------------------------------------------------------------------
(* The receive thread.                                                     *)

\* A read of the port: some points arrive, some packets fail their CRC and
\* are dropped by Parse.  AssemblePacket then looks for a complete frame;
\* if there is one, ToLaserscan starts to overwrite output.
Chunks == UNION {[1 .. n -> {"valid", "invalid", "lost"}] : n \in 1 .. MaxChunk}

SentBefore(q, p) == q.at < p.at
InOrder(S)       == Listed(S, SentBefore)

Parsed(chunk, from) ==
    InOrder({[at |-> from + k - 1, valid |-> chunk[k] = "valid"] :
                k \in {i \in DOMAIN chunk : chunk[i] # "lost"}})

\* A copy that is under way mixes the old and the new frame.
Torn(c) == IF main = "copying" THEN [c EXCEPT !.whole = FALSE] ELSE c

\* The loop has a frame to publish that it has not copied to the end yet.
Behind ==
    \/ main \in {"started", "poll"} /\ mIsFrameReady
    \/ main \in {"stamped", "copying"}

\* The receive thread never looks at the flag or at main before it writes.
StartFrameEarly ==                                                 \* mutant
    /\ rx' = "filling"
    /\ output' = [output EXCEPT !.whole = FALSE]
    /\ copy' = Torn(copy)
    /\ mIsFrameReady' = TRUE
    /\ late' = Behind
StartFrame ==
    /\ rx' = "filling"
    /\ output' = [output EXCEPT !.whole = FALSE]
    /\ copy' = Torn(copy)
    /\ late' = Behind
    /\ UNCHANGED mIsFrameReady

Receive(chunk) ==
    /\ rx = "reading" /\ ~mComHandleClosed
    /\ sent + Len(chunk) <= MaxPoints
    /\ sent' = sent + Len(chunk)
    /\ received' = received \o Parsed(chunk, sent)
    /\ mFrameTemp' = mFrameTemp \o Parsed(chunk, sent)
    /\ IF FrameCuts(mFrameTemp') # {}
       THEN StartFrame
       ELSE RxContinues /\ UNCHANGED <<output, copy, mIsFrameReady, late>>
    /\ UNCHANGED <<main, published, framed>>

\* ToLaserscan has written the frame.
ToLaserscan ==
    /\ rx = "filling"
    /\ rx' = "flagging"
    /\ output' = [serial |-> output.serial + 1, whole |-> TRUE,
                  frame  |-> Sorted(FrameBefore(mFrameTemp, FirstCut(mFrameTemp)))]
    /\ framed' = framed \cup ToSet(output'.frame)
    /\ copy' = Torn(copy)
    /\ UNCHANGED <<received, sent, mFrameTemp, mIsFrameReady, main, published, late>>

\* The rest of AssemblePacket: the flag, and count points are erased.
RestPastCut(points, i) == SubSeq(points, i + 1, Len(points))       \* mutant
Rest(points, i)        == SubSeq(points, i, Len(points))

FrameReadySilently ==                                              \* mutant
    /\ rx = "flagging"
    /\ RxContinues
    /\ mFrameTemp' = Rest(mFrameTemp, FirstCut(mFrameTemp))
    /\ UNCHANGED <<received, sent, output, mIsFrameReady, mainVars, framed, late>>
FrameReady ==
    /\ rx = "flagging"
    /\ RxContinues
    /\ mIsFrameReady' = TRUE
    /\ mFrameTemp' = Rest(mFrameTemp, FirstCut(mFrameTemp))
    /\ UNCHANGED <<received, sent, output, mainVars, framed, late>>

-----------------------------------------------------------------------------
(* The main loop.                                                          *)

\* loop_rate.sleep when there is no frame.
Sleep ==
    /\ main = "poll"
    /\ ~mIsFrameReady
    /\ UNCHANGED vars

\* IsFrameReady, setStamp and setFrameId.
Poll ==
    /\ main = "poll"
    /\ mIsFrameReady
    /\ main' = "stamped"
    /\ UNCHANGED <<received, sent, mFrameTemp, rx, output, mIsFrameReady, copy,
                   published, framed, late>>

\* GetLaserScan begins to copy output.
GetLaserScan ==
    /\ main = "stamped"
    /\ main' = "copying"
    /\ copy' = output
    /\ UNCHANGED <<received, sent, mFrameTemp, rx, output, mIsFrameReady,
                   published, framed, late>>

\* The copy is complete and is published.
Publish ==
    /\ main = "copying"
    /\ main' = "published"
    /\ published' = copy
    /\ UNCHANGED <<received, sent, mFrameTemp, rx, output, mIsFrameReady, copy,
                   framed, late>>

LeaveFrameReady ==                                                 \* mutant
    /\ main = "published"
    /\ main' = "poll"
    /\ UNCHANGED <<received, sent, mFrameTemp, rx, output, mIsFrameReady, copy,
                   published, framed, late>>
ResetFrameReady ==
    /\ main = "published"
    /\ main' = "poll"
    /\ mIsFrameReady' = FALSE
    /\ UNCHANGED <<received, sent, mFrameTemp, rx, output, copy, published,
                   framed, late>>

RxProgress == ToLaserscan \/ FrameReady \/ ReadNothing
RxNext     == (\E chunk \in Chunks : Receive(chunk)) \/ RxProgress \/ HandleGone
LoopNext   == Poll \/ GetLaserScan \/ Publish \/ ResetFrameReady
PortNext   == Opened \/ Close \/ Join

\* The program ends when main returns.
Ended == main \in {"returned", "aborted"} /\ UNCHANGED vars

Next ==
    \/ NoDevice \/ (\E ok \in BOOLEAN : Open(ok)) \/ Shutdown
    \/ PortNext \/ LoopNext \/ Sleep
    \/ RxNext
    \/ Ended

Spec == Init /\ [][Next]_vars

\* Both threads keep running; the lidar may stop sending, and the node may
\* run for ever.
FairSpec == Spec /\ WF_vars(LoopNext \/ PortNext) /\ WF_vars(RxProgress)

-----------------------------------------------------------------------------
(* Properties.                                                             *)

\* The types of the variables; ToLaserscan never sees an empty frame, whose
\* front and back it would read.
TypeOK ==
    /\ received \in Seq(Points) /\ mFrameTemp \in Seq(Points)
    /\ framed \subseteq Points /\ sent \in 0 .. MaxPoints
    /\ rx \in {"none", "reading", "filling", "flagging", "ended"}
    /\ output \in Messages /\ copy \in Messages /\ published \in Messages
    /\ output.serial > 0 => output.frame # <<>>
    /\ mIsFrameReady \in BOOLEAN /\ late \in BOOLEAN
    /\ main \in {"starting", "started", "poll", "stamped", "copying", "published",
                 "closing", "joining", "returned", "aborted"}

\* The first point after a rotation that gave nothing to any frame: it is
\* the one point AssemblePacket drops, at lipkg.cpp:194-201, neither pushing
\* it on tmp nor keeping it for the next frame.
AfterBlindRotation(p) ==
    \E i \in Cuts(received) :
        /\ received[i] = p
        /\ \A k \in Max({1} \cup {j \in Cuts(received) : j < i}) .. i - 1 :
              received[k] \notin framed

\* Between two reads every valid point that was parsed is in a frame made so
\* far or waits in mFrameTemp, and never in both, with the one exception
\* above: the erase loop takes away just what went into the frame, and
\* points that came after the cut in the same read wait for the next frame.
PointsAreKept ==
    rx \in {"reading", "ended"} =>
        /\ \A p \in ToSet(received) :
              p.valid => \/ p \in framed \cup ToSet(mFrameTemp)
                         \/ AfterBlindRotation(p)
        /\ framed \cap ToSet(mFrameTemp) = {}

\* A frame joins points of two rotations only if a point between them was
\* lost, so that the angle may have fallen back too little to be seen.
OneRotationPerFrame ==
    \A p, q \in ToSet(output.frame) :
        Rotation(p) < Rotation(q) =>
            \E n \in p.at + 1 .. q.at - 1 : \A r \in ToSet(received) : r.at # n

Publishes == main' = "published" /\ main # "published"

\* The threads share output without a lock, so a message may mix two frames; but
\* the flag (lipkg.hpp:83, "Lidar data frame is ready") keeps its promise as long
\* as they do not overtake each other: a mixed message is published only if the
\* receive thread began the second frame before the loop had copied the first.
WholeUnlessLate == [][Publishes => published'.whole \/ late]_vars

\* The topic never goes back to an older frame, and shows a frame again only
\* if an older flag had let the loop copy it before its own flag rose: then
\* too it was begun before the loop had copied the frame before.
RepeatedOnlyIfLate ==
    [][Publishes => \/ published'.serial > published.serial
                    \/ published'.serial = published.serial /\ late]_vars

ShuttingDown == main \in {"closing", "joining", "returned", "aborted"}

\* A frame that is assembled while the loop is not between its copy and its
\* reset of the flag is published, or a later one, whether or not another
\* frame follows, unless the node shuts down.  A flag that rises between copy
\* and reset is lost, and its frame with it.
FrameIsPublished ==
    \A n \in 1 .. MaxPoints \div Slots :
        rx = "flagging" /\ output.serial = n /\ main \in {"started", "poll", "stamped"}
            ~> published.serial >= n \/ ShuttingDown

\* A shutdown comes to its end wherever it meets the receive thread: before
\* its first read, in pselect or in the middle of a frame.  main returns only
\* after the join, so the callback never sees the variables of main gone.
ShutdownCompletes ==
    main \in {"closing", "joining"} ~>
        main = "aborted" \/ (main = "returned" /\ rx \in {"none", "ended"})
=============================================================================
