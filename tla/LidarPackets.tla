----------------------------- MODULE LidarPackets -----------------------------
(***************************************************************************)
(* The parser of the Coin D4 lidar: wait_package finds packages in the     *)
(* bytes of the serial port and wait_scan_data collects their nodes for    *)
(* the grab thread.  One thread runs it, so an action is what it does      *)
(* between two places where time may run out.                              *)
(*                                                                         *)
(* A byte is a value below 5 that has what the parser tests of the real    *)
(* one: HeadLow and HeadHigh are the two bytes of PH, the lowest bit is    *)
(* CT_RingStart or the check bit, a count is a count.  It also has the     *)
(* place where it was sent, which stands for the checksum: the sums agree  *)
(* just for the bytes of one package, all there and undamaged.  Samples do *)
(* not look like PH.  Angles, distances and node indices, which the grab   *)
(* thread does not test, are left out.                                     *)
(***************************************************************************)
EXTENDS LidarBatch, Integers, SequencesExt, FiniteSetsExt

CONSTANTS
    None,
    PackageSampleBytes,  \* package_sample_bytes_: 2 or 3
    SampleNum,           \* samples in a package that starts no ring
    RecvBufferSize,      \* bytes of global_recv_buffer_
    Streams,             \* bound: the packages sent, TRUE for a ring start
    MaxFaults,           \* bound: bytes damaged or lost on the line
    MaxTimeouts          \* bound: calls that run out of time

PackagePaidBytes == 10

\* The buffer has room for a header and for the samples the lidar sends.
ASSUME PacketsAssumption ==
    /\ PackageSampleBytes \in {2, 3} /\ SampleNum \in 1 .. 4
    /\ RecvBufferSize \in Nat
    /\ PackagePaidBytes <= RecvBufferSize
    /\ SampleNum * PackageSampleBytes <= RecvBufferSize
    /\ Streams \subseteq Seq(BOOLEAN)
    /\ MaxFaults \in Nat /\ MaxTimeouts \in Nat

VARIABLES
    stream,                 \* the packages of this run
    faults,                 \* places of the bytes that do not arrive as sent
    line,                   \* bytes that will arrive, in order
    header,                 \* package_buffer[0 .. recv_pos - 1], while in the header
    package,                \* what wait_package takes from a complete package_buffer
    package_sample_index_,
    check_sum_result_,
    nodebuffer,             \* nodes of the call that runs
    ring_times,             \* times it set tim_scan_start or tim_scan_end
    returned,               \* what the last call returned
    overrun,                \* bytes were written past the end of global_recv_buffer_
    timeouts,
    \* History, read by no action:
    delivered,              \* nodes returned so far
    interrupted             \* places where a header was forgotten

vars == <<stream, faults, line, header, package, package_sample_index_,
          check_sum_result_, nodebuffer, ring_times, returned, overrun, timeouts,
          delivered, interrupted>>
-----------------------------------------------------------------------------
(* What the lidar sends.                                                   *)

HeadLow  == 4
HeadHigh == 3
Values   == 0 .. 4

\* A ring start has one sample.
NumOf(ring)    == IF ring THEN 1 ELSE SampleNum
LengthOf(ring) == PackagePaidBytes + NumOf(ring) * PackageSampleBytes

Encoded(ring) ==
    << HeadLow, HeadHigh, IF ring THEN 1 ELSE 0, NumOf(ring), 1, 0, 1, 0, 0, 0 >>
        \o [i \in 1 .. NumOf(ring) * PackageSampleBytes |-> 0]

\* The place of the last byte of package p.
EndOf(s, p) ==
    LET rings == Cardinality({q \in 1 .. p : s[q]})
    IN  rings * LengthOf(TRUE) + (p - rings) * LengthOf(FALSE)

\* The package that place n is in.
PackageAt(s, n) == CHOOSE p \in 1 .. Len(s) : n \in EndOf(s, p - 1) + 1 .. EndOf(s, p)

SentByte(s, p, i) ==
    [value |-> Encoded(s[p])[i], package |-> p, at |-> EndOf(s, p - 1) + i]

Sent(s) ==
    [n \in 1 .. EndOf(s, Len(s)) |->
        SentByte(s, PackageAt(s, n), n - EndOf(s, PackageAt(s, n) - 1))]

Init ==
    /\ stream \in Streams
    /\ line = Sent(stream)
    /\ faults = {}
    /\ header = << >>
    /\ package = [package |-> 0, ring |-> FALSE, num |-> 0]
    /\ package_sample_index_ = 0 /\ check_sum_result_ = FALSE
    /\ nodebuffer = << >> /\ ring_times = 0
    /\ returned = None /\ overrun = FALSE
    /\ timeouts = 0
    /\ delivered = << >> /\ interrupted = {}

\* The bytes wait_package asks for.
Wanted == IF Len(header) < PackagePaidBytes THEN PackagePaidBytes - Len(header)
                                            ELSE header[4].value * PackageSampleBytes

\* The line damages or loses a byte that is about to be read.
Disturb ==
    /\ ~overrun
    /\ Cardinality(faults) < MaxFaults
    /\ package_sample_index_ = 0
    /\ \E i \in 1 .. Wanted :
          /\ i <= Len(line) /\ line[i].package # 0
          /\ faults' = faults \cup {line[i].at}
          /\ \/ line' = RemoveAt(line, i)
             \/ \E v \in Values \ {line[i].value} :
                   line' = ReplaceAt(line, i, [value |-> v, package |-> 0, at |-> line[i].at])
    /\ UNCHANGED <<stream, header, package, package_sample_index_, check_sum_result_,
                   nodebuffer, ring_times, returned, overrun, timeouts, delivered,
                   interrupted>>
-----------------------------------------------------------------------------
(* wait_package.                                                           *)

\* mutant: an angle without its check bit does not start the search again.
HeaderAfterWaiting(h, b) ==
    CASE Len(h) = 0 /\ b.value # HeadLow          -> h
      [] Len(h) = 1 /\ b.value # HeadHigh         -> << >>
      [] Len(h) \in {4, 6} /\ b.value % 2 = 0     -> h
      [] OTHER                                    -> Append(h, b)

\* One byte of the header: a byte that does not fit starts the search again,
\* after that byte.
HeaderAfter(h, b) ==
    CASE Len(h) = 0 /\ b.value # HeadLow          -> h
      [] Len(h) = 1 /\ b.value # HeadHigh         -> << >>
      [] Len(h) \in {4, 6} /\ b.value % 2 = 0     -> << >>
      [] OTHER                                    -> Append(h, b)

\* Byte 2 of a header says whether a ring starts, and the time is taken.
StartsRing(h, b) == Len(h) = 2 /\ b.value % 2 = 1

HeaderByte(h, rings, b) ==
    [header |-> HeaderAfter(h, b),
     rings  |-> rings + (IF StartsRing(h, b) THEN 1 ELSE 0)]

\* waitForData: n bytes wait at the port.  The callers then read just n.
Arrived(n) == n <= Len(line)

\* The search after n bytes of the line.
Searched(n) ==
    LET search[i \in 0 .. n] ==
            IF i = 0 THEN [header |-> header, rings |-> ring_times]
            ELSE LET found == search[i - 1]
                 IN  HeaderByte(found.header, found.rings, line[i])
    IN  search[n]

\* The search asks for the bytes that are missing and takes no more.
ReadHeader ==
    /\ ~overrun /\ package_sample_index_ = 0
    /\ Len(header) < PackagePaidBytes
    /\ Arrived(Wanted)
    /\ header' = Searched(Wanted).header
    /\ ring_times' = Searched(Wanted).rings
    /\ line' = SubSeq(line, Wanted + 1, Len(line))
    /\ UNCHANGED <<stream, faults, package, package_sample_index_, check_sum_result_,
                   nodebuffer, returned, overrun, timeouts, delivered, interrupted>>

\* mutant: the sum does not include package_CT and nowPackageNum.
CheckedButCt(bytes) ==
    \A i \in 1 .. Len(bytes) :
        i \notin {3, 4} => /\ bytes[i].package = bytes[1].package
                           /\ bytes[i].package # 0
                           /\ bytes[i].at = bytes[1].at + i - 1

\* calculated_check_sum_ = target_check_sum_
Checked(bytes) ==
    \A i \in 1 .. Len(bytes) :
        /\ bytes[i].package = bytes[1].package
        /\ bytes[i].package # 0
        /\ bytes[i].at = bytes[1].at + i - 1

\* The node of a sample.  Without a good sum it has no distance and no sync flag.
Node(pack, check, i) ==
    [package |-> IF check THEN pack.package ELSE 0,
     sample  |-> i,
     sync    |-> check /\ pack.ring]

\* mutant: a call that fills the buffer goes on.
FinishedAtRing(nodes) == nodes[Len(nodes)].sync

Finished(nodes) == nodes[Len(nodes)].sync \/ Len(nodes) = BatchSize

Return(ok, nodes, rings) ==
    /\ returned' = [ok |-> ok, nodes |-> nodes, ring_times |-> rings]
    /\ delivered' = delivered \o nodes
    /\ nodebuffer' = << >>
    /\ ring_times' = 0

\* mutant: one node too many is made of a package.
LastSampleLate(pack, i) == i + 1 > pack.num

LastSample(pack, i) == i + 1 >= pack.num

NextIndex(pack, i) == IF LastSample(pack, i) THEN 0 ELSE i + 1

\* The end of wait_package, and wait_scan_data after it.
Deliver(pack, check, i) ==
    LET nodes == Append(nodebuffer, Node(pack, check, i))
    IN  /\ package' = pack
        /\ package_sample_index_' = NextIndex(pack, i)
        /\ check_sum_result_' = (check /\ ~LastSample(pack, i))
        /\ IF Finished(nodes)
           THEN Return(TRUE, nodes, ring_times)
           ELSE /\ nodebuffer' = nodes
                /\ UNCHANGED <<returned, delivered, ring_times>>
        /\ UNCHANGED <<stream, faults, overrun, timeouts, interrupted>>

\* The code does not compare a count with the room for its samples.  What follows
\* an overrun is undefined: the model ends there.
Fits(n) == n <= RecvBufferSize

Overrun ==
    /\ ~overrun /\ Len(header) = PackagePaidBytes
    /\ Arrived(Wanted) /\ ~Fits(Wanted)
    /\ overrun' = TRUE
    /\ UNCHANGED <<stream, faults, line, header, package, package_sample_index_,
                   check_sum_result_, nodebuffer, ring_times, returned, timeouts,
                   delivered, interrupted>>

\* The samples of a package whose header is complete, and its first node.
ReadSamples ==
    /\ ~overrun /\ Len(header) = PackagePaidBytes
    /\ LET num   == header[4].value
           n     == num * PackageSampleBytes
           bytes == header \o SubSeq(line, 1, n)
       IN  /\ Arrived(n) /\ Fits(n)
           /\ line' = SubSeq(line, n + 1, Len(line))
           /\ Deliver([package |-> header[1].package, ring |-> header[3].value % 2 = 1,
                       num |-> num], Checked(bytes), 0)
    /\ header' = << >>

\* The other nodes of a package need no more bytes.
NextSample ==
    /\ ~overrun /\ package_sample_index_ # 0
    /\ Deliver(package, check_sum_result_, package_sample_index_)
    /\ UNCHANGED <<line, header>>

\* Time is up while the call waits or between two nodes: what it has of a
\* header is forgotten, the nodes it has are returned.
Timeout ==
    /\ ~overrun /\ timeouts < MaxTimeouts /\ Wanted > 0
    /\ timeouts' = timeouts + 1
    /\ package_sample_index_ # 0 => nodebuffer # << >>
    /\ Return(FALSE, nodebuffer, ring_times)
    /\ header' = << >>
    /\ interrupted' = IF header = << >> THEN interrupted
                      ELSE interrupted \cup {header[Len(header)].at}
    /\ UNCHANGED <<stream, faults, line, package, package_sample_index_,
                   check_sum_result_, overrun>>

Next == Disturb \/ ReadHeader \/ ReadSamples \/ Overrun \/ NextSample \/ Timeout

Spec == Init /\ [][Next]_vars
-----------------------------------------------------------------------------
(* Properties.                                                             *)

Nodes == [package : Nat, sample : Nat, sync : BOOLEAN]

\* The variables have their types, and no call returns more than was asked.
TypeOK ==
    /\ stream \in Streams
    /\ Len(header) <= PackagePaidBytes
    /\ package_sample_index_ \in Nat /\ package_sample_index_ <= package.num
    /\ check_sum_result_ \in BOOLEAN
    /\ nodebuffer \in Seq(Nodes) /\ Len(nodebuffer) < BatchSize
    /\ delivered \in Seq(Nodes)
    /\ ring_times \in Nat /\ timeouts \in 0 .. MaxTimeouts /\ overrun \in BOOLEAN

\* A node with a distance is of a package that arrived undamaged, and only
\* the node of a ring start has the sync flag: damaged packages move no ring.
NodesAreGenuine ==
    \A i \in 1 .. Len(delivered) :
        LET node == delivered[i]
        IN  /\ node.package # 0 =>
                  faults \cap (EndOf(stream, node.package - 1) + 1 ..
                               EndOf(stream, node.package)) = {}
            /\ node.sync => node.package # 0 /\ stream[node.package]

\* A package that gives any node gives all its samples, once and in order,
\* also over the end of a call or a time-out; packages come in order.
SamplesInOrder ==
    LET nodes == delivered \o nodebuffer
    IN  \A i \in 1 .. Len(nodes) :
            nodes[i].package # 0 =>
                /\ nodes[i].sample < NumOf(stream[nodes[i].package])
                /\ nodes[i].sample # 0 =>
                      i > 1 /\ nodes[i - 1] = [nodes[i] EXCEPT !.sample = @ - 1]
                /\ \A j \in 1 .. i - 1 :
                      nodes[j].package # 0 =>
                          \/ nodes[j].package < nodes[i].package
                          \/ /\ nodes[j].package = nodes[i].package
                             /\ nodes[j].sample < nodes[i].sample

\* What LidarHandler expects of a call: at most the last node is a ring start,
\* whose time the same call has taken; a full buffer is a success.
BatchesAreExpected ==
    returned # None =>
        LET n    == Len(returned.nodes)
            sync == n > 0 /\ returned.nodes[n].sync
        IN  /\ \A i \in 1 .. n - 1 : ~returned.nodes[i].sync
            /\ sync => returned.ring_times > 0
            /\ [ok    |-> returned.ok,
                sync  |-> sync,
                bad   |-> returned.ring_times > (IF sync THEN 1 ELSE 0),
                plain |-> IF sync THEN n - 1 ELSE n] \in Batch

\* Nothing went wrong in package p or so close before it that a package with
\* a wrong count could have swallowed its beginning.
Swallowed == PackagePaidBytes + HeadLow * PackageSampleBytes

Clean(p) ==
    (faults \cup interrupted)
        \cap (EndOf(stream, p - 1) + 1 - Swallowed .. EndOf(stream, p)) = {}

\* After damage, loss or a time-out the parser finds its way back: when it waits
\* for bytes it has delivered every package that is clean, unless a wrong count
\* has made it write past its buffer.
CleanPackagesArrive ==
    package_sample_index_ = 0 /\ Len(line) < Wanted /\ ~overrun =>
        \A p \in 1 .. Len(stream) :
            Clean(p) => \A i \in 0 .. NumOf(stream[p]) - 1 :
                [package |-> p, sample |-> i, sync |-> stream[p]]
                    \in ToSet(delivered) \cup ToSet(nodebuffer)
=============================================================================
