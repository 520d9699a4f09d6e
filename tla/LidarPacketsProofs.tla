-------------------------- MODULE LidarPacketsProofs --------------------------
(***************************************************************************)
(* What the parser of the Coin D4 promises for every stream of packages,   *)
(* every size of sample and every place where bytes are damaged, lost or   *)
(* interrupted by a time-out.                                              *)
(*                                                                         *)
(* The search of a header takes its bytes one by one, so what holds of the *)
(* parser between two bytes is a predicate of the header h and the rest l  *)
(* of the line (Parser), which the lemma ByteStep shows each byte to keep. *)
(***************************************************************************)
EXTENDS LidarPackets, FiniteSetTheorems, SequenceTheorems, WellFoundedInduction, TLAPS

\* The samples and the bytes of package p of s.
Count(s, p) == NumOf(s[p])
Size(s, p)  == LengthOf(s[p])

Total == EndOf(stream, Len(stream))

\* The place before package p.
StartOf(p) == EndOf(stream, p - 1)

Bytes == [value : Values, package : Nat, at : Nat]

Rising(s) == \A i, j \in 1 .. Len(s) : i < j => s[i].at < s[j].at

\* A byte that was not damaged is as it was sent.
Genuine(b) ==
    /\ b.at \in 1 .. Total
    /\ b.package # 0 => b.at \notin faults /\ b = Sent(stream)[b.at]

\* The bytes that were read and those that will be are in order.
BytesAre(h, l) ==
    /\ h \in Seq(Bytes) /\ Len(h) <= PackagePaidBytes /\ Rising(h)
    /\ l \in Seq(Bytes) /\ Rising(l)
    /\ \A i \in 1 .. Len(h), j \in 1 .. Len(l) : h[i].at < l[j].at
    /\ \A i \in 1 .. Len(h) : Genuine(h[i])
    /\ \A i \in 1 .. Len(l) : Genuine(l[i])

\* What the search has tested of a header.
HeaderIs(h, r) ==
    /\ r \in Nat
    /\ Len(h) >= 1 => h[1].value = HeadLow
    /\ Len(h) >= 2 => h[2].value = HeadHigh
    /\ Len(h) >= 3 /\ h[3].value % 2 = 1 => r > 0

\* The nodes of all calls, the one that runs included.
AllNodes == delivered \o nodebuffer

\* The bytes of a package that gave a node are no longer read.
Passed(h, l) ==
    \A n \in 1 .. Len(AllNodes) : AllNodes[n].package # 0 =>
        /\ \A i \in 1 .. Len(h) : EndOf(stream, AllNodes[n].package) < h[i].at
        /\ \A i \in 1 .. Len(l) : EndOf(stream, AllNodes[n].package) < l[i].at

\* Package p is k bytes ahead; it and the bytes close before it are as sent.
Ahead(p, k, l) ==
    /\ k <= StartOf(p)
    /\ k + Size(stream, p) <= Len(l)
    /\ \A i \in 1 .. k + Size(stream, p) :
          i + Swallowed > k => l[i] = Sent(stream)[StartOf(p) - k + i]

\* The first Len(h) bytes of package q.
BeginningOf(q, h) == \A i \in 1 .. Len(h) : h[i] = Sent(stream)[StartOf(q) + i]

\* No package with header h reaches what begins k bytes ahead: it is too far
\* away, or the header will not be completed, or it is a package as sent.
Harmless(p, k, h, l) ==
    \/ h = << >>
    \/ Len(h) + k >= Swallowed
    \/ Len(h) = 1 /\ k > 0 /\ l[1].value # HeadHigh
    \/ \E q \in 1 .. p - 1 : StartOf(p) - k = StartOf(q) + Len(h) /\ BeginningOf(q, h)

\* The header is the beginning of package p, whose other bytes follow.
Begun(p, h, l) ==
    /\ h # << >> /\ BeginningOf(p, h)
    /\ Size(stream, p) - Len(h) <= Len(l)
    /\ \A i \in 1 .. Size(stream, p) - Len(h) :
          l[i] = Sent(stream)[StartOf(p) + Len(h) + i]

HasNode(p, i) ==
    \E n \in 1 .. Len(AllNodes) :
        AllNodes[n] = [package |-> p, sample |-> i, sync |-> stream[p]]

\* The nodes of package p that a call of wait_package has already taken.
Coming(p) ==
    /\ package_sample_index_ # 0 /\ check_sum_result_ /\ package.package = p
    /\ \A i \in 0 .. package_sample_index_ - 1 : HasNode(p, i)

Complete(p) == \A i \in 0 .. Count(stream, p) - 1 : HasNode(p, i)

OnTheWay(p, h, l) ==
    \/ \E k \in 0 .. Len(l) : Ahead(p, k, l) /\ Harmless(p, k, h, l)
    \/ Begun(p, h, l)
    \/ Coming(p)
    \/ Complete(p)

CleanOnTheWay(h, l) == \A p \in 1 .. Len(stream) : Clean(p) => OnTheWay(p, h, l)

Parser(h, l, r) ==
    BytesAre(h, l) /\ HeaderIs(h, r) /\ Passed(h, l) /\ CleanOnTheWay(h, l)

\* A node with a distance is one of an undamaged package.
NodeIs(node) ==
    IF node.package = 0 THEN ~node.sync
    ELSE /\ node.package \in 1 .. Len(stream)
         /\ node.sample < Count(stream, node.package)
         /\ node.sync = stream[node.package]
         /\ faults \cap (StartOf(node.package) + 1 ..
                         EndOf(stream, node.package)) = {}

NodesAre == \A n \in 1 .. Len(AllNodes) : NodeIs(AllNodes[n])

\* Between two nodes of a package: the last node is its last so far.
PackageIs ==
    /\ package \in [package : Nat, ring : BOOLEAN, num : Nat]
    /\ package_sample_index_ \in Nat /\ package_sample_index_ <= package.num
    /\ check_sum_result_ \in BOOLEAN
    /\ package_sample_index_ # 0 =>
          /\ header = << >>
          /\ package_sample_index_ < package.num
          /\ check_sum_result_ =>
                /\ package.package \in 1 .. Len(stream)
                /\ package.num = Count(stream, package.package)
                /\ package.ring = stream[package.package]
                /\ Len(AllNodes) > 0
                /\ AllNodes[Len(AllNodes)] =
                      [package |-> package.package,
                       sample |-> package_sample_index_ - 1, sync |-> package.ring]

\* A call returns as soon as it has a ring start or enough nodes.
BufferIs ==
    /\ delivered \in Seq(Nodes)
    /\ nodebuffer \in Seq(Nodes) /\ Len(nodebuffer) < BatchSize
    /\ \A i \in 1 .. Len(nodebuffer) : ~nodebuffer[i].sync

Inv ==
    /\ stream \in Streams /\ timeouts \in 0 .. MaxTimeouts
    /\ faults \subseteq Nat /\ interrupted \subseteq Nat
    /\ Parser(header, line, ring_times)
    /\ PackageIs /\ BufferIs
    /\ NodesAre /\ SamplesInOrder
    /\ BatchesAreExpected
-----------------------------------------------------------------------------
\* The principle of the least number.
LEMMA Least ==
    ASSUME NEW T \in SUBSET Nat, T # {}
    PROVE  \E x \in T : \A y \in T : x <= y
<1>1. \E x \in T : \A y \in T : ~(<<y, x>> \in OpToRel(<, Nat))
  BY NatLessThanWellFounded, WFMin
<1>2. OpToRel(<, Nat) = {ss \in Nat \X Nat : ss[1] < ss[2]}
  BY DEF OpToRel
<1>3. PICK x \in T : \A y \in T : ~(<<y, x>> \in {ss \in Nat \X Nat : ss[1] < ss[2]})
  BY <1>1, <1>2, Zenon
<1>4. ASSUME NEW y \in T PROVE x <= y
  <2>1. ~(<<y, x>> \in {ss \in Nat \X Nat : ss[1] < ss[2]})
    BY <1>3
  <2>2. y \in Nat /\ x \in Nat
    OBVIOUS
  <2>3. ~(y < x)
    BY <2>1, <2>2
  <2> QED BY <2>2, <2>3
<1> QED BY <1>4

\* Induction on the numbers from m to n.
LEMMA Climb ==
    ASSUME NEW m \in Int, NEW n \in Int, NEW T, m \in T,
           \A i \in m .. n - 1 : i \in T => i + 1 \in T
    PROVE  \A i \in m .. n : i \in T
<1> SUFFICES ASSUME NEW i \in m .. n, i \notin T PROVE FALSE
  OBVIOUS
<1> DEFINE Missed == {k \in Nat : m + k <= n /\ m + k \notin T}
<1>1. i - m \in Missed
  OBVIOUS
<1>2. PICK k \in Missed : \A j \in Missed : k <= j
  BY <1>1, Least, Missed \in SUBSET Nat
<1>3. k # 0
  BY <1>2
<1>4. m + (k - 1) \in T
  <2>1. k - 1 \notin Missed /\ k - 1 \in Nat
    BY <1>2, <1>3
  <2> QED BY <2>1, <1>2
<1>5. m + (k - 1) \in m .. n - 1 /\ m + (k - 1) + 1 = m + k
  BY <1>2, <1>3
<1> QED BY <1>2, <1>4, <1>5
-----------------------------------------------------------------------------
(* Packages and the places of their bytes.                                 *)

LEMMA Lengths ==
    ASSUME NEW ring \in BOOLEAN
    PROVE  /\ NumOf(ring) \in 1 .. 4
           /\ NumOf(ring) * PackageSampleBytes \in 2 .. 12
           /\ LengthOf(ring) = 10 + NumOf(ring) * PackageSampleBytes
           /\ LengthOf(ring) \in 12 .. 22
<1>1. NumOf(ring) \in 1 .. 4
  BY PacketsAssumption DEF NumOf
<1>2. NumOf(ring) * PackageSampleBytes \in 2 .. 12
  <2>1. PackageSampleBytes = 2 \/ PackageSampleBytes = 3
    BY PacketsAssumption
  <2>2. NumOf(ring) = 1 \/ NumOf(ring) = 2 \/ NumOf(ring) = 3 \/ NumOf(ring) = 4
    BY <1>1
  <2> QED BY <2>1, <2>2
<1> QED BY <1>1, <1>2 DEF LengthOf, PackagePaidBytes

LEMMA Sizes ==
    ASSUME NEW s \in Seq(BOOLEAN), NEW p \in 1 .. Len(s)
    PROVE  /\ s[p] \in BOOLEAN
           /\ Count(s, p) \in 1 .. 4
           /\ Count(s, p) * PackageSampleBytes \in 2 .. 12
           /\ Size(s, p) = 10 + Count(s, p) * PackageSampleBytes
           /\ Size(s, p) \in 12 .. 22
<1>1. s[p] \in BOOLEAN
  BY ElementOfSeq
<1> QED BY <1>1, Lengths, Zenon DEF Count, Size

LEMMA Ends ==
    ASSUME NEW s \in Seq(BOOLEAN)
    PROVE  /\ EndOf(s, 0) = 0
           /\ \A p \in 0 .. Len(s) : EndOf(s, p) \in Nat
           /\ \A p \in 1 .. Len(s) : EndOf(s, p) = EndOf(s, p - 1) + Size(s, p)
<1> DEFINE R(p) == {q \in 1 .. p : s[q]}
<1>1. \A p \in 0 .. Len(s) : IsFiniteSet(R(p)) /\ Cardinality(R(p)) \in Nat
                             /\ Cardinality(R(p)) <= p
  <2> SUFFICES ASSUME NEW p \in 0 .. Len(s)
               PROVE  IsFiniteSet(R(p)) /\ Cardinality(R(p)) \in Nat
                      /\ Cardinality(R(p)) <= p
    OBVIOUS
  <2>1. IsFiniteSet(1 .. p) /\ Cardinality(1 .. p) = p
    BY FS_Interval
  <2>2. R(p) \subseteq 1 .. p
    OBVIOUS
  <2>3. IsFiniteSet(R(p)) /\ Cardinality(R(p)) <= p
    BY <2>1, <2>2, FS_Subset
  <2> QED BY <2>3, FS_CardinalityType
<1>2. R(0) = {}
  OBVIOUS
<1>3. PICK t \in 12 .. 22, f \in 12 .. 22 : t = LengthOf(TRUE) /\ f = LengthOf(FALSE)
  BY Lengths, Zenon
<1>4. \A p : EndOf(s, p) = Cardinality(R(p)) * t + (p - Cardinality(R(p))) * f
  BY <1>3, Zenon DEF EndOf
<1>5. \A p \in 1 .. Len(s) : /\ s[p] => Size(s, p) = t /\ R(p) = R(p - 1) \cup {p}
                             /\ ~s[p] => Size(s, p) = f /\ R(p) = R(p - 1)
  <2> SUFFICES ASSUME NEW p \in 1 .. Len(s)
               PROVE  /\ s[p] => Size(s, p) = t /\ R(p) = R(p - 1) \cup {p}
                      /\ ~s[p] => Size(s, p) = f /\ R(p) = R(p - 1)
    OBVIOUS
  <2>1. s[p] \in BOOLEAN
    BY ElementOfSeq
  <2>2. (s[p] => s[p] = TRUE) /\ (~s[p] => s[p] = FALSE)
    BY <2>1
  <2>3. s[p] => Size(s, p) = t
    BY <2>2, <1>3, Zenon DEF Size
  <2>4. ~s[p] => Size(s, p) = f
    BY <2>2, <1>3, Zenon DEF Size
  <2>5. s[p] => R(p) = R(p - 1) \cup {p}
    OBVIOUS
  <2>6. ~s[p] => R(p) = R(p - 1)
    OBVIOUS
  <2> QED BY <2>3, <2>4, <2>5, <2>6
<1>6. \A p : p \notin R(p - 1)
  OBVIOUS
<1> HIDE DEF R
<1>7. EndOf(s, 0) = 0
  <2>1. Cardinality(R(0)) = 0
    BY <1>2, FS_EmptySet
  <2>2. EndOf(s, 0) = 0 * t + (0 - 0) * f
    BY <2>1, <1>4
  <2> QED BY <2>2
<1>8. ASSUME NEW p \in 0 .. Len(s) PROVE EndOf(s, p) \in Nat
  <2>1. PICK c \in Nat, d \in Nat : c = Cardinality(R(p)) /\ d = p - c
    BY <1>1
  <2>2. c * t \in Nat /\ d * f \in Nat
    BY SMTT(30)
  <2>3. EndOf(s, p) = c * t + d * f
    BY <2>1, <1>4, Zenon
  <2> QED BY <2>2, <2>3
<1>9. ASSUME NEW p \in 1 .. Len(s)
      PROVE EndOf(s, p) = EndOf(s, p - 1) + Size(s, p)
  <2>1. p - 1 \in 0 .. Len(s) /\ p \in Int
    OBVIOUS
  <2>2. PICK c \in Nat, d \in Nat : c = Cardinality(R(p - 1)) /\ d = p - 1 - c
    BY <2>1, <1>1
  <2>3. EndOf(s, p - 1) = c * t + d * f
    BY <2>2, <1>4
  <2>4. /\ (d + 1) * f = d * f + f /\ d * f \in Nat
        /\ (c + 1) * t = c * t + t /\ c * t \in Nat
    BY SMTT(30)
  <2>5. CASE s[p]
    <3>1. Cardinality(R(p)) = c + 1
      BY <2>1, <2>2, <2>5, <1>1, <1>5, <1>6, FS_AddElement
    <3>2. p - (c + 1) = d
      BY <2>1, <2>2
    <3>3. EndOf(s, p) = (c + 1) * t + d * f
      BY <3>1, <3>2, <1>4, Zenon
    <3>4. Size(s, p) = t
      BY <2>5, <1>5
    <3> QED BY <3>3, <3>4, <2>3, <2>4
  <2>6. CASE ~s[p]
    <3>1. p - c = d + 1
      BY <2>1, <2>2
    <3>2. Size(s, p) = f /\ Cardinality(R(p)) = c
      BY <2>2, <2>6, <1>5
    <3>3. EndOf(s, p) = c * t + (d + 1) * f
      BY <3>1, <3>2, <1>4, Zenon
    <3> QED BY <3>2, <3>3, <2>3, <2>4
  <2> QED BY <2>5, <2>6
<1> QED BY <1>7, <1>8, <1>9

\* Packages follow each other.
LEMMA EndsRise ==
    ASSUME NEW s \in Seq(BOOLEAN), NEW p \in 0 .. Len(s), NEW q \in p .. Len(s)
    PROVE  EndOf(s, p) <= EndOf(s, q)
<1> DEFINE T == {i \in p .. Len(s) : EndOf(s, p) <= EndOf(s, i)}
<1>1. p \in T
  BY Ends
<1>2. \A i \in p .. Len(s) - 1 : i \in T => i + 1 \in T
  <2> SUFFICES ASSUME NEW i \in p .. Len(s) - 1, i \in T PROVE i + 1 \in T
    OBVIOUS
  <2>1. i + 1 \in 1 .. Len(s) /\ i \in 0 .. Len(s) /\ (i + 1) - 1 = i
    OBVIOUS
  <2>3. EndOf(s, i + 1) = EndOf(s, i) + Size(s, i + 1)
    BY <2>1, Ends
  <2>4. EndOf(s, i) \in Nat /\ EndOf(s, i + 1) \in Nat /\ EndOf(s, p) \in Nat
    BY <2>1, Ends
  <2>5. Size(s, i + 1) \in Nat
    BY <2>1, Sizes
  <2> QED BY <2>1, <2>3, <2>4, <2>5
<1> HIDE DEF T
<1>4. p \in Int /\ Len(s) \in Int
  OBVIOUS
<1>3. \A i \in p .. Len(s) : i \in T
  BY <1>1, <1>2, <1>4, Climb
<1> QED BY <1>3 DEF T

\* The sequence of two parts, by its places.
LEMMA Joined ==
    ASSUME NEW S, NEW a \in Seq(S), NEW b \in Seq(S)
    PROVE  /\ a \o b \in Seq(S) /\ Len(a \o b) = Len(a) + Len(b)
           /\ \A i \in 1 .. Len(a) : (a \o b)[i] = a[i] /\ a[i] \in S
           /\ \A i \in 1 .. Len(b) : (a \o b)[Len(a) + i] = b[i] /\ b[i] \in S
<1>1. Len(a) \in Nat /\ Len(b) \in Nat
  BY LenProperties
<1>2. ASSUME NEW i \in 1 .. Len(a) PROVE (a \o b)[i] = a[i] /\ a[i] \in S
  <2>1. i \in 1 .. Len(a) + Len(b) /\ i <= Len(a)
    BY <1>1
  <2> QED BY <2>1, ConcatProperties, ElementOfSeq
<1>3. ASSUME NEW i \in 1 .. Len(b) PROVE (a \o b)[Len(a) + i] = b[i] /\ b[i] \in S
  <2>1. Len(a) + i \in 1 .. Len(a) + Len(b) /\ ~(Len(a) + i <= Len(a)) /\ Len(a) + i - Len(a) = i
    BY <1>1
  <2>2. (a \o b)[Len(a) + i] = b[Len(a) + i - Len(a)]
    BY <2>1, ConcatProperties
  <2> QED BY <2>1, <2>2, ElementOfSeq
<1> QED BY <1>2, <1>3, ConcatProperties

LEMMA EncodedIs ==
    ASSUME NEW ring \in BOOLEAN, NEW n \in Nat, LengthOf(ring) = 10 + n,
           NEW i \in 1 .. 10 + n
    PROVE  /\ Encoded(ring)[i] \in Values
           /\ i = 1 => Encoded(ring)[i] = HeadLow
           /\ i = 2 => Encoded(ring)[i] = HeadHigh
           /\ i = 3 => Encoded(ring)[i] = IF ring THEN 1 ELSE 0
           /\ i = 4 => Encoded(ring)[i] = NumOf(ring)
           /\ i \in {5, 7} => Encoded(ring)[i] = 1
           /\ i \notin {1, 4} => Encoded(ring)[i] # HeadLow
<1> DEFINE front == << HeadLow, HeadHigh, IF ring THEN 1 ELSE 0, NumOf(ring), 1, 0, 1, 0, 0, 0 >>
           back == [k \in 1 .. n |-> 0]
<1>1. NumOf(ring) \in 1 .. 4
  BY Lengths
<1>2. NumOf(ring) * PackageSampleBytes = n
  <2>1. PICK m \in 2 .. 12 : m = NumOf(ring) * PackageSampleBytes /\ LengthOf(ring) = 10 + m
    BY Lengths, Zenon
  <2> QED BY <2>1
<1>3. front \in Seq(Values) /\ Len(front) = 10
  <2>1. HeadLow \in Values /\ HeadHigh \in Values /\ NumOf(ring) \in Values
        /\ 0 \in Values /\ 1 \in Values
    BY <1>1 DEF HeadLow, HeadHigh, Values
  <2>2. (IF ring THEN 1 ELSE 0) \in Values
    BY <2>1
  <2> QED BY <2>1, <2>2
<1>4. back \in Seq(Values) /\ Len(back) = n
  BY DEF Values
<1>5. PICK e : e = Encoded(ring)
  OBVIOUS
<1>6. e = front \o back
  BY <1>2, <1>5 DEF Encoded
<1>7. /\ \A k \in 1 .. 10 : e[k] = front[k] /\ front[k] \in Values
      /\ \A k \in 1 .. n : e[10 + k] = back[k]
  <2> HIDE DEF front, back
  <2>1. front \in Seq(Values) /\ back \in Seq(Values)
    BY <1>3, <1>4
  <2>2. \A k \in 1 .. Len(front) : (front \o back)[k] = front[k] /\ front[k] \in Values
    BY <2>1, Joined
  <2>3. \A k \in 1 .. Len(back) : (front \o back)[Len(front) + k] = back[k]
    BY <2>1, Joined
  <2> QED BY <2>2, <2>3, <1>3, <1>4, <1>6
<1>8. CASE i \in 1 .. 10
  <2>1. /\ front[1] = HeadLow
        /\ front[2] = HeadHigh
        /\ front[3] = IF ring THEN 1 ELSE 0
        /\ front[4] = NumOf(ring)
        /\ front[5] = 1 /\ front[7] = 1
        /\ \A k \in {6, 8, 9, 10} : front[k] = 0
    OBVIOUS
  <2>2. (IF ring THEN 1 ELSE 0) # 4
    OBVIOUS
  <2> HIDE DEF front, back
  <2>3. i \notin {1, 4} => front[i] # HeadLow
    BY <2>1, <2>2, <1>8 DEF HeadLow, HeadHigh
  <2> QED BY <2>1, <2>3, <1>5, <1>7, <1>8
<1>9. CASE i \in 11 .. 10 + n
  <2>1. i - 10 \in 1 .. n /\ 10 + (i - 10) = i
    BY <1>9
  <2>2. e[i] = 0
    BY <2>1, <1>7
  <2> QED BY <2>2, <1>5, <1>9 DEF Values, HeadLow
<1> QED BY <1>8, <1>9

\* Place i of package p is place StartOf(p) + i of the stream.
LEMMA PlaceOf ==
    ASSUME NEW s \in Seq(BOOLEAN), NEW p \in 1 .. Len(s), NEW i \in 1 .. Size(s, p)
    PROVE  /\ s[p] \in BOOLEAN
           /\ EndOf(s, p - 1) \in Nat /\ EndOf(s, p) \in Nat
           /\ EndOf(s, p) = EndOf(s, p - 1) + Size(s, p)
           /\ Size(s, p) \in 12 .. 22
           /\ EndOf(s, p) <= EndOf(s, Len(s))
           /\ EndOf(s, p - 1) + i \in 1 .. EndOf(s, Len(s))
           /\ Sent(s)[EndOf(s, p - 1) + i] = SentByte(s, p, i)
<1>1. s[p] \in BOOLEAN
  BY Sizes
<1>2. Size(s, p) \in 12 .. 22
  BY Sizes
<1>3. /\ EndOf(s, p - 1) \in Nat /\ EndOf(s, p) \in Nat /\ EndOf(s, Len(s)) \in Nat
      /\ EndOf(s, p) = EndOf(s, p - 1) + Size(s, p)
  BY Ends
<1>4. EndOf(s, p) <= EndOf(s, Len(s))
  BY EndsRise
<1>8. i \in Nat /\ 1 <= i /\ i <= Size(s, p)
  BY <1>2
<1> DEFINE n == EndOf(s, p - 1) + i
<1>9. n \in Nat /\ EndOf(s, p - 1) < n /\ 1 <= n
  BY <1>3, <1>8
<1>10. n <= EndOf(s, p)
  <2>1. i \in Nat /\ Size(s, p) \in Nat /\ EndOf(s, p - 1) \in Nat
    BY <1>2, <1>3, <1>8
  <2>2. n <= EndOf(s, p - 1) + Size(s, p)
    BY <2>1, <1>8
  <2> HIDE DEF n
  <2> QED BY <2>2, <1>3
<1> HIDE DEF n
<1>11. EndOf(s, p) \in Nat /\ EndOf(s, Len(s)) \in Nat
  BY <1>3
<1>5. n \in 1 .. EndOf(s, Len(s))
  BY <1>4, <1>9, <1>10, <1>11
<1>6. PackageAt(s, n) = p
  <2>1. n \in EndOf(s, p - 1) + 1 .. EndOf(s, p)
    BY <1>3, <1>9, <1>10
  <2>2. ASSUME NEW q \in 1 .. Len(s), n \in EndOf(s, q - 1) + 1 .. EndOf(s, q) PROVE q = p
    <3>1. EndOf(s, q - 1) \in Nat /\ EndOf(s, q) \in Nat
      BY Ends
    <3>2. q < p => EndOf(s, q) <= EndOf(s, p - 1)
      <4>1. q < p => q \in 0 .. Len(s) /\ p - 1 \in q .. Len(s)
        OBVIOUS
      <4> QED BY <4>1, EndsRise
    <3>3. p < q => EndOf(s, p) <= EndOf(s, q - 1)
      <4>1. p < q => p \in 0 .. Len(s) /\ q - 1 \in p .. Len(s)
        OBVIOUS
      <4> QED BY <4>1, EndsRise
    <3> QED BY <2>2, <3>1, <3>2, <3>3, <1>3, <1>9, <1>10
  <2> QED BY <2>1, <2>2 DEF PackageAt
<1>7. Sent(s)[n] = SentByte(s, p, i)
  <2>1. n - EndOf(s, p - 1) = i
    BY <1>3, <1>8 DEF n
  <2> QED BY <2>1, <1>5, <1>6 DEF Sent
<1> QED BY <1>1, <1>2, <1>3, <1>4, <1>5, <1>7 DEF n

\* Every place is in a package.
LEMMA EveryPlace ==
    ASSUME NEW s \in Seq(BOOLEAN), NEW n \in 1 .. EndOf(s, Len(s))
    PROVE  \E p \in 1 .. Len(s) : \E i \in 1 .. Size(s, p) : n = EndOf(s, p - 1) + i
<1> DEFINE T == {q \in Nat : q <= Len(s) /\ n <= EndOf(s, q)}
<1>1. EndOf(s, 0) = 0 /\ EndOf(s, Len(s)) \in Nat
  BY Ends
<1>2. Len(s) \in T
  BY <1>1
<1>3. PICK p \in T : \A q \in T : p <= q
  BY <1>2, Least, T \in SUBSET Nat
<1>4. p # 0
  BY <1>1, <1>3
<1>5. p \in 1 .. Len(s) /\ p - 1 \in 0 .. Len(s) /\ p - 1 \notin T
  BY <1>3, <1>4
<1>6. EndOf(s, p - 1) \in Nat /\ EndOf(s, p) = EndOf(s, p - 1) + Size(s, p)
  BY <1>5, Ends
<1>7. Size(s, p) \in Nat
  BY <1>5, Sizes
<1>8. n - EndOf(s, p - 1) \in 1 .. Size(s, p)
  <2>1. EndOf(s, p - 1) < n
    BY <1>5, <1>6
  <2>2. n <= EndOf(s, p)
    BY <1>3
  <2> HIDE DEF T
  <2> QED BY <2>1, <2>2, <1>6, <1>7
<1>9. n = EndOf(s, p - 1) + (n - EndOf(s, p - 1))
  BY <1>6
<1> QED BY <1>5, <1>8, <1>9
-----------------------------------------------------------------------------
(* The stream of this run.                                                 *)

LEMMA Places ==
    ASSUME stream \in Seq(BOOLEAN), NEW p \in 1 .. Len(stream)
    PROVE  /\ StartOf(p) \in Nat /\ Size(stream, p) \in 12 .. 22 /\ Total \in Nat
           /\ EndOf(stream, p) \in Nat /\ EndOf(stream, p) = StartOf(p) + Size(stream, p)
           /\ EndOf(stream, p) <= Total
           /\ \A q \in 1 .. p - 1 : EndOf(stream, q) <= StartOf(p)
<1>1. Size(stream, p) \in 12 .. 22
  BY Sizes
<1>2. /\ EndOf(stream, p - 1) \in Nat /\ EndOf(stream, p) \in Nat
      /\ EndOf(stream, Len(stream)) \in Nat
      /\ EndOf(stream, p) = EndOf(stream, p - 1) + Size(stream, p)
  BY Ends
<1>3. EndOf(stream, p) <= EndOf(stream, Len(stream))
  BY EndsRise
<1>4. ASSUME NEW q \in 1 .. p - 1 PROVE EndOf(stream, q) <= EndOf(stream, p - 1)
  <2>1. q \in 0 .. Len(stream) /\ p - 1 \in q .. Len(stream)
    OBVIOUS
  <2> QED BY <2>1, EndsRise
<1> QED BY <1>1, <1>2, <1>3, <1>4 DEF StartOf, Total

\* What is sent at place i of package p.
LEMMA SentIs ==
    ASSUME stream \in Seq(BOOLEAN), NEW p \in 1 .. Len(stream),
           NEW i \in 1 .. Size(stream, p), NEW b, b = Sent(stream)[StartOf(p) + i]
    PROVE  /\ StartOf(p) + i \in 1 .. Total
           /\ b \in Bytes /\ b.package = p /\ b.at = StartOf(p) + i
           /\ i = 1 => b.value = HeadLow
           /\ i = 2 => b.value = HeadHigh
           /\ i = 3 => ((b.value % 2) = 1 <=> stream[p])
           /\ i = 4 => b.value = Count(stream, p)
           /\ i \in {5, 7} => b.value = 1
           /\ i \notin {1, 4} => b.value # HeadLow
<1>1. /\ StartOf(p) + i \in 1 .. Total
      /\ Sent(stream)[StartOf(p) + i] = SentByte(stream, p, i)
      /\ stream[p] \in BOOLEAN /\ StartOf(p) \in Nat
  BY PlaceOf DEF StartOf, Total
<1>2. b = [value |-> Encoded(stream[p])[i], package |-> p, at |-> StartOf(p) + i]
  BY <1>1 DEF SentByte, StartOf
<1>3. PICK v : v = Encoded(stream[p])[i]
  OBVIOUS
<1>4. PICK n \in Nat : n = Count(stream, p) * PackageSampleBytes /\ Size(stream, p) = 10 + n
                       /\ n \in 2 .. 12
  BY Sizes, SMTT(40)
<1>5. LengthOf(stream[p]) = 10 + n
  BY <1>4, Zenon DEF Size
<1>6. i \in 1 .. 10 + n
  BY <1>4
<1>7. /\ v \in Values
      /\ i = 1 => v = HeadLow
      /\ i = 2 => v = HeadHigh
      /\ i = 3 => v = IF stream[p] THEN 1 ELSE 0
      /\ i = 4 => v = Count(stream, p)
      /\ i \in {5, 7} => v = 1
      /\ i \notin {1, 4} => v # HeadLow
  <2>1. PICK ring \in BOOLEAN : ring = stream[p]
    BY <1>1
  <2>2. LengthOf(ring) = 10 + n /\ v = Encoded(ring)[i] /\ Count(stream, p) = NumOf(ring)
    BY <2>1, <1>3, <1>5, Zenon DEF Count
  <2>3. /\ v \in Values
        /\ i = 1 => v = HeadLow
        /\ i = 2 => v = HeadHigh
        /\ i = 3 => v = IF ring THEN 1 ELSE 0
        /\ i = 4 => v = NumOf(ring)
        /\ i \in {5, 7} => v = 1
        /\ i \notin {1, 4} => v # HeadLow
    BY <2>2, <1>6, EncodedIs, ZenonT(40)
  <2> QED BY <2>1, <2>2, <2>3, Zenon
<1>8. b = [value |-> v, package |-> p, at |-> StartOf(p) + i]
  BY <1>2, <1>3, Zenon
<1>9. b.value = v /\ b.package = p /\ b.at = StartOf(p) + i
  BY <1>8
<1>10. b \in Bytes
  BY <1>1, <1>7, <1>8 DEF Bytes
<1>11. i = 3 => ((v % 2) = 1 <=> stream[p])
  <2>1. CASE stream[p]
    BY <2>1, <1>7
  <2>2. CASE ~stream[p]
    BY <2>2, <1>7
  <2> QED BY <2>1, <2>2
<1> QED BY <1>1, <1>7, <1>9, <1>10, <1>11

\* Every place is one of a package.
LEMMA SentAt ==
    ASSUME stream \in Seq(BOOLEAN), NEW n \in 1 .. Total
    PROVE  /\ Sent(stream)[n] \in Bytes /\ Sent(stream)[n].at = n
           /\ Sent(stream)[n].package \in 1 .. Len(stream)
           /\ n - StartOf(Sent(stream)[n].package)
                  \in 1 .. Size(stream, Sent(stream)[n].package)
<1>1. PICK p \in 1 .. Len(stream) :
          \E i \in 1 .. Size(stream, p) : n = EndOf(stream, p - 1) + i
  BY EveryPlace DEF Total
<1>2. PICK i \in 1 .. Size(stream, p) : n = StartOf(p) + i
  BY <1>1 DEF StartOf
<1>3. PICK b : b = Sent(stream)[n]
  OBVIOUS
<1>4. b \in Bytes /\ b.package = p /\ b.at = StartOf(p) + i
  BY <1>2, <1>3, SentIs
<1>5. StartOf(p) \in Nat /\ i \in Nat
  BY Places
<1> QED BY <1>2, <1>3, <1>4, <1>5
-----------------------------------------------------------------------------
(* The search of a header.                                                 *)

\* The search after i bytes: one byte more than after i - 1.
LEMMA SearchedIs ==
    ASSUME NEW n \in Nat
    PROVE  \E f : /\ f[0] = [header |-> header, rings |-> ring_times]
                  /\ \A i \in 1 .. n :
                        f[i] = HeaderByte(f[i - 1].header, f[i - 1].rings, line[i])
                  /\ Searched(n) = f[n]
<1> DEFINE Body(f, i) == IF i = 0 THEN [header |-> header, rings |-> ring_times]
                         ELSE HeaderByte(f[i - 1].header, f[i - 1].rings, line[i])
           T == {m \in 0 .. n : \E f : f = [i \in 0 .. m |-> Body(f, i)]}
<1>1. 0 \in T
  <2>1. [i \in 0 .. 0 |-> [header |-> header, rings |-> ring_times]]
            = [i \in 0 .. 0 |-> Body([j \in 0 .. 0 |-> [header |-> header, rings |-> ring_times]], i)]
    OBVIOUS
  <2> HIDE DEF Body
  <2> QED BY <2>1
<1>2. \A m \in 0 .. n - 1 : m \in T => m + 1 \in T
  <2> SUFFICES ASSUME NEW m \in 0 .. n - 1, m \in T PROVE m + 1 \in T
    OBVIOUS
  <2>1. PICK f : f = [i \in 0 .. m |-> Body(f, i)]
    OBVIOUS
  <2> DEFINE g == [i \in 0 .. m + 1 |-> IF i <= m THEN f[i] ELSE Body(f, i)]
  <2>2. \A i \in 0 .. m : g[i] = f[i]
    OBVIOUS
  <2>3. ASSUME NEW i \in 0 .. m + 1 PROVE g[i] = Body(g, i)
    <3>1. i # 0 => g[i - 1] = f[i - 1]
      BY <2>2
    <3>2. Body(g, i) = Body(f, i)
      <4> HIDE DEF g
      <4> QED BY <3>1
    <3>3. i <= m => f[i] = Body(f, i)
      <4> HIDE DEF Body, g
      <4>1. ASSUME i <= m PROVE i \in 0 .. m
        BY <4>1
      <4> QED BY <2>1, <4>1
    <3>4. g[i] = Body(f, i)
      <4> HIDE DEF Body
      <4> QED BY <3>3
    <3> HIDE DEF g, Body
    <3> QED BY <3>2, <3>4
  <2>4. g = [i \in 0 .. m + 1 |-> g[i]]
    OBVIOUS
  <2> HIDE DEF g, Body
  <2>5. g = [i \in 0 .. m + 1 |-> Body(g, i)]
    BY <2>3, <2>4
  <2>6. m + 1 \in 0 .. n
    OBVIOUS
  <2> QED BY <2>5, <2>6
<1> HIDE DEF T
<1>3. n \in T
  <2>1. 0 \in Int /\ n \in Int
    OBVIOUS
  <2>2. \A m \in 0 .. n : m \in T
    BY <1>1, <1>2, <2>1, Climb
  <2> QED BY <2>2
<1>4. PICK f : f = [i \in 0 .. n |-> Body(f, i)]
  <2> HIDE DEF Body
  <2> QED BY <1>3 DEF T
<1> DEFINE s == CHOOSE g : g = [i \in 0 .. n |-> Body(g, i)]
<1>5. s = [i \in 0 .. n |-> Body(s, i)]
  <2> HIDE DEF Body
  <2> QED BY <1>4
<1>6. Searched(n) = s[n]
  BY DEF Searched
<1> HIDE DEF s
<1>7. s[0] = [header |-> header, rings |-> ring_times]
  BY <1>5
<1>8. \A i \in 1 .. n : s[i] = HeaderByte(s[i - 1].header, s[i - 1].rings, line[i])
  <2> SUFFICES ASSUME NEW i \in 1 .. n
               PROVE  s[i] = HeaderByte(s[i - 1].header, s[i - 1].rings, line[i])
    OBVIOUS
  <2>1. i \in 0 .. n /\ i # 0
    OBVIOUS
  <2>2. s[i] = Body(s, i)
    <3> HIDE DEF Body
    <3> QED BY <1>5, <2>1
  <2> QED BY <2>1, <2>2
<1> QED BY <1>6, <1>7, <1>8

\* The line without its first n bytes.
RestOf(l, n) == SubSeq(l, n + 1, Len(l))

LEMMA RestIs ==
    ASSUME NEW l \in Seq(Bytes), NEW n \in 0 .. Len(l)
    PROVE  /\ RestOf(l, n) \in Seq(Bytes) /\ Len(RestOf(l, n)) = Len(l) - n
           /\ \A i \in 1 .. Len(l) - n : RestOf(l, n)[i] = l[n + i]
<1>1. Len(l) \in Nat /\ n \in Int /\ n + 1 \in Int
  OBVIOUS
<1>2. \A i \in n + 1 .. Len(l) : l[i] \in Bytes
  <2> SUFFICES ASSUME NEW i \in n + 1 .. Len(l) PROVE l[i] \in Bytes
    OBVIOUS
  <2>1. i \in 1 .. Len(l)
    BY <1>1
  <2> QED BY <2>1, ElementOfSeq
<1> DEFINE r == SubSeq(l, n + 1, Len(l))
<1>3. /\ r \in Seq(Bytes)
      /\ Len(r) = IF n + 1 <= Len(l) THEN Len(l) - (n + 1) + 1 ELSE 0
      /\ \A i \in 1 .. Len(l) - (n + 1) + 1 : r[i] = l[(n + 1) + i - 1]
  <2> HIDE DEF r
  <2> USE DEF r
  <2> QED BY <1>1, <1>2, SubSeqProperties
<1> HIDE DEF r
<1>4. Len(r) = Len(l) - n
  BY <1>1, <1>3
<1>5. ASSUME NEW i \in 1 .. Len(l) - n PROVE r[i] = l[n + i]
  <2>1. i \in 1 .. Len(l) - (n + 1) + 1 /\ (n + 1) + i - 1 = n + i
    BY <1>1
  <2> QED BY <2>1, <1>3
<1> QED BY <1>3, <1>4, <1>5 DEF RestOf, r

\* A byte is added to the header, or the search starts again.
Added(h, b, g) ==
    /\ g \in Seq(Bytes) /\ Len(g) <= 10
    /\ \/ g = << >>
       \/ /\ Len(g) = Len(h) + 1 /\ g[Len(g)] = b
          /\ \A i \in 1 .. Len(h) : g[i] = h[i]
          /\ Len(h) = 0 => b.value = HeadLow
          /\ Len(h) = 1 => b.value = HeadHigh
    /\ h = << >> /\ b.value = HeadLow => g = << b >>
    /\ h # << >> /\ (Len(h) = 1 => b.value = HeadHigh)
          /\ (Len(h) \in {4, 6} => (b.value % 2) # 0) => Len(g) = Len(h) + 1
    /\ Len(h) = 1 /\ b.value # HeadHigh => g = << >>

LEMMA HeaderCases ==
    ASSUME NEW h \in Seq(Bytes), Len(h) < 10, NEW b \in Bytes
    PROVE  Added(h, b, HeaderAfter(h, b))
<1>0. SUFFICES ASSUME NEW g, g = HeaderAfter(h, b)
               PROVE  Added(h, b, g)
  OBVIOUS
<1>1. Len(h) \in Nat /\ (Len(h) = 0 <=> h = << >>)
  BY EmptySeq
<1>2. /\ Append(h, b) \in Seq(Bytes) /\ Len(Append(h, b)) = Len(h) + 1
      /\ Append(h, b)[Len(h) + 1] = b
      /\ \A i \in 1 .. Len(h) : Append(h, b)[i] = h[i]
  BY AppendProperties
<1>3. << >> \in Seq(Bytes) /\ Len(<< >>) = 0
  OBVIOUS
<1>4. h = << >> => Append(h, b) = << b >>
  OBVIOUS
<1>5. CASE Len(h) = 0 /\ b.value # HeadLow
  <2>1. g = << >>
    BY <1>0, <1>1, <1>5 DEF HeaderAfter
  <2> QED BY <2>1, <1>1, <1>3, <1>5 DEF Added
<1>6. CASE Len(h) = 1 /\ b.value # HeadHigh
  <2>1. g = << >>
    BY <1>0, <1>6 DEF HeaderAfter
  <2> QED BY <2>1, <1>1, <1>3, <1>6 DEF Added
<1>7. CASE Len(h) \in {4, 6} /\ (b.value % 2) = 0
  <2>1. g = << >>
    BY <1>0, <1>7 DEF HeaderAfter
  <2> QED BY <2>1, <1>1, <1>3, <1>7 DEF Added
<1>8. CASE /\ ~(Len(h) = 0 /\ b.value # HeadLow)
           /\ ~(Len(h) = 1 /\ b.value # HeadHigh)
           /\ ~(Len(h) \in {4, 6} /\ (b.value % 2) = 0)
  <2>1. g = Append(h, b)
    BY <1>0, <1>8 DEF HeaderAfter
  <2>2. /\ g \in Seq(Bytes) /\ Len(g) = Len(h) + 1 /\ g[Len(g)] = b
        /\ \A i \in 1 .. Len(h) : g[i] = h[i]
    BY <1>2, <2>1
  <2>3. h = << >> => g = << b >>
    BY <1>4, <2>1
  <2> QED BY <2>2, <2>3, <1>1, <1>8 DEF Added
<1> QED BY <1>5, <1>6, <1>7, <1>8

\* One byte of the line goes to the search.
OneByte(h, l, g, l2) ==
    /\ BytesAre(h, l) /\ Len(h) < PackagePaidBytes /\ Len(l) > 0
    /\ g = HeaderAfter(h, l[1])
    /\ l2 \in Seq(Bytes) /\ Len(l2) = Len(l) - 1
    /\ \A i \in 1 .. Len(l) - 1 : l2[i] = l[i + 1]

\* The same of the lengths m of h and n of l and of the byte b.
OneByteOf(h, l, g, l2, m, n, b) ==
    /\ h \in Seq(Bytes) /\ Len(h) = m /\ m < 10 /\ (m = 0 <=> h = << >>)
    /\ Len(l) = n /\ n > 0 /\ l[1] = b
    /\ Len(l2) = n - 1 /\ \A i \in 1 .. n - 1 : l2[i] = l[i + 1]
    /\ \/ g = << >>
       \/ /\ g # << >> /\ Len(g) = m + 1 /\ g[m + 1] = b
          /\ \A i \in 1 .. m : g[i] = h[i]
          /\ m = 0 => b.value = HeadLow
    /\ h = << >> /\ b.value = HeadLow => g = << b >>
    /\ h # << >> /\ (m = 1 => b.value = HeadHigh)
          /\ (m \in {4, 6} => (b.value % 2) # 0) => g # << >>
    /\ m = 1 /\ b.value # HeadHigh => g = << >>

LEMMA OneByteIs ==
    ASSUME NEW h, NEW l, NEW g, NEW l2, OneByte(h, l, g, l2)
    PROVE  /\ h \in Seq(Bytes) /\ l \in Seq(Bytes) /\ g \in Seq(Bytes) /\ l2 \in Seq(Bytes)
           /\ Len(h) \in Nat /\ Len(h) < 10 /\ Len(l) \in Nat /\ Len(l) > 0 /\ Len(l2) = Len(l) - 1
           /\ l[1] \in Bytes /\ Len(g) \in Nat /\ Len(g) <= 10
           /\ \A i \in 1 .. Len(l2) : i + 1 \in 1 .. Len(l) /\ l2[i] = l[i + 1]
           /\ \A i \in 1 .. Len(g) : \/ i \in 1 .. Len(h) /\ g[i] = h[i]
                                     \/ i = Len(h) + 1 /\ g[i] = l[1]
           /\ \/ g = << >>
              \/ /\ Len(g) = Len(h) + 1 /\ g[Len(h) + 1] = l[1]
                 /\ \A i \in 1 .. Len(h) : g[i] = h[i]
                 /\ Len(h) = 0 => l[1].value = HeadLow
           /\ OneByteOf(h, l, g, l2, Len(h), Len(l), l[1])
<1>1. h \in Seq(Bytes) /\ l \in Seq(Bytes) /\ l2 \in Seq(Bytes)
  BY DEF OneByte, BytesAre
<1>2. Len(h) \in Nat /\ Len(h) < 10 /\ Len(l) \in Nat /\ Len(l) > 0 /\ Len(l2) = Len(l) - 1
  <2>1. Len(h) < PackagePaidBytes /\ Len(l) > 0 /\ Len(l2) = Len(l) - 1
    BY Zenon DEF OneByte
  <2>2. Len(h) \in Nat /\ Len(l) \in Nat
    BY <1>1, LenProperties
  <2> QED BY <2>1, <2>2 DEF PackagePaidBytes
<1>3. l[1] \in Bytes
  BY <1>1, <1>2, ElementOfSeq
<1>4. g = HeaderAfter(h, l[1]) /\ Len(h) < PackagePaidBytes
  BY DEF OneByte
<1>5. /\ g \in Seq(Bytes) /\ Len(g) <= 10
      /\ \/ g = << >>
         \/ /\ Len(g) = Len(h) + 1 /\ g[Len(g)] = l[1]
            /\ \A i \in 1 .. Len(h) : g[i] = h[i]
            /\ Len(h) = 0 => l[1].value = HeadLow
            /\ Len(h) = 1 => l[1].value = HeadHigh
      /\ h = << >> /\ l[1].value = HeadLow => g = << l[1] >>
      /\ h # << >> /\ (Len(h) = 1 => l[1].value = HeadHigh)
            /\ (Len(h) \in {4, 6} => (l[1].value % 2) # 0) => Len(g) = Len(h) + 1
      /\ Len(h) = 1 /\ l[1].value # HeadHigh => g = << >>
  <2>1. Added(h, l[1], g)
    BY <1>1, <1>2, <1>3, <1>4, HeaderCases, Zenon
  <2> QED BY <2>1, Zenon DEF Added
<1>6. Len(g) \in Nat /\ Len(g) <= 10
  BY <1>5, LenProperties
<1>7. \/ g = << >>
      \/ /\ Len(g) = Len(h) + 1 /\ g[Len(h) + 1] = l[1]
         /\ \A i \in 1 .. Len(h) : g[i] = h[i]
         /\ Len(h) = 0 => l[1].value = HeadLow
  BY <1>5
<1>8. \A i \in 1 .. Len(g) : \/ i \in 1 .. Len(h) /\ g[i] = h[i]
                             \/ i = Len(h) + 1 /\ g[i] = l[1]
  BY <1>2, <1>6, <1>7
<1>9. \A i \in 1 .. Len(l2) : i + 1 \in 1 .. Len(l) /\ l2[i] = l[i + 1]
  BY <1>2 DEF OneByte
<1>10. h # << >> /\ (Len(h) = 1 => l[1].value = HeadHigh)
           /\ (Len(h) \in {4, 6} => (l[1].value % 2) # 0) => g # << >>
  BY <1>2, <1>5
<1>11. OneByteOf(h, l, g, l2, Len(h), Len(l), l[1])
  <2>1. Len(h) = 0 <=> h = << >>
    BY <1>1, EmptySeq
  <2>2. \A i \in 1 .. Len(l) - 1 : l2[i] = l[i + 1]
    BY Zenon DEF OneByte
  <2>3. \/ g = << >>
        \/ /\ g # << >> /\ Len(g) = Len(h) + 1 /\ g[Len(h) + 1] = l[1]
           /\ \A i \in 1 .. Len(h) : g[i] = h[i]
           /\ Len(h) = 0 => l[1].value = HeadLow
    BY <1>7, Zenon
  <2>4. /\ h = << >> /\ l[1].value = HeadLow => g = << l[1] >>
        /\ Len(h) = 1 /\ l[1].value # HeadHigh => g = << >>
    BY <1>5, Zenon
  <2> QED BY <1>1, <1>2, <1>10, <2>1, <2>2, <2>3, <2>4, Zenon DEF OneByteOf
<1> QED BY <1>1, <1>2, <1>3, <1>5, <1>6, <1>7, <1>8, <1>9, <1>11

LEMMA OneByteParts ==
    ASSUME NEW h, NEW l, NEW g, NEW l2, OneByte(h, l, g, l2)
    PROVE  \E m, n \in Nat : \E b \in Bytes : OneByteOf(h, l, g, l2, m, n, b)
<1>1. Len(h) \in Nat /\ Len(l) \in Nat /\ l[1] \in Bytes
      /\ OneByteOf(h, l, g, l2, Len(h), Len(l), l[1])
  BY OneByteIs
<1> QED BY <1>1, Zenon

\* One more byte keeps the order of the bytes.
LEMMA StepBytes ==
    ASSUME NEW h, NEW l, NEW g, NEW l2, OneByte(h, l, g, l2)
    PROVE  BytesAre(g, l2)
<1>1. BytesAre(h, l)
  BY DEF OneByte
<1>2. /\ h \in Seq(Bytes) /\ l \in Seq(Bytes) /\ g \in Seq(Bytes) /\ l2 \in Seq(Bytes)
      /\ Len(h) \in Nat /\ Len(l) \in Nat /\ Len(g) \in Nat /\ Len(g) <= 10 /\ Len(l2) \in Nat
      /\ 1 \in 1 .. Len(l)
  BY OneByteIs
<1>5. \A i \in 1 .. Len(g) : \/ i \in 1 .. Len(h) /\ g[i] = h[i]
                             \/ i = Len(h) + 1 /\ g[i] = l[1]
  BY OneByteIs
<1>6. \A i \in 1 .. Len(l2) : i + 1 \in 1 .. Len(l) /\ l2[i] = l[i + 1] /\ 1 < i + 1
  BY OneByteIs
<1>7. Rising(g)
  <2> SUFFICES ASSUME NEW i \in 1 .. Len(g), NEW j \in 1 .. Len(g), i < j
               PROVE  g[i].at < g[j].at
    BY DEF Rising
  <2>1. i \in 1 .. Len(h) /\ g[i] = h[i]
    BY <1>2, <1>5
  <2>2. CASE j \in 1 .. Len(h) /\ g[j] = h[j]
    BY <2>1, <2>2, <1>1 DEF BytesAre, Rising
  <2>3. CASE g[j] = l[1]
    BY <2>1, <2>3, <1>1, <1>2 DEF BytesAre
  <2> QED BY <2>2, <2>3, <1>5
<1>8. Rising(l2)
  <2> SUFFICES ASSUME NEW i \in 1 .. Len(l2), NEW j \in 1 .. Len(l2), i < j
               PROVE  l2[i].at < l2[j].at
    BY DEF Rising
  <2>1. i + 1 < j + 1 /\ i + 1 \in 1 .. Len(l) /\ j + 1 \in 1 .. Len(l)
    BY <1>2, <1>6
  <2>2. l[i + 1].at < l[j + 1].at
    BY <2>1, <1>1 DEF BytesAre, Rising
  <2> QED BY <2>2, <1>6
<1>9. ASSUME NEW i \in 1 .. Len(g), NEW j \in 1 .. Len(l2) PROVE g[i].at < l2[j].at
  <2>1. l2[j] = l[j + 1] /\ j + 1 \in 1 .. Len(l) /\ 1 < j + 1
    BY <1>6
  <2>2. CASE i \in 1 .. Len(h) /\ g[i] = h[i]
    BY <2>1, <2>2, <1>1 DEF BytesAre
  <2>3. CASE g[i] = l[1]
    BY <2>1, <2>3, <1>1, <1>2 DEF BytesAre, Rising
  <2> QED BY <2>2, <2>3, <1>5
<1>10. ASSUME NEW i \in 1 .. Len(g) PROVE Genuine(g[i])
  BY <1>1, <1>2, <1>5 DEF BytesAre
<1>11. ASSUME NEW i \in 1 .. Len(l2) PROVE Genuine(l2[i])
  BY <1>1, <1>6 DEF BytesAre
<1> QED BY <1>2, <1>7, <1>8, <1>9, <1>10, <1>11 DEF BytesAre, PackagePaidBytes

\* It keeps what is known of the header.
LEMMA StepHeader ==
    ASSUME NEW h \in Seq(Bytes), NEW b \in Bytes, Len(h) < 10,
           NEW r, HeaderIs(h, r),
           NEW g, g = HeaderAfter(h, b),
           NEW q, q = r + (IF StartsRing(h, b) THEN 1 ELSE 0)
    PROVE  HeaderIs(g, q)
<1>1. /\ g \in Seq(Bytes)
      /\ \/ g = << >>
         \/ /\ Len(g) = Len(h) + 1 /\ g[Len(g)] = b
            /\ \A i \in 1 .. Len(h) : g[i] = h[i]
            /\ Len(h) = 0 => b.value = HeadLow
            /\ Len(h) = 1 => b.value = HeadHigh
  <2>1. Added(h, b, g)
    BY HeaderCases, Zenon
  <2> QED BY <2>1, Zenon DEF Added
<1>5. /\ Len(h) >= 1 => h[1].value = HeadLow
      /\ Len(h) >= 2 => h[2].value = HeadHigh
      /\ Len(h) >= 3 /\ (h[3].value % 2) = 1 => r > 0
  BY Zenon DEF HeaderIs
<1>2. r \in Nat /\ q \in Nat /\ r <= q /\ Len(h) \in Nat
  BY DEF HeaderIs
<1>3. CASE g = << >>
  BY <1>2, <1>3 DEF HeaderIs
<1>4. CASE /\ Len(g) = Len(h) + 1 /\ g[Len(g)] = b
           /\ \A i \in 1 .. Len(h) : g[i] = h[i]
           /\ Len(h) = 0 => b.value = HeadLow
           /\ Len(h) = 1 => b.value = HeadHigh
  <2>1. g[1].value = HeadLow
    BY <1>2, <1>4 DEF HeaderIs
  <2>2. ASSUME Len(g) >= 2 PROVE g[2].value = HeadHigh
    <3>1. CASE Len(h) = 1
      <4>1. g[2] = b /\ b.value = HeadHigh
        BY <3>1, <1>4
      <4> QED BY <4>1
    <3>2. CASE Len(h) >= 2
      <4>1. 2 \in 1 .. Len(h)
        BY <3>2, <1>2
      <4>2. g[2] = h[2]
        BY <4>1, <1>4
      <4> QED BY <4>2, <3>2, <1>5
    <3>3. PICK n \in Nat : n = Len(h) /\ n + 1 >= 2
      BY <1>2, <1>4, <2>2
    <3>4. Len(h) = 1 \/ Len(h) >= 2
      BY <3>3
    <3> QED BY <3>1, <3>2, <3>4
  <2>3. ASSUME Len(g) >= 3, (g[3].value % 2) = 1 PROVE q > 0
    <3>1. CASE Len(h) = 2
      <4>1. g[3] = b
        BY <3>1, <1>4
      <4>2. StartsRing(h, b)
        BY <4>1, <3>1, <2>3 DEF StartsRing
      <4>3. q = r + 1
        BY <4>2, Zenon
      <4> QED BY <4>3, <1>2
    <3>2. CASE Len(h) >= 3
      <4>1. g[3] = h[3]
        BY <3>2, <1>2, <1>4
      <4> QED BY <4>1, <3>2, <2>3, <1>2, <1>5
    <3>3. PICK n \in Nat : n = Len(h) /\ n + 1 >= 3
      BY <1>2, <1>4, <2>3
    <3>4. Len(h) = 2 \/ Len(h) >= 3
      BY <3>3
    <3> QED BY <3>1, <3>2, <3>4
  <2> QED BY <2>1, <2>2, <2>3, <1>2 DEF HeaderIs
<1> QED BY <1>1, <1>3, <1>4

LEMMA StepPassed ==
    ASSUME NEW h, NEW l, NEW g, NEW l2, OneByte(h, l, g, l2), Passed(h, l)
    PROVE  Passed(g, l2)
<1>1. \A i \in 1 .. Len(g) : \/ i \in 1 .. Len(h) /\ g[i] = h[i]
                             \/ g[i] = l[1]
  BY OneByteIs
<1>2. \A i \in 1 .. Len(l2) : i + 1 \in 1 .. Len(l) /\ l2[i] = l[i + 1]
  BY OneByteIs
<1>3. 1 \in 1 .. Len(l)
  BY OneByteIs
<1> QED BY <1>1, <1>2, <1>3 DEF Passed

\* No package that the parser takes between ends in package p.
LEMMA StepAhead ==
    ASSUME stream \in Seq(BOOLEAN), NEW p \in 1 .. Len(stream),
           NEW h, NEW l, NEW g, NEW l2, OneByte(h, l, g, l2),
           NEW k \in Nat, Ahead(p, k, l), Harmless(p, k, h, l)
    PROVE  \/ \E j \in 0 .. Len(l2) : Ahead(p, j, l2) /\ Harmless(p, j, g, l2)
           \/ Begun(p, g, l2)
<1>1. PICK m \in Nat, n \in Nat, b \in Bytes : OneByteOf(h, l, g, l2, m, n, b)
  BY OneByteParts
<1>2. /\ Len(h) = m /\ m < 10 /\ (m = 0 <=> h = << >>)
      /\ Len(l) = n /\ n > 0 /\ l[1] = b /\ Len(l2) = n - 1
  BY <1>1, Zenon DEF OneByteOf
<1>13. \A i \in 1 .. n - 1 : l2[i] = l[i + 1]
  BY <1>1, Zenon DEF OneByteOf
<1>14. \/ g = << >>
       \/ /\ g # << >> /\ Len(g) = m + 1 /\ g[m + 1] = b
          /\ \A i \in 1 .. m : g[i] = h[i]
          /\ m = 0 => b.value = HeadLow
  BY <1>1, Zenon DEF OneByteOf
<1>15. /\ h = << >> /\ b.value = HeadLow => g = << b >>
       /\ h # << >> /\ (m = 1 => b.value = HeadHigh)
             /\ (m \in {4, 6} => (b.value % 2) # 0) => g # << >>
       /\ m = 1 /\ b.value # HeadHigh => g = << >>
  BY <1>1, Zenon DEF OneByteOf
<1>3. Swallowed \in 18 .. 22
  <2>1. PackageSampleBytes = 2 \/ PackageSampleBytes = 3
    BY PacketsAssumption
  <2> QED BY <2>1 DEF Swallowed, PackagePaidBytes, HeadLow
<1>4. PICK s \in Nat, z \in 12 .. 22 : s = StartOf(p) /\ z = Size(stream, p)
  BY Places
<1>5. k <= s /\ k + z <= n
  BY <1>2, <1>4 DEF Ahead
<1>16. \A i \in 1 .. k + z : i + Swallowed > k => l[i] = Sent(stream)[s - k + i]
  BY <1>4, Zenon DEF Ahead
<1>6. \A q \in 1 .. p - 1 : /\ StartOf(q) \in Nat /\ Size(stream, q) \in 12 .. 22
                            /\ StartOf(q) + Size(stream, q) <= s
  <2> SUFFICES ASSUME NEW q \in 1 .. p - 1
               PROVE  /\ StartOf(q) \in Nat /\ Size(stream, q) \in 12 .. 22
                      /\ StartOf(q) + Size(stream, q) <= s
    OBVIOUS
  <2>1. q \in 1 .. Len(stream)
    OBVIOUS
  <2>2. EndOf(stream, q) = StartOf(q) + Size(stream, q) /\ StartOf(q) \in Nat
        /\ Size(stream, q) \in 12 .. 22
    BY <2>1, Places
  <2>3. EndOf(stream, q) <= s
    BY <1>4, Places
  <2> QED BY <2>2, <2>3
<1>7. CASE k = 0
  <2>1. h = << >>
    <3>1. ASSUME NEW q \in 1 .. p - 1, StartOf(p) - k = StartOf(q) + Len(h) PROVE FALSE
      <4>1. PICK a \in Nat, y \in 12 .. 22 :
                a = StartOf(q) /\ y = Size(stream, q) /\ a + y <= s
        BY <1>6
      <4>2. s - k = a + m
        BY <3>1, <4>1, <1>2, <1>4, Zenon
      <4>3. m < 10
        BY <1>2
      <4>4. a + 12 <= s
        BY <4>1, SMTT(40)
      <4>5. s = a + m
        BY <4>2, <1>7
      <4> QED BY <4>3, <4>4, <4>5
    <3>2. ~(Len(h) + k >= Swallowed)
      BY <1>2, <1>3, <1>7
    <3>3. ~(k > 0)
      BY <1>7
    <3> QED BY <3>1, <3>2, <3>3, Zenon DEF Harmless
  <2>2. b = Sent(stream)[s + 1]
    <3>1. 1 \in 1 .. k + z /\ 1 + Swallowed > k /\ s - k + 1 = s + 1
      BY <1>3, <1>4, <1>7
    <3> QED BY <3>1, <1>2, <1>16
  <2>3. b.value = HeadLow
    <3>1. 1 \in 1 .. Size(stream, p)
      BY <1>4
    <3> QED BY <2>2, <3>1, <1>4, SentIs
  <2>4. g = << b >>
    BY <2>1, <2>3, <1>15, Zenon
  <2>5. BeginningOf(p, g)
    <3>1. Len(g) = 1 /\ g[1] = b
      BY <2>4
    <3> QED BY <3>1, <2>2, <1>4 DEF BeginningOf
  <2>6. Len(g) = 1 /\ g # << >>
    BY <2>4
  <2>7. \A i \in 1 .. z - 1 : l2[i] = Sent(stream)[s + 1 + i]
    <3> SUFFICES ASSUME NEW i \in 1 .. z - 1 PROVE l2[i] = Sent(stream)[s + 1 + i]
      OBVIOUS
    <3>1. i \in 1 .. n - 1 /\ i + 1 \in 1 .. k + z /\ i + 1 + Swallowed > k
          /\ s - k + (i + 1) = s + 1 + i
      BY <1>2, <1>3, <1>4, <1>5, <1>7
    <3>2. l2[i] = l[i + 1]
      BY <3>1, <1>13
    <3>3. l[i + 1] = Sent(stream)[s - k + (i + 1)]
      BY <3>1, <1>16
    <3> QED BY <3>1, <3>2, <3>3
  <2>8. z - 1 <= n - 1
    BY <1>2, <1>4, <1>5, <1>7
  <2>9. Begun(p, g, l2)
    <3>1. Size(stream, p) - Len(g) = z - 1 /\ StartOf(p) + Len(g) = s + 1
      BY <2>6, <1>4
    <3>2. Size(stream, p) - Len(g) <= Len(l2)
      BY <3>1, <2>8, <1>2
    <3>3. \A i \in 1 .. Size(stream, p) - Len(g) :
              l2[i] = Sent(stream)[StartOf(p) + Len(g) + i]
      BY <3>1, <2>7, Zenon
    <3> QED BY <2>5, <2>6, <3>2, <3>3 DEF Begun
  <2> QED BY <2>9
<1>8. CASE k > 0
  <2> DEFINE j == k - 1
  <2>1. j \in 0 .. n - 1
    BY <1>4, <1>5, <1>8
  <2>2. Ahead(p, j, l2)
    <3>1. j <= s /\ j + z <= n - 1
      BY <1>4, <1>5, <1>8
    <3>2. ASSUME NEW i \in 1 .. j + z, i + Swallowed > j
          PROVE  l2[i] = Sent(stream)[s - j + i]
      <4>1. i \in 1 .. n - 1 /\ i + 1 \in 1 .. k + z /\ i + 1 + Swallowed > k
            /\ s - k + (i + 1) = s - j + i
        BY <3>2, <1>2, <1>3, <1>4, <1>5, <1>8
      <4>2. l2[i] = l[i + 1]
        BY <4>1, <1>13
      <4>3. l[i + 1] = Sent(stream)[s - k + (i + 1)]
        BY <4>1, <1>16
      <4> QED BY <4>1, <4>2, <4>3
    <3> HIDE DEF j
    <3> QED BY <3>1, <3>2, <1>2, <1>4 DEF Ahead
  <2>3. k < Swallowed => b = Sent(stream)[s - j]
    <3>1. k < Swallowed => 1 \in 1 .. k + z /\ 1 + Swallowed > k /\ s - k + 1 = s - j
      BY <1>3, <1>4, <1>8
    <3> QED BY <3>1, <1>2, <1>16
  <2>4. Harmless(p, j, g, l2)
    <3>1. CASE g = << >>
      BY <3>1 DEF Harmless
    <3>2. CASE g # << >>
      <4>1. /\ Len(g) = m + 1 /\ g[m + 1] = b
            /\ \A i \in 1 .. m : g[i] = h[i]
            /\ m = 0 => b.value = HeadLow
        BY <3>2, <1>14
      <4>2. CASE m + k >= Swallowed
        <5>1. Len(g) + j >= Swallowed
          BY <4>1, <4>2, <1>2, <1>3
        <5> QED BY <5>1 DEF Harmless
      <4>3. CASE m + k < Swallowed /\ m = 0
        <5>1. b = Sent(stream)[s - j] /\ b.value = HeadLow
          BY <4>1, <4>3, <2>3
        <5>2. s - j \in 1 .. Total
          <6>1. s <= Total /\ Total \in Nat
            <7>1. EndOf(stream, p) = s + z /\ EndOf(stream, p) <= Total /\ Total \in Nat
              BY <1>4, Places
            <7> QED BY <7>1, <1>4
          <6> QED BY <6>1, <1>4, <1>5, <1>8
        <5>3. PICK q \in 1 .. Len(stream) : s - j - StartOf(q) \in 1 .. Size(stream, q)
          BY <5>2, SentAt
        <5>4. PICK i \in 1 .. Size(stream, q) : i = s - j - StartOf(q)
          BY <5>3
        <5>5. StartOf(q) \in Nat /\ Size(stream, q) \in 12 .. 22
          BY Places
        <5>6. i \in Nat /\ 1 <= i /\ i <= Size(stream, q) /\ StartOf(q) + i = s - j
          BY <5>4, <5>5, <1>4
        <5>7. q \in 1 .. p - 1
          <6>1. q # p
            BY <5>6, <1>4, <1>8, <1>5
          <6>2. ~(q > p)
            <7>1. q > p => EndOf(stream, p) <= StartOf(q)
              BY Places
            <7>2. EndOf(stream, p) = s + z
              BY <1>4, Places
            <7>3. PICK a \in Nat : a = StartOf(q)
              BY <5>5
            <7>4. a < s - j + 1
              BY <7>3, <5>6, <1>4, <1>5, <1>8
            <7>5. q > p => s + z <= a
              BY <7>1, <7>2, <7>3
            <7> QED BY <7>4, <7>5, <1>8
          <6> QED BY <6>1, <6>2
        <5>8. i \in {1, 4}
          BY <5>1, <5>6, <5>4, SentIs
        <5>9. CASE i = 1
          <6>1. BeginningOf(q, g)
            <7>1. Len(g) = 1 /\ g[1] = b
              BY <4>1, <4>3
            <7> QED BY <7>1, <5>1, <5>6, <5>9 DEF BeginningOf
          <6>2. StartOf(p) - j = StartOf(q) + Len(g)
            BY <5>6, <5>9, <4>1, <4>3, <1>4
          <6> QED BY <6>1, <6>2, <5>7 DEF Harmless
        <5>10. CASE i = 4
          <6>1. StartOf(q) + Size(stream, q) <= s
            BY <5>7, <1>6
          <6>2. j > 0
            BY <6>1, <5>5, <5>6, <5>10, <1>4, SMTT(40)
          <6>3. l2[1] = Sent(stream)[StartOf(q) + 5]
            <7>1. 1 \in 1 .. j + z /\ 1 + Swallowed > j /\ s - j + 1 = StartOf(q) + 5
                  /\ 1 \in 1 .. n - 1 /\ 2 \in 1 .. k + z /\ 2 + Swallowed > k
                  /\ s - k + 2 = StartOf(q) + 5
              <8>1. PICK a \in Nat, w \in 18 .. 22 :
                        a = StartOf(q) /\ w = Swallowed /\ a + 4 = s - j /\ m + k < w
                BY <5>5, <5>6, <5>10, <4>3, <1>2, <1>3
              <8>2. s - j + 1 = a + 5 /\ s - k + 2 = a + 5
                BY <8>1, <1>4, <1>5, SMTT(40)
              <8>3. 1 \in 1 .. j + z /\ 1 + w > j /\ 1 \in 1 .. n - 1
                BY <8>1, <1>5, <6>2
              <8>4. 2 \in 1 .. k + z /\ 2 + w > k
                BY <8>1, <1>5, <6>2
              <8> QED BY <8>1, <8>2, <8>3, <8>4
            <7>2. l2[1] = l[1 + 1]
              BY <7>1, <1>13
            <7> QED BY <7>1, <7>2, <1>16
          <6>4. l2[1].value = 1
            <7>1. 5 \in 1 .. Size(stream, q)
              BY <5>5
            <7> QED BY <7>1, <6>3, SentIs
          <6>5. Len(g) = 1
            BY <4>1, <4>3
          <6> QED BY <6>2, <6>4, <6>5 DEF Harmless, HeadHigh
        <5> QED BY <5>8, <5>9, <5>10
      <4>4. CASE m + k < Swallowed /\ m # 0
        <5>1. ~(m = 1 /\ l[1].value # HeadHigh)
          BY <3>2, <1>2, <1>15, Zenon
        <5>2. h # << >>
          BY <4>4, <1>2
        <5>3. PICK q \in 1 .. p - 1 : StartOf(p) - k = StartOf(q) + m /\ BeginningOf(q, h)
          BY <5>1, <5>2, <4>4, <1>2, <1>3 DEF Harmless
        <5>4. StartOf(q) \in Nat
          BY <1>6
        <5>5. StartOf(p) - j = StartOf(q) + Len(g)
          BY <5>3, <5>4, <4>1, <1>2, <1>4, SMTT(40)
        <5>6. b = Sent(stream)[StartOf(q) + Len(g)]
          BY <5>5, <2>3, <4>4, <1>2, <1>3, <1>4, SMTT(40)
        <5>7. BeginningOf(q, g)
          BY <5>3, <5>6, <4>1, <1>2 DEF BeginningOf
        <5> QED BY <5>5, <5>7 DEF Harmless
      <4> QED BY <4>2, <4>3, <4>4, <1>2, <1>3
    <3> QED BY <3>1, <3>2
  <2> HIDE DEF j
  <2> QED BY <2>1, <2>2, <2>4, <1>2
<1> QED BY <1>2, <1>7, <1>8

\* The header of a package that is as sent grows to its end.
LEMMA StepBegun ==
    ASSUME stream \in Seq(BOOLEAN), NEW p \in 1 .. Len(stream),
           NEW h, NEW l, NEW g, NEW l2, OneByte(h, l, g, l2), Begun(p, h, l)
    PROVE  Begun(p, g, l2)
<1>1. PICK m \in Nat, n \in Nat, b \in Bytes : OneByteOf(h, l, g, l2, m, n, b)
  BY OneByteParts
<1>2. /\ Len(h) = m /\ m < 10 /\ (m = 0 <=> h = << >>)
      /\ Len(l) = n /\ n > 0 /\ l[1] = b /\ Len(l2) = n - 1
  BY <1>1, Zenon DEF OneByteOf
<1>3. \A i \in 1 .. n - 1 : l2[i] = l[i + 1]
  BY <1>1, Zenon DEF OneByteOf
<1>4. \/ g = << >>
      \/ /\ g # << >> /\ Len(g) = m + 1 /\ g[m + 1] = b
         /\ \A i \in 1 .. m : g[i] = h[i]
         /\ m = 0 => b.value = HeadLow
  BY <1>1, Zenon DEF OneByteOf
<1>5. PICK s \in Nat, z \in 12 .. 22 : s = StartOf(p) /\ z = Size(stream, p)
  BY Places
<1>6. h # << >> /\ BeginningOf(p, h)
  BY Zenon DEF Begun
<1>7. \A i \in 1 .. z - m : l[i] = Sent(stream)[s + m + i]
  BY <1>2, <1>5, Zenon DEF Begun
<1>16. z - m <= n
  BY <1>2, <1>5, Zenon DEF Begun
<1>8. m + 1 \in 1 .. Size(stream, p) /\ 1 \in 1 .. z - m
  BY <1>2, <1>5
<1>9. b = Sent(stream)[StartOf(p) + (m + 1)]
  <2>1. b = Sent(stream)[s + m + 1]
    BY <1>2, <1>7, <1>8, Zenon
  <2>2. s + m + 1 = s + (m + 1)
    OBVIOUS
  <2> QED BY <2>1, <2>2, <1>5, Zenon
<1>10. /\ m + 1 = 2 => b.value = HeadHigh
       /\ m + 1 \in {5, 7} => b.value = 1
  <2>1. \A i \in 1 .. Size(stream, p) : b = Sent(stream)[StartOf(p) + i] =>
            (i = 2 => b.value = HeadHigh) /\ (i \in {5, 7} => b.value = 1)
    BY SentIs
  <2>2. PICK i \in 1 .. Size(stream, p) : i = m + 1
    BY <1>8
  <2> QED BY <2>1, <2>2, <1>9
<1>11. g # << >>
  <2>1. m = 1 => b.value = HeadHigh
    BY <1>10
  <2>2. m \in {4, 6} => (b.value % 2) # 0
    BY <1>10
  <2> QED BY <1>1, <1>6, <2>1, <2>2, Zenon DEF OneByteOf
<1>12. /\ Len(g) = m + 1 /\ g[m + 1] = b
       /\ \A i \in 1 .. m : g[i] = h[i]
  BY <1>4, <1>11, Zenon
<1>13. BeginningOf(p, g)
  <2> SUFFICES ASSUME NEW i \in 1 .. m + 1
               PROVE  g[i] = Sent(stream)[StartOf(p) + i]
    BY <1>12 DEF BeginningOf
  <2>1. CASE i = m + 1
    BY <2>1, <1>9, <1>12
  <2>2. CASE i \in 1 .. m
    BY <2>2, <1>2, <1>6, <1>12 DEF BeginningOf
  <2> QED BY <2>1, <2>2
<1>14. \A i \in 1 .. z - (m + 1) : l2[i] = Sent(stream)[s + (m + 1) + i]
  <2> SUFFICES ASSUME NEW i \in 1 .. z - (m + 1)
               PROVE  l2[i] = Sent(stream)[s + (m + 1) + i]
    OBVIOUS
  <2>1. i \in 1 .. n - 1 /\ i + 1 \in 1 .. z - m
    BY <1>16
  <2>2. s + m + (i + 1) = s + (m + 1) + i
    OBVIOUS
  <2> QED BY <2>1, <2>2, <1>3, <1>7
<1>15. z - (m + 1) <= n - 1
  BY <1>16
<1> QED BY <1>2, <1>5, <1>11, <1>12, <1>13, <1>14, <1>15, Zenon DEF Begun
\* One byte keeps all that holds of the parser.
LEMMA ByteStep ==
    ASSUME stream \in Seq(BOOLEAN),
           NEW h, NEW l, NEW g, NEW l2, OneByte(h, l, g, l2),
           NEW r, Parser(h, l, r),
           NEW q, q = r + (IF StartsRing(h, l[1]) THEN 1 ELSE 0)
    PROVE  Parser(g, l2, q)
<1>1. BytesAre(g, l2)
  BY StepBytes
<1>2. HeaderIs(g, q)
  <2>1. h \in Seq(Bytes) /\ Len(h) < 10 /\ l[1] \in Bytes
    BY OneByteIs
  <2>2. HeaderIs(h, r) /\ g = HeaderAfter(h, l[1])
    BY DEF Parser, OneByte
  <2> QED BY <2>1, <2>2, StepHeader
<1>3. Passed(g, l2)
  BY StepPassed DEF Parser
<1>4. ASSUME NEW p \in 1 .. Len(stream), Clean(p) PROVE OnTheWay(p, g, l2)
  <2>1. OnTheWay(p, h, l)
    BY <1>4 DEF Parser, CleanOnTheWay
  <2>2. ASSUME NEW k \in 0 .. Len(l), Ahead(p, k, l), Harmless(p, k, h, l)
        PROVE  OnTheWay(p, g, l2)
    <3>1. k \in Nat
      OBVIOUS
    <3>2. \/ \E j \in 0 .. Len(l2) : Ahead(p, j, l2) /\ Harmless(p, j, g, l2)
          \/ Begun(p, g, l2)
      BY <2>2, <3>1, StepAhead
    <3> QED BY <3>2, Zenon DEF OnTheWay
  <2>3. Begun(p, h, l) => Begun(p, g, l2)
    BY StepBegun
  <2> QED BY <2>1, <2>2, <2>3, Zenon DEF OnTheWay
<1> QED BY <1>1, <1>2, <1>3, <1>4 DEF Parser, CleanOnTheWay

\* So do the bytes of a whole search.
LEMMA SearchKeeps ==
    ASSUME stream \in Seq(BOOLEAN), Parser(header, line, ring_times),
           Len(header) < PackagePaidBytes, Arrived(Wanted)
    PROVE  Parser(Searched(Wanted).header, RestOf(line, Wanted), Searched(Wanted).rings)
<1>1. header \in Seq(Bytes) /\ line \in Seq(Bytes)
  BY DEF Parser, BytesAre
<1>2. PICK m \in Nat, n \in Nat, v \in Nat :
          m = Len(header) /\ n = Len(line) /\ v = Wanted /\ m + v = 10 /\ v <= n
  <2>1. Len(header) \in Nat /\ Len(line) \in Nat /\ Len(header) < 10
    BY <1>1 DEF PackagePaidBytes
  <2>2. Wanted = 10 - Len(header)
    BY <2>1 DEF Wanted, PackagePaidBytes
  <2>3. Wanted <= Len(line)
    BY DEF Arrived
  <2> QED BY <2>1, <2>2, <2>3
<1>3. PICK f : /\ f[0] = [header |-> header, rings |-> ring_times]
               /\ \A i \in 1 .. v :
                     f[i] = HeaderByte(f[i - 1].header, f[i - 1].rings, line[i])
               /\ Searched(v) = f[v]
  BY SearchedIs
<1> DEFINE T == {i \in 0 .. v : /\ Parser(f[i].header, RestOf(line, i), f[i].rings)
                                /\ Len(f[i].header) <= m + i}
<1>4. 0 \in T
  <2>1. RestOf(line, 0) = line
    BY <1>1, SubSeqFull DEF RestOf
  <2>2. f[0].header = header /\ f[0].rings = ring_times
    BY <1>3
  <2>3. Len(f[0].header) <= m + 0
    BY <2>2, <1>2
  <2>4. Parser(f[0].header, RestOf(line, 0), f[0].rings)
    BY <2>1, <2>2
  <2> QED BY <2>3, <2>4
<1>5. \A i \in 0 .. v - 1 : i \in T => i + 1 \in T
  <2> SUFFICES ASSUME NEW i \in 0 .. v - 1, i \in T PROVE i + 1 \in T
    OBVIOUS
  <2>1. PICK h, r, l, g, q, l2 : /\ h = f[i].header /\ r = f[i].rings /\ l = RestOf(line, i)
                                 /\ g = f[i + 1].header /\ q = f[i + 1].rings
                                 /\ l2 = RestOf(line, i + 1)
    OBVIOUS
  <2>2. Parser(h, l, r) /\ Len(h) <= m + i
    BY <2>1
  <2>3. i \in 0 .. Len(line) /\ i + 1 \in 0 .. Len(line)
    BY <1>2
  <2>4. /\ l \in Seq(Bytes) /\ Len(l) = n - i
        /\ \A k \in 1 .. n - i : l[k] = line[i + k]
    BY <2>1, <2>3, <1>1, <1>2, RestIs
  <2>5. /\ l2 \in Seq(Bytes) /\ Len(l2) = n - (i + 1)
        /\ \A k \in 1 .. n - (i + 1) : l2[k] = line[(i + 1) + k]
    BY <2>1, <2>3, <1>1, <1>2, RestIs
  <2>6. l[1] = line[i + 1]
    BY <2>4, <1>2
  <2>7. f[i + 1] = HeaderByte(h, r, line[i + 1])
    <3>1. i + 1 \in 1 .. v /\ (i + 1) - 1 = i
      BY <1>2
    <3> QED BY <3>1, <2>1, <1>3
  <2>8. g = HeaderAfter(h, l[1]) /\ q = r + (IF StartsRing(h, l[1]) THEN 1 ELSE 0)
    BY <2>1, <2>6, <2>7 DEF HeaderByte
  <2>9. BytesAre(h, l) /\ h \in Seq(Bytes)
    BY <2>2 DEF Parser, BytesAre
  <2>10. Len(h) < PackagePaidBytes
    <3>1. PICK c \in Nat : c = Len(h)
      BY <2>9
    <3> QED BY <3>1, <2>2, <1>2 DEF PackagePaidBytes
  <2>11. \A k \in 1 .. Len(l) - 1 : l2[k] = l[k + 1]
    <3> SUFFICES ASSUME NEW k \in 1 .. Len(l) - 1 PROVE l2[k] = l[k + 1]
      OBVIOUS
    <3>1. k \in 1 .. n - (i + 1) /\ k + 1 \in 1 .. n - i /\ (i + 1) + k = i + (k + 1)
      BY <2>4, <1>2
    <3> QED BY <3>1, <2>4, <2>5
  <2>12. Len(l) > 0 /\ Len(l2) = Len(l) - 1
    BY <2>4, <2>5, <1>2
  <2>13. OneByte(h, l, g, l2)
    BY <2>5, <2>8, <2>9, <2>10, <2>11, <2>12 DEF OneByte
  <2>14. Parser(g, l2, q)
    BY <2>2, <2>8, <2>13, ByteStep
  <2>15. Len(g) <= m + (i + 1)
    <3>1. PICK c \in Nat, d \in Nat, b \in Bytes : OneByteOf(h, l, g, l2, c, d, b)
      BY <2>13, OneByteParts
    <3>2. Len(h) = c
      BY <3>1, Zenon DEF OneByteOf
    <3>3. Len(g) = 0 \/ Len(g) = c + 1
      <4>1. g = << >> \/ Len(g) = c + 1
        BY <3>1, Zenon DEF OneByteOf
      <4> QED BY <4>1
    <3>4. c <= m + i
      BY <2>2, <3>2
    <3> QED BY <3>3, <3>4, <1>2
  <2> QED BY <2>1, <2>14, <2>15
<1>6. v \in T
  <2> HIDE DEF T
  <2>1. 0 \in Int /\ v \in Int
    OBVIOUS
  <2>2. \A i \in 0 .. v : i \in T
    BY <1>4, <1>5, <2>1, Climb
  <2> QED BY <2>2
<1> QED BY <1>2, <1>3, <1>6
-----------------------------------------------------------------------------
(* What a step that leaves the stream as it is keeps.                      *)

LEMMA SameBytes ==
    ASSUME UNCHANGED <<stream, faults>>, NEW h, NEW l, BytesAre(h, l)
    PROVE  BytesAre(h, l)'
BY DEF BytesAre, Genuine, Total

LEMMA SamePassed ==
    ASSUME stream' = stream, AllNodes' = AllNodes, NEW h, NEW l, Passed(h, l)
    PROVE  Passed(h, l)'
BY DEF Passed

LEMMA SamePlaces ==
    ASSUME stream' = stream, NEW p, NEW k, NEW h, NEW l
    PROVE  /\ Ahead(p, k, l) => Ahead(p, k, l)'
           /\ Harmless(p, k, h, l) => Harmless(p, k, h, l)'
           /\ Begun(p, h, l) => Begun(p, h, l)'
<1>1. Ahead(p, k, l) => Ahead(p, k, l)'
  BY Zenon DEF Ahead, StartOf
<1>2. Harmless(p, k, h, l) => Harmless(p, k, h, l)'
  BY Zenon DEF Harmless, BeginningOf, StartOf
<1>3. Begun(p, h, l) => Begun(p, h, l)'
  BY Zenon DEF Begun, BeginningOf, StartOf
<1> QED BY <1>1, <1>2, <1>3

LEMMA NodesStay ==
    ASSUME stream' = stream,
           \A n \in 1 .. Len(AllNodes) :
               n \in 1 .. Len(AllNodes') /\ AllNodes'[n] = AllNodes[n],
           NEW p
    PROVE  /\ \A i : HasNode(p, i) => HasNode(p, i)'
           /\ Complete(p) => Complete(p)'
<1>1. ASSUME NEW i, HasNode(p, i) PROVE HasNode(p, i)'
  <2>1. PICK n \in 1 .. Len(AllNodes) :
            AllNodes[n] = [package |-> p, sample |-> i, sync |-> stream[p]]
    BY <1>1, Zenon DEF HasNode
  <2>2. n \in 1 .. Len(AllNodes')
        /\ AllNodes'[n] = [package |-> p, sample |-> i, sync |-> stream'[p]]
    BY <2>1, Zenon
  <2> QED BY <2>2, Zenon DEF HasNode
<1>2. Count(stream, p)' = Count(stream, p)
  BY Zenon
<1> QED BY <1>1, <1>2, Zenon DEF Complete

LEMMA WayIs ==
    ASSUME stream' = stream, NEW p, NEW h, NEW l,
           \/ \E k \in 0 .. Len(l) : Ahead(p, k, l) /\ Harmless(p, k, h, l)
           \/ Begun(p, h, l)
           \/ Coming(p)'
           \/ Complete(p)'
    PROVE  OnTheWay(p, h, l)'
<1>1. ASSUME NEW k \in 0 .. Len(l), Ahead(p, k, l), Harmless(p, k, h, l)
      PROVE  OnTheWay(p, h, l)'
  <2>1. Ahead(p, k, l)' /\ Harmless(p, k, h, l)'
    BY <1>1, SamePlaces
  <2> QED BY <2>1, Zenon DEF OnTheWay
<1>2. Begun(p, h, l) => OnTheWay(p, h, l)'
  <2>1. Begun(p, h, l) => Begun(p, h, l)'
    BY SamePlaces
  <2> QED BY <2>1, Zenon DEF OnTheWay
<1>3. Coming(p)' \/ Complete(p)' => OnTheWay(p, h, l)'
  BY Zenon DEF OnTheWay
<1> QED BY <1>1, <1>2, <1>3, Zenon

\* What holds of the nodes holds of the same nodes later.
LEMMA SameOrder ==
    ASSUME stream' = stream, AllNodes' = AllNodes, SamplesInOrder
    PROVE  SamplesInOrder'
BY ZenonT(40) DEF SamplesInOrder, AllNodes

LEMMA SameNodes ==
    ASSUME stream' = stream, faults' = faults, AllNodes' = AllNodes,
           NodesAre, SamplesInOrder
    PROVE  NodesAre' /\ SamplesInOrder'
<1>1. NodesAre'
  BY Zenon DEF NodesAre, NodeIs, StartOf
<1> QED BY <1>1, SameOrder

\* A call returns nodes that LidarHandler expects.
LEMMA BatchIs ==
    ASSUME NEW nodes \in Seq(Nodes), NEW ok \in BOOLEAN, NEW r \in Nat,
           returned' = [ok |-> ok, nodes |-> nodes, ring_times |-> r],
           \A i \in 1 .. Len(nodes) - 1 : ~nodes[i].sync,
           Len(nodes) <= BatchSize,
           Len(nodes) > 0 /\ nodes[Len(nodes)].sync => ok /\ r > 0,
           ok <=> \/ Len(nodes) > 0 /\ nodes[Len(nodes)].sync
                  \/ Len(nodes) = BatchSize
    PROVE  BatchesAreExpected'
<1>1. PICK n \in Nat : n = Len(nodes)
  BY LenProperties
<1>2. PICK sync \in BOOLEAN : sync = (n > 0 /\ nodes[n].sync)
  OBVIOUS
<1>3. PICK bad \in BOOLEAN : bad = (r > (IF sync THEN 1 ELSE 0))
  <2>1. PICK w \in Nat : w = IF sync THEN 1 ELSE 0
    OBVIOUS
  <2>2. \E bad \in BOOLEAN : bad = (r > w)
    <3>1. CASE r > w
      <4>1. TRUE = (r > w)
        BY <3>1, Zenon
      <4> QED BY <4>1, Zenon
    <3>2. CASE ~(r > w)
      <4>1. FALSE = (r > w)
        BY <3>2
      <4> QED BY <4>1, Zenon
    <3> QED BY <3>1, <3>2
  <2> QED BY <2>1, <2>2, Zenon
<1>4. PICK plain : plain = IF sync THEN n - 1 ELSE n
  OBVIOUS
<1>5. BatchSize \in Nat \ {0} /\ n <= BatchSize
  BY <1>1, BatchAssumption
<1>6. /\ sync => ok /\ r > 0 /\ n > 0
      /\ ok <=> sync \/ n = BatchSize
  BY <1>1, <1>2
<1>7. plain \in 0 .. BatchSize
  BY <1>4, <1>5, <1>6
<1>8. plain = BatchSize <=> ok /\ ~sync
  BY <1>4, <1>5, <1>6
<1>9. [ok |-> ok, sync |-> sync, bad |-> bad, plain |-> plain] \in Batch
  BY <1>6, <1>7, <1>8 DEF Batch
<1>10. /\ returned'.nodes = nodes /\ returned'.ok = ok /\ returned'.ring_times = r
  OBVIOUS
<1>11. \A i \in 1 .. n - 1 : ~nodes[i].sync
  BY <1>1
<1> QED
  BY <1>1, <1>2, <1>3, <1>4, <1>6, <1>9, <1>10, <1>11, Zenon DEF BatchesAreExpected
-----------------------------------------------------------------------------
(* The steps.                                                              *)

LEMMA ReadHeaderStep ==
    ASSUME Inv, ReadHeader
    PROVE  Inv'
<1>1. stream \in Seq(BOOLEAN)
  BY PacketsAssumption DEF Inv
<1>2. UNCHANGED <<stream, faults, package, package_sample_index_, check_sum_result_,
                  nodebuffer, returned, timeouts, delivered, interrupted>>
  BY DEF ReadHeader
<1>3. AllNodes' = AllNodes
  BY <1>2 DEF AllNodes
<1>4. PICK h, l, r : h = header' /\ l = line' /\ r = ring_times'
  OBVIOUS
<1>5. Parser(h, l, r)
  <2>1. Parser(Searched(Wanted).header, RestOf(line, Wanted), Searched(Wanted).rings)
    BY <1>1, SearchKeeps DEF ReadHeader, Inv
  <2>2. h = Searched(Wanted).header /\ l = RestOf(line, Wanted) /\ r = Searched(Wanted).rings
    BY <1>4 DEF ReadHeader, RestOf
  <2> QED BY <2>1, <2>2
<1>6. Parser(h, l, r)'
  <2>1. BytesAre(h, l)'
    BY <1>2, <1>5, SameBytes DEF Parser
  <2>2. HeaderIs(h, r)'
    BY <1>5 DEF Parser, HeaderIs
  <2>3. Passed(h, l)'
    BY <1>2, <1>3, <1>5, SamePassed DEF Parser
  <2>4. CleanOnTheWay(h, l)'
    <3> SUFFICES ASSUME NEW p \in 1 .. Len(stream), Clean(p)' PROVE OnTheWay(p, h, l)'
      BY <1>2, Zenon DEF CleanOnTheWay
    <3>1. Clean(p)
      BY <1>2, Zenon DEF Clean
    <3>2. OnTheWay(p, h, l)
      BY <3>1, <1>5, Zenon DEF Parser, CleanOnTheWay
    <3>3. Coming(p) => Coming(p)'
      BY <1>2, <1>3, Zenon DEF Coming, HasNode
    <3>4. Complete(p) => Complete(p)'
      BY <1>2, <1>3, Zenon DEF Complete, HasNode
    <3> QED BY <3>2, <3>3, <3>4, <1>2, WayIs DEF OnTheWay
  <2> QED BY <2>1, <2>2, <2>3, <2>4, Zenon DEF Parser
<1>7. Parser(header, line, ring_times)'
  BY <1>4, <1>6
<1>8. PackageIs'
  BY <1>2, <1>3 DEF Inv, PackageIs, ReadHeader
<1>9. BufferIs' /\ BatchesAreExpected'
  BY <1>2, Zenon DEF Inv, BufferIs, BatchesAreExpected
<1>10. NodesAre' /\ SamplesInOrder'
  BY <1>2, <1>3, SameNodes DEF Inv
<1> QED BY <1>2, <1>7, <1>8, <1>9, <1>10 DEF Inv

\* A call that returns leaves the nodes of all calls as they were.
LEMMA TimeoutStep ==
    ASSUME Inv, Timeout
    PROVE  Inv'
<1>1. stream \in Seq(BOOLEAN)
  BY PacketsAssumption DEF Inv
<1>2. /\ UNCHANGED <<stream, faults, line, package, package_sample_index_,
                     check_sum_result_>>
      /\ header' = << >> /\ ring_times' = 0
      /\ returned' = [ok |-> FALSE, nodes |-> nodebuffer, ring_times |-> ring_times]
      /\ delivered' = delivered \o nodebuffer /\ nodebuffer' = << >>
      /\ timeouts < MaxTimeouts /\ timeouts' = timeouts + 1
      /\ interrupted' = IF header = << >> THEN interrupted
                        ELSE interrupted \cup {header[Len(header)].at}
  BY DEF Timeout, Return
<1>3. delivered \in Seq(Nodes) /\ nodebuffer \in Seq(Nodes)
  BY DEF Inv, BufferIs
<1>4. AllNodes' = AllNodes /\ delivered' \in Seq(Nodes)
  <2>1. delivered \o nodebuffer \in Seq(Nodes)
    BY <1>3, ConcatProperties
  <2>2. (delivered \o nodebuffer) \o << >> = delivered \o nodebuffer
    BY <2>1, ConcatEmptySeq
  <2> QED BY <2>1, <2>2, <1>2 DEF AllNodes
<1>5. Parser(header, line, ring_times) /\ BytesAre(header, line)
  BY DEF Inv, Parser
<1>6. header \in Seq(Bytes) /\ line \in Seq(Bytes) /\ Len(header) <= 10
  BY <1>5 DEF BytesAre, PackagePaidBytes
<1>7. PICK m \in Nat : m = Len(header) /\ m <= 10 /\ (m = 0 <=> header = << >>)
  BY <1>6, EmptySeq
<1>8. PICK h, l : h = << >> /\ l = line
  OBVIOUS
<1>9. Len(h) = 0 /\ h \in Seq(Bytes)
  BY <1>8
<1>10. interrupted \subseteq interrupted' /\ interrupted' \subseteq Nat
  <2>1. ASSUME header # << >> PROVE header[Len(header)].at \in Nat
    <3>1. m \in 1 .. Len(header)
      BY <2>1, <1>7
    <3>2. header[m] \in Bytes
      BY <3>1, <1>6, ElementOfSeq
    <3> QED BY <3>2, <1>7 DEF Bytes
  <2>2. interrupted \subseteq Nat
    BY DEF Inv
  <2> QED BY <2>1, <2>2, <1>2
<1>11. Parser(h, l, 0)'
  <2>1. BytesAre(h, l)'
    <3>1. BytesAre(h, l)
      BY <1>5, <1>8, <1>9 DEF BytesAre, Rising, PackagePaidBytes
    <3> QED BY <3>1, <1>2, SameBytes
  <2>2. HeaderIs(h, 0)'
    BY <1>9 DEF HeaderIs
  <2>3. Passed(h, l)'
    <3>1. Passed(h, l)
      BY <1>5, <1>8, <1>9 DEF Parser, Passed
    <3> QED BY <3>1, <1>2, <1>4, SamePassed
  <2>4. CleanOnTheWay(h, l)'
    <3> SUFFICES ASSUME NEW p \in 1 .. Len(stream), Clean(p)' PROVE OnTheWay(p, h, l)'
      BY <1>2, Zenon DEF CleanOnTheWay
    <3>1. Clean(p)
      BY <1>2, <1>10 DEF Clean
    <3>2. OnTheWay(p, header, line)
      BY <3>1, <1>5, Zenon DEF Parser, CleanOnTheWay
    <3>3. ~Begun(p, header, line)
      <4> SUFFICES ASSUME Begun(p, header, line) PROVE FALSE
        OBVIOUS
      <4>1. header # << >> /\ BeginningOf(p, header)
        BY Zenon DEF Begun
      <4>2. m \in 1 .. m /\ m \in 1 .. 10
        <5>1. m # 0 /\ m <= 10
          BY <4>1, <1>7
        <5> QED BY <5>1
      <4>3. header[m] = Sent(stream)[StartOf(p) + m]
        BY <4>1, <4>2, <1>7, Zenon DEF BeginningOf
      <4>4. PICK s \in Nat, z \in 12 .. 22 :
                s = StartOf(p) /\ z = Size(stream, p) /\ EndOf(stream, p) = s + z
        BY <1>1, Places
      <4>5. m \in 1 .. Size(stream, p)
        BY <4>2, <4>4, SMTT(40)
      <4>6. header[m].at = StartOf(p) + m
        BY <4>3, <4>5, <1>1, SentIs
      <4>7. s + m \in interrupted'
        BY <4>1, <4>4, <4>6, <1>2, <1>7
      <4>8. Swallowed \in Nat
        BY PacketsAssumption DEF Swallowed, PackagePaidBytes, HeadLow
      <4>9. s + m \in s + 1 - Swallowed .. s + z
        BY <4>2, <4>4, <4>8, SMTT(40)
      <4>10. (faults' \cup interrupted')
                \cap (EndOf(stream', p - 1) + 1 - Swallowed .. EndOf(stream', p)) = {}
        BY Zenon DEF Clean
      <4>11. (faults' \cup interrupted') \cap (s + 1 - Swallowed .. s + z) = {}
        BY <4>4, <4>10, <1>2, Zenon DEF StartOf
      <4> QED BY <4>7, <4>9, <4>11
    <3>4. Coming(p) => Coming(p)'
      BY <1>2, <1>4, Zenon DEF Coming, HasNode
    <3>5. Complete(p) => Complete(p)'
      BY <1>2, <1>4, Zenon DEF Complete, HasNode
    <3>6. ASSUME NEW k \in 0 .. Len(line), Ahead(p, k, line)
          PROVE  OnTheWay(p, h, l)'
      <4>1. k \in 0 .. Len(l) /\ Ahead(p, k, l) /\ Harmless(p, k, h, l)
        BY <3>6, <1>8, Zenon DEF Harmless
      <4> QED BY <4>1, <1>2, WayIs
    <3>7. Coming(p)' \/ Complete(p)' => OnTheWay(p, h, l)'
      BY <1>2, WayIs
    <3> QED BY <3>2, <3>3, <3>4, <3>5, <3>6, <3>7, Zenon DEF OnTheWay
  <2> QED BY <2>1, <2>2, <2>3, <2>4, Zenon DEF Parser
<1>12. Parser(header, line, ring_times)'
  <2>1. header' = h /\ line' = l /\ ring_times' = 0
    BY <1>2, <1>8
  <2> QED BY <2>1, <1>11
<1>13. PackageIs'
  BY <1>2, <1>4 DEF Inv, PackageIs
<1>14. BufferIs'
  BY <1>2, <1>4, BatchAssumption DEF BufferIs
<1>15. BatchesAreExpected'
  <2>1. /\ \A i \in 1 .. Len(nodebuffer) : ~nodebuffer[i].sync
        /\ Len(nodebuffer) < BatchSize /\ ring_times \in Nat
    BY <1>5 DEF Inv, BufferIs, Parser, HeaderIs
  <2>2. PICK n \in Nat : n = Len(nodebuffer) /\ n < BatchSize
    BY <1>3, <2>1, LenProperties
  <2>3. /\ \A i \in 1 .. Len(nodebuffer) - 1 : ~nodebuffer[i].sync
        /\ ~(Len(nodebuffer) > 0 /\ nodebuffer[Len(nodebuffer)].sync)
    BY <2>1, <2>2
  <2>4. Len(nodebuffer) <= BatchSize /\ Len(nodebuffer) # BatchSize
    BY <2>2, BatchAssumption
  <2> QED BY <2>1, <2>3, <2>4, <1>2, <1>3, BatchIs
<1>16. NodesAre' /\ SamplesInOrder'
  BY <1>2, <1>4, SameNodes DEF Inv
<1>17. timeouts' \in 0 .. MaxTimeouts /\ stream' \in Streams /\ faults' \subseteq Nat
  BY <1>2, PacketsAssumption DEF Inv
<1> QED BY <1>10, <1>12, <1>13, <1>14, <1>15, <1>16, <1>17 DEF Inv

LEMMA WantedIs ==
    ASSUME header \in Seq(Bytes)
    PROVE  Wanted \in Int
<1>1. CASE Len(header) < PackagePaidBytes
  BY <1>1, LenProperties DEF Wanted, PackagePaidBytes
<1>2. CASE ~(Len(header) < PackagePaidBytes)
  <2>1. 4 \in 1 .. Len(header)
    BY <1>2, LenProperties DEF PackagePaidBytes
  <2>2. header[4] \in Bytes
    BY <2>1, ElementOfSeq
  <2>3. PICK v \in 0 .. 4 : v = header[4].value
    BY <2>2 DEF Bytes, Values
  <2>4. PICK b \in {2, 3} : b = PackageSampleBytes
    BY PacketsAssumption
  <2>5. Wanted = v * b
    BY <1>2, <2>3, <2>4, Zenon DEF Wanted
  <2>6. v * b \in Int
    BY SMTT(30)
  <2> QED BY <2>5, <2>6
<1> QED BY <1>1, <1>2

\* What is left of the line l when byte i is lost or damaged.
Lost(l, i, l2) ==
    /\ Len(l2) = Len(l) - 1
    /\ \A j \in 1 .. i - 1 : l2[j] = l[j]
    /\ \A j \in i .. Len(l) - 1 : l2[j] = l[j + 1]

Damaged(l, i, l2) ==
    /\ Len(l2) = Len(l)
    /\ l2[i].at = l[i].at /\ l2[i].package = 0
    /\ \A j \in 1 .. Len(l) : j # i => l2[j] = l[j]

LEMMA RemovedIs ==
    ASSUME NEW l \in Seq(Bytes), NEW i \in 1 .. Len(l)
    PROVE  RemoveAt(l, i) \in Seq(Bytes) /\ Lost(l, i, RemoveAt(l, i))
<1> DEFINE a == SubSeq(l, 1, i - 1)
           b == SubSeq(l, i + 1, Len(l))
<1>1. PICK n \in Nat : n = Len(l)
  BY LenProperties
<1>2. i \in Nat /\ 1 <= i /\ i <= n /\ i - 1 \in Int /\ 1 \in Int
  BY <1>1
<1>3. \A j \in 1 .. i - 1 : l[j] \in Bytes
  BY <1>1, <1>2, ElementOfSeq
<1>4. /\ a \in Seq(Bytes)
      /\ Len(a) = IF 1 <= i - 1 THEN i - 1 - 1 + 1 ELSE 0
      /\ \A j \in 1 .. i - 1 - 1 + 1 : a[j] = l[1 + j - 1]
  BY <1>2, <1>3, SubSeqProperties
<1>5. /\ b \in Seq(Bytes) /\ Len(b) = n - i
      /\ \A j \in 1 .. n - i : b[j] = l[i + j]
  <2>1. i \in 0 .. Len(l)
    BY <1>1, <1>2
  <2> HIDE DEF b
  <2>2. b = RestOf(l, i)
    BY DEF RestOf, b
  <2> QED BY <2>1, <2>2, <1>1, RestIs
<1> HIDE DEF a, b
<1>6. Len(a) = i - 1 /\ \A j \in 1 .. i - 1 : a[j] = l[j]
  BY <1>2, <1>4
<1>7. PICK c : c = a \o b
  OBVIOUS
<1>8. /\ c \in Seq(Bytes) /\ Len(c) = n - 1
      /\ \A j \in 1 .. Len(a) : c[j] = a[j]
      /\ \A j \in 1 .. Len(b) : c[Len(a) + j] = b[j]
  <2>1. a \in Seq(Bytes) /\ b \in Seq(Bytes)
    BY <1>4, <1>5
  <2>2. /\ a \o b \in Seq(Bytes) /\ Len(a \o b) = Len(a) + Len(b)
        /\ \A j \in 1 .. Len(a) : (a \o b)[j] = a[j]
        /\ \A j \in 1 .. Len(b) : (a \o b)[Len(a) + j] = b[j]
    BY <2>1, Joined
  <2>3. Len(a) + Len(b) = n - 1
    BY <1>2, <1>5, <1>6
  <2> QED BY <2>2, <2>3, <1>7, Zenon
<1>9. \A j \in 1 .. i - 1 : c[j] = l[j]
  BY <1>6, <1>8
<1>10. ASSUME NEW j \in i .. n - 1 PROVE c[j] = l[j + 1]
  <2>1. PICK k \in 1 .. n - i : j = i - 1 + k
    BY <1>2
  <2>2. c[i - 1 + k] = l[i + k]
    BY <1>5, <1>6, <1>8
  <2>3. i + k = j + 1
    BY <2>1, <1>2
  <2> QED BY <2>1, <2>2, <2>3
<1>11. c = RemoveAt(l, i)
  BY <1>7 DEF RemoveAt, a, b
<1>12. Lost(l, i, c)
  BY <1>1, <1>8, <1>9, <1>10 DEF Lost
<1> QED BY <1>8, <1>11, <1>12

LEMMA ReplacedIs ==
    ASSUME NEW l \in Seq(Bytes), NEW i \in 1 .. Len(l), NEW v \in Values,
           NEW e, e = [value |-> v, package |-> 0, at |-> l[i].at]
    PROVE  ReplaceAt(l, i, e) \in Seq(Bytes) /\ Damaged(l, i, ReplaceAt(l, i, e))
<1>1. l[i] \in Bytes
  BY ElementOfSeq
<1>2. e \in Bytes /\ e.package = 0 /\ e.at = l[i].at
  BY <1>1 DEF Bytes
<1>3. PICK c : c = [l EXCEPT ![i] = e]
  OBVIOUS
<1>4. /\ c \in Seq(Bytes) /\ Len(c) = Len(l)
      /\ \A j \in 1 .. Len(l) : c[j] = IF j = i THEN e ELSE l[j]
  BY <1>2, <1>3, ExceptSeq
<1>5. Damaged(l, i, c)
  BY <1>2, <1>4 DEF Damaged
<1>6. c = ReplaceAt(l, i, e)
  BY <1>3 DEF ReplaceAt
<1> QED BY <1>4, <1>5, <1>6

\* The bytes that are left are in order, and those as sent are not at place x.
LEMMA BytesLeft ==
    ASSUME NEW h, NEW l, BytesAre(h, l), NEW i \in 1 .. Len(l),
           stream' = stream, faults' = faults \cup {l[i].at},
           NEW l2 \in Seq(Bytes), Lost(l, i, l2) \/ Damaged(l, i, l2)
    PROVE  /\ BytesAre(h, l2)'
           /\ \A j \in 1 .. Len(l2) : \E c \in 1 .. Len(l) : l2[j].at = l[c].at
<1>1. /\ h \in Seq(Bytes) /\ Len(h) <= PackagePaidBytes /\ Rising(h)
      /\ l \in Seq(Bytes) /\ Rising(l)
      /\ \A j \in 1 .. Len(h), k \in 1 .. Len(l) : h[j].at < l[k].at
      /\ \A j \in 1 .. Len(h) : Genuine(h[j])
      /\ \A j \in 1 .. Len(l) : Genuine(l[j])
  BY DEF BytesAre
<1>2. PICK n \in Nat : n = Len(l)
  BY <1>1, LenProperties
<1>3. i \in Nat /\ 1 <= i /\ i <= n
  BY <1>2
<1>4. \A j \in 1 .. n : l[j].at \in Nat
  <2> SUFFICES ASSUME NEW j \in 1 .. n PROVE l[j].at \in Nat
    OBVIOUS
  <2>1. l[j] \in Bytes
    BY <1>1, <1>2, ElementOfSeq
  <2> QED BY <2>1 DEF Bytes
<1>5. \A j, k \in 1 .. n : j < k => l[j].at < l[k].at
  BY <1>1, <1>2 DEF Rising
\* Byte j of l2 was byte c of l.
<1> DEFINE From(j, c) == /\ l2[j].at = l[c].at
                         /\ IF c = i THEN l2[j].package = 0 ELSE l2[j] = l[c]
<1>6. /\ \A j \in 1 .. Len(l2) : \E c \in 1 .. n : From(j, c)
      /\ Rising(l2)
  <2>1. CASE Lost(l, i, l2)
    <3>1. /\ Len(l2) = n - 1
          /\ \A j \in 1 .. i - 1 : l2[j] = l[j]
          /\ \A j \in i .. n - 1 : l2[j] = l[j + 1]
      BY <2>1, <1>2 DEF Lost
    <3>2. ASSUME NEW j \in 1 .. n - 1
          PROVE  \E c \in 1 .. n : c # i /\ l2[j] = l[c] /\ ((c = j /\ j < i) \/ (c = j + 1 /\ i <= j))
      <4>1. CASE j < i
        BY <4>1, <3>1, <1>3
      <4>2. CASE i <= j
        <5>1. j \in i .. n - 1 /\ j + 1 \in 1 .. n /\ j + 1 # i
          BY <4>2, <1>3
        <5> QED BY <4>2, <5>1, <3>1
      <4> QED BY <4>1, <4>2, <1>3
    <3>3. \A j \in 1 .. Len(l2) : \E c \in 1 .. n : From(j, c)
      BY <3>1, <3>2
    <3>4. ASSUME NEW j \in 1 .. n - 1, NEW k \in 1 .. n - 1, j < k PROVE l2[j].at < l2[k].at
      <4>1. PICK c \in 1 .. n : l2[j] = l[c] /\ ((c = j /\ j < i) \/ (c = j + 1 /\ i <= j))
        BY <3>2
      <4>2. PICK d \in 1 .. n : l2[k] = l[d] /\ ((d = k /\ k < i) \/ (d = k + 1 /\ i <= k))
        BY <3>2
      <4>3. c < d
        BY <4>1, <4>2, <3>4, <1>3
      <4> QED BY <4>1, <4>2, <4>3, <1>5
    <3> QED BY <3>1, <3>3, <3>4 DEF Rising
  <2>2. CASE Damaged(l, i, l2)
    <3>1. /\ Len(l2) = n
          /\ l2[i].at = l[i].at /\ l2[i].package = 0
          /\ \A j \in 1 .. n : j # i => l2[j] = l[j]
      BY <2>2, <1>2 DEF Damaged
    <3>2. \A j \in 1 .. n : From(j, j)
      BY <3>1
    <3>3. \A j \in 1 .. n : l2[j].at = l[j].at
      BY <3>1
    <3>4. Rising(l2)
      BY <3>1, <3>3, <1>5 DEF Rising
    <3> QED BY <3>1, <3>2, <3>4
  <2> QED BY <2>1, <2>2
<1>7. \A j \in 1 .. Len(l2) : \E c \in 1 .. Len(l) : l2[j].at = l[c].at
  BY <1>2, <1>6
<1>8. \A j \in 1 .. Len(h), k \in 1 .. Len(l2) : h[j].at < l2[k].at
  BY <1>1, <1>7
<1>9. ASSUME NEW b, Genuine(b), b.at # l[i].at PROVE Genuine(b)'
  BY <1>9 DEF Genuine, Total
<1>10. \A j \in 1 .. Len(h) : Genuine(h[j])'
  <2> SUFFICES ASSUME NEW j \in 1 .. Len(h) PROVE Genuine(h[j])'
    OBVIOUS
  <2>1. h[j] \in Bytes /\ h[j].at < l[i].at /\ Genuine(h[j])
    BY <1>1, ElementOfSeq
  <2>2. h[j].at \in Nat
    BY <2>1 DEF Bytes
  <2>3. h[j].at # l[i].at
    BY <2>1, <2>2, <1>2, <1>4
  <2> QED BY <2>1, <2>3, <1>9
<1>11. \A j \in 1 .. Len(l2) : Genuine(l2[j])'
  <2> SUFFICES ASSUME NEW j \in 1 .. Len(l2) PROVE Genuine(l2[j])'
    OBVIOUS
  <2>1. PICK c \in 1 .. n : From(j, c)
    BY <1>6
  <2>2. Genuine(l[c])
    BY <1>1, <1>2
  <2>3. CASE c = i
    <3>1. l2[j].package = 0 /\ l2[j].at \in 1 .. Total
      BY <2>1, <2>2, <2>3 DEF Genuine
    <3> QED BY <3>1 DEF Genuine, Total
  <2>4. CASE c # i
    <3>1. l2[j] = l[c]
      BY <2>1, <2>4
    <3>2. l[c].at # l[i].at
      <4>1. c < i \/ i < c
        BY <2>4, <1>3
      <4>2. i \in 1 .. n /\ l[c].at \in Nat /\ l[i].at \in Nat
        BY <1>3, <1>4
      <4>3. l[c].at < l[i].at \/ l[i].at < l[c].at
        BY <4>1, <4>2, <1>5
      <4> QED BY <4>2, <4>3
    <3> QED BY <3>1, <3>2, <2>2, <1>9
  <2> QED BY <2>3, <2>4
<1> QED BY <1>1, <1>6, <1>7, <1>8, <1>10, <1>11 DEF BytesAre

\* A byte that is not near a clean package can be lost or damaged.
LEMMA AheadLeft ==
    ASSUME stream \in Seq(BOOLEAN), NEW p \in 1 .. Len(stream),
           NEW h \in Seq(Bytes), NEW l \in Seq(Bytes), NEW i \in 1 .. Len(l),
           NEW l2, Lost(l, i, l2) \/ Damaged(l, i, l2),
           l[i].at \notin StartOf(p) + 1 - Swallowed .. EndOf(stream, p),
           NEW k \in Nat, Ahead(p, k, l), Harmless(p, k, h, l)
    PROVE  \E j \in 0 .. Len(l2) : Ahead(p, j, l2) /\ Harmless(p, j, h, l2)
<1>1. PICK m \in Nat, n \in Nat : m = Len(h) /\ n = Len(l)
  BY LenProperties
<1>2. PICK s \in Nat, z \in 12 .. 22 :
          s = StartOf(p) /\ z = Size(stream, p) /\ EndOf(stream, p) = s + z
          /\ s + z <= Total /\ Total \in Nat
  BY Places
<1>3. PICK w \in 18 .. 22 : w = Swallowed
  <2>1. PackageSampleBytes = 2 \/ PackageSampleBytes = 3
    BY PacketsAssumption
  <2> QED BY <2>1 DEF Swallowed, PackagePaidBytes, HeadLow
<1>4. k <= s /\ k + z <= n
  BY <1>1, <1>2, Zenon DEF Ahead
<1>5. \A j \in 1 .. k + z : j + w > k => l[j] = Sent(stream)[s - k + j]
  BY <1>2, <1>3, Zenon DEF Ahead
<1>6. i \in Nat /\ 1 <= i /\ i <= n
  BY <1>1
<1>7. i + w <= k \/ i > k + z
  <2>0. SUFFICES ASSUME i + w > k, i <= k + z PROVE FALSE
    BY <1>6
  <2>1. i \in 1 .. k + z
    BY <1>6, <2>0
  <2>2. l[i] = Sent(stream)[s - k + i]
    BY <2>0, <2>1, <1>5
  <2>3. s - k + i \in 1 .. Total
    <3>1. PICK e \in Nat : e = Total /\ s + z <= e
      BY <1>2
    <3>2. s - k + i \in 1 .. e
      BY <3>1, <2>0, <1>4, <1>6
    <3> QED BY <3>1, <3>2
  <2>4. l[i].at = s - k + i
    BY <2>2, <2>3, <1>1, SentAt
  <2>5. s - k + i \in s + 1 - w .. s + z
    BY <2>0, <1>4, <1>6
  <2>6. l[i].at \in s + 1 - w .. s + z
    BY <2>4, <2>5, Zenon
  <2> QED BY <2>6, <1>2, <1>3, Zenon
<1>8. ASSUME NEW j \in 0 .. Len(l2), j <= s, j + z <= Len(l2),
             \A c \in 1 .. j + z : c + w > j => l2[c] = Sent(stream)[s - j + c]
      PROVE  Ahead(p, j, l2)
  BY <1>8, <1>2, <1>3, Zenon DEF Ahead
<1>9. CASE i + w <= k /\ Lost(l, i, l2)
  <2>1. Len(l2) = n - 1 /\ \A j \in i .. n - 1 : l2[j] = l[j + 1]
    BY <1>1, <1>9 DEF Lost
  <2>2. PICK d \in Nat : d = k - 1
    BY <1>6, <1>9
  <2>3. d \in 0 .. Len(l2) /\ d <= s /\ d + z <= Len(l2)
    BY <2>1, <2>2, <1>4, <1>6
  <2>4. ASSUME NEW c \in 1 .. d + z, c + w > d PROVE l2[c] = Sent(stream)[s - d + c]
    <3>1. c >= i
      <4>1. i + w <= k /\ c + w > k - 1
        BY <2>2, <2>4, <1>9
      <4>2. c \in Int /\ i \in Int /\ w \in Int
        BY <1>6
      <4> QED BY <4>1, <4>2
    <3>2. c \in i .. n - 1 /\ c + 1 \in 1 .. k + z /\ (c + 1) + w > k
      BY <3>1, <2>2, <2>4, <1>4, <1>6
    <3>3. s - k + (c + 1) = s - d + c
      BY <2>2
    <3> QED BY <3>2, <3>3, <2>1, <1>5
  <2>5. Ahead(p, d, l2)
    BY <2>3, <2>4, <1>8
  <2>6. Len(h) + d >= Swallowed
    <3>1. m + d >= w
      <4>1. i + w <= k /\ m \in Nat /\ w \in Nat
        BY <1>9
      <4> QED BY <4>1, <2>2, <1>6
    <3> QED BY <3>1, <1>1, <1>3, Zenon
  <2> QED BY <2>3, <2>5, <2>6, Zenon DEF Harmless
<1>10. CASE i + w <= k /\ Damaged(l, i, l2)
  <2>1. Len(l2) = n /\ \A j \in 1 .. n : j # i => l2[j] = l[j]
    BY <1>1, <1>10, Zenon DEF Damaged
  <2>2. k \in 0 .. Len(l2) /\ k + z <= Len(l2)
    BY <2>1, <1>4
  <2>3. ASSUME NEW c \in 1 .. k + z, c + w > k PROVE l2[c] = Sent(stream)[s - k + c]
    <3>1. c \in 1 .. n /\ c # i
      BY <2>3, <1>4, <1>10
    <3> QED BY <3>1, <2>1, <2>3, <1>5
  <2>4. Ahead(p, k, l2)
    BY <2>2, <2>3, <1>4, <1>8
  <2>5. Len(h) + k >= Swallowed
    <3>1. m + k >= w
      BY <1>6, <1>10
    <3> QED BY <3>1, <1>1, <1>3, Zenon
  <2> QED BY <2>2, <2>4, <2>5, Zenon DEF Harmless
<1>11. CASE i > k + z
  <2>1. \A j \in 1 .. k + z : l2[j] = l[j]
    <3> SUFFICES ASSUME NEW j \in 1 .. k + z PROVE l2[j] = l[j]
      OBVIOUS
    <3>1. j \in 1 .. i - 1 /\ j \in 1 .. n /\ j # i
      BY <1>4, <1>6, <1>11
    <3> QED BY <3>1, <1>1 DEF Lost, Damaged
  <2>2. k + z <= Len(l2)
    <3>1. Len(l2) = n - 1 \/ Len(l2) = n
      BY <1>1, Zenon DEF Lost, Damaged
    <3> QED BY <3>1, <1>6, <1>11
  <2>3. k \in 0 .. Len(l2)
    <3>1. Len(l2) = n - 1 \/ Len(l2) = n
      BY <1>1, Zenon DEF Lost, Damaged
    <3> QED BY <3>1, <2>2
  <2>4. Ahead(p, k, l2)
    BY <2>1, <2>2, <2>3, <1>4, <1>5, <1>8
  <2>5. 1 \in 1 .. k + z
    OBVIOUS
  <2>6. l2[1] = l[1]
    BY <2>1, <2>5
  <2>7. Harmless(p, k, h, l2)
    BY <2>6, Zenon DEF Harmless
  <2> QED BY <2>3, <2>4, <2>7
<1> QED BY <1>7, <1>9, <1>10, <1>11

LEMMA BegunLeft ==
    ASSUME stream \in Seq(BOOLEAN), NEW p \in 1 .. Len(stream),
           NEW h \in Seq(Bytes), Len(h) <= 10, NEW l \in Seq(Bytes), NEW i \in 1 .. Len(l),
           NEW l2, Lost(l, i, l2) \/ Damaged(l, i, l2),
           l[i].at \notin StartOf(p) + 1 - Swallowed .. EndOf(stream, p),
           Begun(p, h, l)
    PROVE  Begun(p, h, l2)
<1>1. PICK m \in Nat, n \in Nat : m = Len(h) /\ n = Len(l) /\ m <= 10
  BY LenProperties
<1>2. PICK s \in Nat, z \in 12 .. 22 :
          s = StartOf(p) /\ z = Size(stream, p) /\ EndOf(stream, p) = s + z
          /\ s + z <= Total /\ Total \in Nat
  BY Places
<1>3. PICK w \in 18 .. 22 : w = Swallowed
  <2>1. PackageSampleBytes = 2 \/ PackageSampleBytes = 3
    BY PacketsAssumption
  <2> QED BY <2>1 DEF Swallowed, PackagePaidBytes, HeadLow
<1>4. z - m <= n /\ h # << >> /\ BeginningOf(p, h)
  BY <1>1, <1>2, Zenon DEF Begun
<1>5. \A j \in 1 .. z - m : l[j] = Sent(stream)[s + m + j]
  BY <1>1, <1>2, Zenon DEF Begun
<1>6. i \in Nat /\ 1 <= i /\ i <= n
  BY <1>1
<1>7. i > z - m
  <2> SUFFICES ASSUME i <= z - m PROVE FALSE
    BY <1>6
  <2>1. i \in 1 .. z - m
    BY <1>6
  <2>2. l[i] = Sent(stream)[s + m + i]
    BY <2>1, <1>5
  <2>3. s + m + i \in 1 .. Total
    BY <2>1, <1>2, SMTT(40)
  <2>4. l[i].at = s + m + i
    BY <2>2, <2>3, SentAt
  <2>5. s + m + i \in s + 1 - w .. s + z
    BY <2>1
  <2>6. l[i].at \in s + 1 - w .. s + z
    BY <2>4, <2>5, Zenon
  <2> QED BY <2>6, <1>2, <1>3, Zenon
<1>8. \A j \in 1 .. z - m : l2[j] = l[j]
  <2> SUFFICES ASSUME NEW j \in 1 .. z - m PROVE l2[j] = l[j]
    OBVIOUS
  <2>1. j \in 1 .. i - 1 /\ j \in 1 .. n /\ j # i
    BY <1>4, <1>6, <1>7
  <2> QED BY <2>1, <1>1 DEF Lost, Damaged
<1>9. z - m <= Len(l2)
  <2>1. Len(l2) = n - 1 \/ Len(l2) = n
    BY <1>1, Zenon DEF Lost, Damaged
  <2> QED BY <2>1, <1>4, <1>6, <1>7
<1>10. \A j \in 1 .. z - m : l2[j] = Sent(stream)[s + m + j]
  BY <1>5, <1>8
<1> QED BY <1>1, <1>2, <1>4, <1>9, <1>10, Zenon DEF Begun

LEMMA DisturbStep ==
    ASSUME Inv, Disturb
    PROVE  Inv'
<1>1. stream \in Seq(BOOLEAN)
  BY PacketsAssumption DEF Inv
<1>2. UNCHANGED <<stream, header, package, package_sample_index_, check_sum_result_,
                  nodebuffer, ring_times, returned, timeouts, delivered, interrupted>>
  BY DEF Disturb
<1>3. AllNodes' = AllNodes
  BY <1>2 DEF AllNodes
<1>4. Parser(header, line, ring_times) /\ BytesAre(header, line)
  BY DEF Inv, Parser
<1>5. header \in Seq(Bytes) /\ Len(header) <= 10 /\ line \in Seq(Bytes)
  BY <1>4 DEF BytesAre, PackagePaidBytes
<1>6. PICK i \in 1 .. Wanted :
          /\ i <= Len(line) /\ line[i].package # 0
          /\ faults' = faults \cup {line[i].at}
          /\ \/ line' = RemoveAt(line, i)
             \/ \E v \in Values \ {line[i].value} :
                   line' = ReplaceAt(line, i, [value |-> v, package |-> 0, at |-> line[i].at])
  BY Zenon DEF Disturb
<1>7. i \in 1 .. Len(line)
  BY <1>5, <1>6, WantedIs, LenProperties
<1>8. line[i].at \in Nat
  <2>1. line[i] \in Bytes
    BY <1>5, <1>7, ElementOfSeq
  <2> QED BY <2>1 DEF Bytes
<1>9. line' \in Seq(Bytes) /\ (Lost(line, i, line') \/ Damaged(line, i, line'))
  <2>1. CASE line' = RemoveAt(line, i)
    BY <2>1, <1>5, <1>7, RemovedIs
  <2>2. ASSUME NEW v \in Values \ {line[i].value},
               line' = ReplaceAt(line, i, [value |-> v, package |-> 0, at |-> line[i].at])
        PROVE  line' \in Seq(Bytes) /\ Damaged(line, i, line')
    BY <2>2, <1>5, <1>7, ReplacedIs
  <2> QED BY <2>1, <2>2, <1>6
<1>10. PICK h, l, l2, r : h = header /\ l = line /\ l2 = line' /\ r = ring_times
  OBVIOUS
<1>11. /\ h \in Seq(Bytes) /\ Len(h) <= 10 /\ l \in Seq(Bytes) /\ l2 \in Seq(Bytes)
       /\ i \in 1 .. Len(l) /\ (Lost(l, i, l2) \/ Damaged(l, i, l2))
       /\ faults' = faults \cup {l[i].at} /\ l[i].at \in Nat
       /\ Parser(h, l, r) /\ BytesAre(h, l)
  BY <1>4, <1>5, <1>6, <1>7, <1>8, <1>9, <1>10
<1>12. /\ BytesAre(h, l2)'
       /\ \A j \in 1 .. Len(l2) : \E c \in 1 .. Len(l) : l2[j].at = l[c].at
  <2>1. stream' = stream
    BY <1>2
  <2> QED BY <2>1, <1>11, BytesLeft
<1>13. Parser(h, l2, r)'
  <2>1. HeaderIs(h, r)'
    BY <1>11, Zenon DEF Parser, HeaderIs
  <2>2. Passed(h, l2)'
    <3>1. Passed(h, l)
      BY <1>11 DEF Parser
    <3>2. Passed(h, l2)
      BY <3>1, <1>12 DEF Passed
    <3> QED BY <3>2, <1>2, <1>3, SamePassed
  <2>3. CleanOnTheWay(h, l2)'
    <3> SUFFICES ASSUME NEW p \in 1 .. Len(stream), Clean(p)' PROVE OnTheWay(p, h, l2)'
      BY <1>2, Zenon DEF CleanOnTheWay
    <3>1. (faults' \cup interrupted')
              \cap (EndOf(stream', p - 1) + 1 - Swallowed .. EndOf(stream', p)) = {}
      BY Zenon DEF Clean
    <3>2. (faults' \cup interrupted')
              \cap (StartOf(p) + 1 - Swallowed .. EndOf(stream, p)) = {}
      BY <3>1, <1>2, Zenon DEF StartOf
    <3>3. l[i].at \notin StartOf(p) + 1 - Swallowed .. EndOf(stream, p)
      BY <3>2, <1>11
    <3>4. Clean(p)
      BY <3>2, <1>2, <1>11 DEF Clean, StartOf
    <3>5. OnTheWay(p, h, l)
      BY <3>4, <1>11, Zenon DEF Parser, CleanOnTheWay
    <3>6. Coming(p) => Coming(p)'
      BY <1>2, <1>3, Zenon DEF Coming, HasNode
    <3>7. Complete(p) => Complete(p)'
      BY <1>2, <1>3, Zenon DEF Complete, HasNode
    <3>8. ASSUME NEW k \in 0 .. Len(l), Ahead(p, k, l), Harmless(p, k, h, l)
          PROVE  OnTheWay(p, h, l2)'
      <4>1. k \in Nat
        OBVIOUS
      <4>2. \E j \in 0 .. Len(l2) : Ahead(p, j, l2) /\ Harmless(p, j, h, l2)
        BY <3>3, <3>8, <4>1, <1>1, <1>11, AheadLeft
      <4> QED BY <4>2, <1>2, WayIs
    <3>9. Begun(p, h, l) => OnTheWay(p, h, l2)'
      <4>1. Begun(p, h, l) => Begun(p, h, l2)
        BY <3>3, <1>1, <1>11, BegunLeft
      <4> QED BY <4>1, <1>2, WayIs
    <3>10. Coming(p)' \/ Complete(p)' => OnTheWay(p, h, l2)'
      BY <1>2, WayIs
    <3> QED BY <3>5, <3>6, <3>7, <3>8, <3>9, <3>10, Zenon DEF OnTheWay
  <2> QED BY <2>1, <2>2, <2>3, <1>12, Zenon DEF Parser
<1>14. Parser(header, line, ring_times)'
  BY <1>2, <1>10, <1>13
<1>15. PackageIs' /\ BufferIs' /\ BatchesAreExpected'
  BY <1>2, <1>3, Zenon DEF Inv, PackageIs, BufferIs, BatchesAreExpected
<1>16. SamplesInOrder'
  BY <1>2, <1>3, SameOrder DEF Inv
<1>17. NodesAre'
  <2> SUFFICES ASSUME NEW n \in 1 .. Len(AllNodes) PROVE NodeIs(AllNodes[n])'
    BY <1>3 DEF NodesAre
  <2>1. NodeIs(AllNodes[n])
    BY DEF Inv, NodesAre
  <2>2. PICK q : q = AllNodes[n].package
    OBVIOUS
  <2>3. ASSUME q # 0
        PROVE faults' \cap (StartOf(q) + 1 .. EndOf(stream, q)) = {}
    <3>1. faults \cap (StartOf(q) + 1 .. EndOf(stream, q)) = {} /\ q \in 1 .. Len(stream)
      BY <2>1, <2>2, <2>3 DEF NodeIs
    <3>2. EndOf(stream, q) < l[i].at
      BY <2>2, <2>3, <1>11 DEF Parser, Passed
    <3>3. EndOf(stream, q) \in Nat
      BY <3>1, <1>1, Places
    <3>4. l[i].at \notin StartOf(q) + 1 .. EndOf(stream, q)
      BY <3>2, <3>3, <1>11
    <3> QED BY <3>1, <3>4, <1>11
  <2> QED BY <2>1, <2>2, <2>3, <1>2, <1>3, Zenon DEF NodeIs, StartOf
<1>18. faults' \subseteq Nat
  BY <1>6, <1>8 DEF Inv
<1> QED BY <1>2, <1>14, <1>15, <1>16, <1>17, <1>18 DEF Inv
-----------------------------------------------------------------------------
(* A node is made.                                                         *)

LEMMA OneMore ==
    ASSUME NEW a \in Seq(Nodes), NEW node \in Nodes, NEW b, b = Append(a, node)
    PROVE  /\ Len(a) \in Nat /\ Len(b) = Len(a) + 1 /\ b[Len(a) + 1] = node
           /\ \A n \in 1 .. Len(a) : n \in 1 .. Len(b) /\ b[n] = a[n] /\ a[n] \in Nodes
           /\ \A n \in 1 .. Len(b) : n \in 1 .. Len(a) \/ n = Len(a) + 1
<1>1. Len(a) \in Nat /\ \A n \in 1 .. Len(a) : a[n] \in Nodes
  BY LenProperties, ElementOfSeq
<1>2. /\ Len(b) = Len(a) + 1 /\ b[Len(a) + 1] = node
      /\ \A n \in 1 .. Len(a) : b[n] = a[n]
  BY AppendProperties
<1>3. PICK m \in Nat : m = Len(a) /\ m + 1 = Len(b)
  BY <1>1, <1>2
<1>4. \A n \in 1 .. m : n \in 1 .. m + 1
  OBVIOUS
<1>5. \A n \in 1 .. m + 1 : n \in 1 .. m \/ n = m + 1
  OBVIOUS
<1> QED BY <1>1, <1>2, <1>3, <1>4, <1>5

LEMMA AllNodesAre ==
    ASSUME Inv
    PROVE  /\ delivered \in Seq(Nodes) /\ nodebuffer \in Seq(Nodes) /\ AllNodes \in Seq(Nodes)
           /\ Len(AllNodes) \in Nat
<1>1. delivered \in Seq(Nodes) /\ nodebuffer \in Seq(Nodes)
  BY DEF Inv, BufferIs
<1>2. AllNodes \in Seq(Nodes)
  BY <1>1, ConcatProperties DEF AllNodes
<1> QED BY <1>1, <1>2, LenProperties

LEMMA PassedGrows ==
    ASSUME stream' = stream, AllNodes \in Seq(Nodes),
           NEW node \in Nodes, AllNodes' = Append(AllNodes, node),
           NEW h, NEW l, Passed(h, l),
           node.package # 0 =>
               /\ \A i \in 1 .. Len(h) : EndOf(stream, node.package) < h[i].at
               /\ \A i \in 1 .. Len(l) : EndOf(stream, node.package) < l[i].at
    PROVE  Passed(h, l)'
<1>1. PICK a, b : a = AllNodes /\ b = AllNodes' /\ a \in Seq(Nodes) /\ b = Append(a, node)
  OBVIOUS
<1>2. /\ \A n \in 1 .. Len(b) : n \in 1 .. Len(a) \/ n = Len(a) + 1
      /\ \A n \in 1 .. Len(a) : b[n] = a[n]
      /\ b[Len(a) + 1] = node
  BY <1>1, OneMore
<1>3. \A n \in 1 .. Len(a) : a[n].package # 0 =>
          /\ \A i \in 1 .. Len(h) : EndOf(stream, a[n].package) < h[i].at
          /\ \A i \in 1 .. Len(l) : EndOf(stream, a[n].package) < l[i].at
  BY <1>1, Zenon DEF Passed
<1>4. \A n \in 1 .. Len(b) : b[n].package # 0 =>
          /\ \A i \in 1 .. Len(h) : EndOf(stream, b[n].package) < h[i].at
          /\ \A i \in 1 .. Len(l) : EndOf(stream, b[n].package) < l[i].at
  BY <1>2, <1>3, Zenon
<1> QED BY <1>1, <1>4, Zenon DEF Passed

LEMMA NodesGrow ==
    ASSUME stream' = stream, faults' = faults, AllNodes \in Seq(Nodes), NodesAre,
           NEW node \in Nodes, AllNodes' = Append(AllNodes, node), NodeIs(node)
    PROVE  NodesAre'
<1>1. PICK a, b : a = AllNodes /\ b = AllNodes' /\ a \in Seq(Nodes) /\ b = Append(a, node)
  OBVIOUS
<1>2. /\ \A n \in 1 .. Len(b) : n \in 1 .. Len(a) \/ n = Len(a) + 1
      /\ \A n \in 1 .. Len(a) : b[n] = a[n]
      /\ b[Len(a) + 1] = node
  BY <1>1, OneMore
<1>3. \A n \in 1 .. Len(a) : NodeIs(a[n])
  BY <1>1, Zenon DEF NodesAre
<1>4. \A n \in 1 .. Len(b) : NodeIs(b[n])
  BY <1>2, <1>3, Zenon
<1>5. ASSUME NEW x, NodeIs(x) PROVE NodeIs(x)'
  BY <1>5, Zenon DEF NodeIs, StartOf
<1>6. \A n \in 1 .. Len(b) : NodeIs(b[n])'
  BY <1>4, <1>5
<1> QED BY <1>1, <1>6 DEF NodesAre

\* Node b may follow the nodes a.
Follows(a, b) ==
    b.package # 0 =>
        /\ b.sample < Count(stream, b.package)
        /\ b.sample # 0 => Len(a) > 0 /\ a[Len(a)] = [b EXCEPT !.sample = @ - 1]
        /\ \A j \in 1 .. Len(a) :
               a[j].package # 0 =>
                   \/ a[j].package < b.package
                   \/ a[j].package = b.package /\ a[j].sample < b.sample

LEMMA OrderGrows ==
    ASSUME stream' = stream, AllNodes \in Seq(Nodes), SamplesInOrder,
           NEW node \in Nodes, AllNodes' = Append(AllNodes, node), Follows(AllNodes, node)
    PROVE  SamplesInOrder'
<1>1. PICK a, b : a = AllNodes /\ b = AllNodes' /\ a \in Seq(Nodes) /\ b = Append(a, node)
  OBVIOUS
<1>2. /\ Len(a) \in Nat
      /\ \A n \in 1 .. Len(b) : n \in 1 .. Len(a) \/ n = Len(a) + 1
      /\ \A n \in 1 .. Len(a) : b[n] = a[n]
      /\ b[Len(a) + 1] = node
  BY <1>1, OneMore
<1> DEFINE Placed(s, i) ==
        s[i].package # 0 =>
            /\ s[i].sample < NumOf(stream[s[i].package])
            /\ s[i].sample # 0 =>
                  i > 1 /\ s[i - 1] = [s[i] EXCEPT !.sample = @ - 1]
            /\ \A j \in 1 .. i - 1 :
                  s[j].package # 0 =>
                      \/ s[j].package < s[i].package
                      \/ /\ s[j].package = s[i].package
                         /\ s[j].sample < s[i].sample
<1>3. \A i \in 1 .. Len(a) : Placed(a, i)
  BY <1>1, Zenon DEF SamplesInOrder, AllNodes
<1>4. ASSUME NEW i \in 1 .. Len(a) PROVE Placed(b, i)
  <2>1. b[i] = a[i] /\ \A j \in 1 .. i - 1 : b[j] = a[j]
    BY <1>2
  <2>2. i > 1 => b[i - 1] = a[i - 1]
    BY <2>1
  <2>3. ASSUME a[i].package # 0
        PROVE  /\ a[i].sample < NumOf(stream[a[i].package])
               /\ a[i].sample # 0 =>
                      i > 1 /\ b[i - 1] = [a[i] EXCEPT !.sample = @ - 1]
               /\ \A j \in 1 .. i - 1 : b[j].package # 0 =>
                      \/ b[j].package < a[i].package
                      \/ b[j].package = a[i].package /\ b[j].sample < a[i].sample
    <3>1. /\ a[i].sample < NumOf(stream[a[i].package])
          /\ a[i].sample # 0 =>
                 i > 1 /\ a[i - 1] = [a[i] EXCEPT !.sample = @ - 1]
          /\ \A j \in 1 .. i - 1 : a[j].package # 0 =>
                 \/ a[j].package < a[i].package
                 \/ a[j].package = a[i].package /\ a[j].sample < a[i].sample
      BY <2>3, <1>3, Zenon
    <3>2. ASSUME a[i].sample # 0
          PROVE  i > 1 /\ b[i - 1] = [a[i] EXCEPT !.sample = @ - 1]
      BY <3>1, <3>2, <2>2, Zenon
    <3> QED BY <3>1, <3>2, <2>1, Zenon
  <2> QED BY <2>1, <2>3, Zenon
<1>5. Placed(b, Len(a) + 1)
  <2>1. PICK m \in Nat : m = Len(a) /\ (m + 1) - 1 = m
    BY <1>2
  <2>2. b[m + 1] = node /\ \A j \in 1 .. m : b[j] = a[j]
    BY <1>2, <2>1
  <2>3. ASSUME node.package # 0
        PROVE  /\ node.sample < NumOf(stream[node.package])
               /\ node.sample # 0 =>
                      m + 1 > 1 /\ b[m] = [node EXCEPT !.sample = @ - 1]
               /\ \A j \in 1 .. m : b[j].package # 0 =>
                      \/ b[j].package < node.package
                      \/ b[j].package = node.package /\ b[j].sample < node.sample
    <3>1. /\ node.sample < NumOf(stream[node.package])
          /\ node.sample # 0 => m > 0 /\ a[m] = [node EXCEPT !.sample = @ - 1]
          /\ \A j \in 1 .. m : a[j].package # 0 =>
                 \/ a[j].package < node.package
                 \/ a[j].package = node.package /\ a[j].sample < node.sample
      BY <2>1, <2>3, <1>1, Zenon DEF Follows, Count
    <3>2. m > 0 => m \in 1 .. m /\ m + 1 > 1
      OBVIOUS
    <3>3. m > 0 => b[m] = a[m] /\ m + 1 > 1
      BY <3>2, <2>2, Zenon
    <3> QED BY <3>1, <3>3, <2>2, Zenon
  <2> QED BY <2>1, <2>2, <2>3, Zenon
<1>6. \A i \in 1 .. Len(b) : Placed(b, i)
  <2> HIDE DEF Placed
  <2> QED BY <1>2, <1>4, <1>5
<1>7. b = delivered' \o nodebuffer'
  BY <1>1, Zenon DEF AllNodes
<1>8. \A i \in 1 .. Len(b) :
          b[i].package # 0 =>
              /\ b[i].sample < NumOf(stream'[b[i].package])
              /\ b[i].sample # 0 =>
                    i > 1 /\ b[i - 1] = [b[i] EXCEPT !.sample = @ - 1]
              /\ \A j \in 1 .. i - 1 :
                    b[j].package # 0 =>
                        \/ b[j].package < b[i].package
                        \/ /\ b[j].package = b[i].package
                           /\ b[j].sample < b[i].sample
  BY <1>6, Zenon
<1> HIDE DEF Placed
<1> QED BY <1>7, <1>8, ZenonT(40) DEF SamplesInOrder

\* What a node does to the calls.
LEMMA DeliverIs ==
    ASSUME Inv, NEW pack, NEW check, NEW i, Deliver(pack, check, i),
           NEW node \in Nodes, node = Node(pack, check, i),
           node.sync => ring_times > 0
    PROVE  /\ AllNodes' = Append(AllNodes, node)
           /\ BufferIs' /\ BatchesAreExpected' /\ ring_times' \in Nat
           /\ UNCHANGED <<stream, faults, timeouts, interrupted>>
<1>1. PICK nodes : nodes = Append(nodebuffer, node)
  OBVIOUS
<1>2. /\ IF Finished(nodes)
         THEN Return(TRUE, nodes, ring_times)
         ELSE nodebuffer' = nodes /\ UNCHANGED <<returned, delivered, ring_times>>
      /\ UNCHANGED <<stream, faults, timeouts, interrupted>>
  BY <1>1, Zenon DEF Deliver
<1>3. delivered \in Seq(Nodes) /\ nodebuffer \in Seq(Nodes) /\ AllNodes \in Seq(Nodes)
  BY AllNodesAre
<1>4. PICK m \in Nat : m = Len(nodebuffer) /\ m < BatchSize
  BY <1>3, LenProperties DEF Inv, BufferIs
<1>5. /\ nodes \in Seq(Nodes) /\ Len(nodes) = m + 1 /\ nodes[m + 1] = node
      /\ \A n \in 1 .. m : nodes[n] = nodebuffer[n]
  BY <1>1, <1>3, <1>4, AppendProperties
<1>6. delivered \o nodes = Append(AllNodes, node)
  <2>1. <<node>> \in Seq(Nodes)
    OBVIOUS
  <2>2. nodes = nodebuffer \o <<node>> /\ Append(AllNodes, node) = AllNodes \o <<node>>
    BY <1>1, <1>3, AppendIsConcat
  <2>3. (delivered \o nodebuffer) \o <<node>> = delivered \o (nodebuffer \o <<node>>)
    BY <2>1, <1>3, ConcatAssociative
  <2> QED BY <2>2, <2>3, Zenon DEF AllNodes
<1>7. \A n \in 1 .. m : ~nodes[n].sync
  BY <1>4, <1>5 DEF Inv, BufferIs
<1>8. Finished(nodes) <=> node.sync \/ m + 1 = BatchSize
  BY <1>5, Zenon DEF Finished
<1>9. ring_times \in Nat
  BY DEF Inv, Parser, HeaderIs
<1>10. CASE Finished(nodes)
  <2>1. /\ returned' = [ok |-> TRUE, nodes |-> nodes, ring_times |-> ring_times]
        /\ delivered' = delivered \o nodes /\ nodebuffer' = << >> /\ ring_times' = 0
    BY <1>2, <1>10 DEF Return
  <2>2. delivered' \in Seq(Nodes)
    BY <2>1, <1>3, <1>5, ConcatProperties
  <2>3. AllNodes' = Append(AllNodes, node)
    <3>1. delivered' \o << >> = delivered'
      BY <2>2, ConcatEmptySeq
    <3> QED BY <3>1, <2>1, <1>6 DEF AllNodes
  <2>4. BufferIs'
    BY <2>1, <2>2, BatchAssumption DEF BufferIs
  <2>5. BatchesAreExpected'
    <3>1. Len(nodes) - 1 = m /\ Len(nodes) > 0 /\ nodes[Len(nodes)] = node
      BY <1>5
    <3>2. \A n \in 1 .. Len(nodes) - 1 : ~nodes[n].sync
      BY <3>1, <1>7
    <3>3. Len(nodes) <= BatchSize
      BY <1>4, <1>5, BatchAssumption
    <3>4. \/ Len(nodes) > 0 /\ nodes[Len(nodes)].sync
          \/ Len(nodes) = BatchSize
      BY <3>1, <1>5, <1>8, <1>10
    <3>5. Len(nodes) > 0 /\ nodes[Len(nodes)].sync => ring_times > 0
      BY <3>1
    <3>6. /\ Len(nodes) > 0 /\ nodes[Len(nodes)].sync => TRUE /\ ring_times > 0
          /\ TRUE <=> \/ Len(nodes) > 0 /\ nodes[Len(nodes)].sync
                      \/ Len(nodes) = BatchSize
      BY <3>4, <3>5
    <3> QED BY <3>2, <3>3, <3>6, <2>1, <1>5, <1>9, BatchIs
  <2> QED BY <2>1, <2>3, <2>4, <2>5, <1>2
<1>11. CASE ~Finished(nodes)
  <2>1. nodebuffer' = nodes /\ UNCHANGED <<returned, delivered, ring_times>>
    BY <1>2, <1>11
  <2>2. AllNodes' = Append(AllNodes, node)
    BY <2>1, <1>6 DEF AllNodes
  <2>3. BufferIs'
    <3>1. Len(nodes) < BatchSize
      BY <1>4, <1>5, <1>8, <1>11, BatchAssumption
    <3>2. \A n \in 1 .. Len(nodes) : ~nodes[n].sync
      BY <1>5, <1>7, <1>8, <1>11
    <3> QED BY <3>1, <3>2, <2>1, <1>3, <1>5 DEF BufferIs
  <2>4. BatchesAreExpected'
    BY <2>1, Zenon DEF Inv, BatchesAreExpected
  <2> QED BY <2>1, <2>2, <2>3, <2>4, <1>2, <1>9
<1> QED BY <1>10, <1>11
-----------------------------------------------------------------------------
(* A whole package.                                                        *)

LEMMA FrontIs ==
    ASSUME NEW l \in Seq(Bytes), NEW n \in 0 .. Len(l)
    PROVE  /\ SubSeq(l, 1, n) \in Seq(Bytes) /\ Len(SubSeq(l, 1, n)) = n
           /\ \A i \in 1 .. n : SubSeq(l, 1, n)[i] = l[i]
<1>1. n \in Int /\ 1 \in Int /\ \A i \in 1 .. n : l[i] \in Bytes
  <2>1. \A i \in 1 .. n : i \in 1 .. Len(l)
    OBVIOUS
  <2> QED BY <2>1, ElementOfSeq
<1> DEFINE a == SubSeq(l, 1, n)
<1>2. /\ a \in Seq(Bytes)
      /\ Len(a) = IF 1 <= n THEN n - 1 + 1 ELSE 0
      /\ \A i \in 1 .. n - 1 + 1 : a[i] = l[1 + i - 1]
  BY <1>1, SubSeqProperties
<1> HIDE DEF a
<1>3. Len(a) = n /\ \A i \in 1 .. n : a[i] = l[i]
  BY <1>1, <1>2
<1> QED BY <1>2, <1>3 DEF a

LEMMA JoinedBytes ==
    \A x, y \in Seq(Bytes) :
        /\ Len(x \o y) = Len(x) + Len(y)
        /\ \A i \in 1 .. Len(x) : (x \o y)[i] = x[i] /\ x[i] \in Bytes
        /\ \A i \in 1 .. Len(y) : (x \o y)[Len(x) + i] = y[i] /\ y[i] \in Bytes
<1> SUFFICES ASSUME NEW x \in Seq(Bytes), NEW y \in Seq(Bytes)
             PROVE  /\ Len(x \o y) = Len(x) + Len(y)
                    /\ \A i \in 1 .. Len(x) : (x \o y)[i] = x[i] /\ x[i] \in Bytes
                    /\ \A i \in 1 .. Len(y) : (x \o y)[Len(x) + i] = y[i] /\ y[i] \in Bytes
  OBVIOUS
<1> QED BY Joined

\* The bytes of a header of 10 bytes and the first n bytes of l.
Both(h, l, n, bytes) ==
    /\ Len(bytes) = 10 + n
    /\ \A i \in 1 .. 10 : bytes[i] = h[i] /\ h[i] \in Bytes
    /\ \A i \in 1 .. n : bytes[10 + i] = l[i] /\ l[i] \in Bytes

LEMMA BytesOf ==
    ASSUME NEW h \in Seq(Bytes), Len(h) = 10, NEW l \in Seq(Bytes), NEW n \in 0 .. Len(l),
           NEW bytes, bytes = h \o SubSeq(l, 1, n)
    PROVE  Both(h, l, n, bytes)
<1>1. PICK a : a = SubSeq(l, 1, n)
  OBVIOUS
<1>2. a \in Seq(Bytes) /\ Len(a) = n /\ \A i \in 1 .. n : a[i] = l[i]
  BY <1>1, FrontIs
<1>3. /\ Len(h \o a) = Len(h) + Len(a)
      /\ \A i \in 1 .. Len(h) : (h \o a)[i] = h[i] /\ h[i] \in Bytes
      /\ \A i \in 1 .. Len(a) : (h \o a)[Len(h) + i] = a[i] /\ a[i] \in Bytes
  BY <1>2, JoinedBytes, Zenon
<1> QED BY <1>1, <1>2, <1>3 DEF Both

\* What the agreement of the sums says of a header and the bytes after it.
IsPackage(h, l, n, p) ==
    /\ p \in 1 .. Len(stream) /\ h[1].package = p
    /\ h[4].value = Count(stream, p)
    /\ (h[3].value % 2) = 1 <=> stream[p]
    /\ Size(stream, p) = 10 + n
    /\ \A i \in 1 .. 10 : h[i].at = StartOf(p) + i
    /\ \A i \in 1 .. n : l[i].at = StartOf(p) + 10 + i
    /\ faults \cap (StartOf(p) + 1 .. EndOf(stream, p)) = {}

LEMMA FullPackage ==
    ASSUME stream \in Seq(BOOLEAN), NEW h, NEW l, BytesAre(h, l), Len(h) = 10,
           NEW r, HeaderIs(h, r),
           NEW n \in Nat, n = h[4].value * PackageSampleBytes, n <= Len(l),
           NEW bytes, bytes = h \o SubSeq(l, 1, n), Checked(bytes)
    PROVE  \E p : IsPackage(h, l, n, p)
<1>1. /\ h \in Seq(Bytes) /\ l \in Seq(Bytes)
      /\ \A i \in 1 .. Len(h) : Genuine(h[i])
      /\ \A i \in 1 .. Len(l) : Genuine(l[i])
  BY DEF BytesAre
<1>2. PICK m \in Nat : m = Len(l) /\ n <= m
  BY <1>1, LenProperties
<1>3. /\ Len(bytes) = 10 + n
      /\ \A i \in 1 .. 10 : bytes[i] = h[i] /\ h[i] \in Bytes
      /\ \A i \in 1 .. n : bytes[10 + i] = l[i] /\ l[i] \in Bytes
  <2>1. n \in 0 .. Len(l)
    BY <1>2
  <2>2. h \in Seq(Bytes) /\ l \in Seq(Bytes)
    BY <1>1
  <2>3. Both(h, l, n, bytes)
    BY <2>1, <2>2, BytesOf, Zenon
  <2> QED BY <2>3, Zenon DEF Both
<1>4. PICK p, at : p = h[1].package /\ at = h[1].at
  OBVIOUS
<1>5. /\ p # 0
      /\ \A i \in 1 .. 10 + n : bytes[i].package = p /\ bytes[i].at = at + i - 1
  <2>1. bytes[1] = h[1] /\ 1 \in 1 .. Len(bytes)
    BY <1>3, SMTT(40)
  <2> QED BY <2>1, <1>3, <1>4, ZenonT(40) DEF Checked
<1>6. \A i \in 1 .. 10 + n : Genuine(bytes[i])
  <2> SUFFICES ASSUME NEW i \in 1 .. 10 + n PROVE Genuine(bytes[i])
    OBVIOUS
  <2>1. CASE i \in 1 .. 10
    BY <2>1, <1>1, <1>3
  <2>2. CASE i \notin 1 .. 10
    <3>1. PICK k \in 1 .. n : i = 10 + k
      BY <2>2
    <3>2. k \in 1 .. Len(l)
      BY <1>2
    <3> QED BY <3>1, <3>2, <1>1, <1>3
  <2> QED BY <2>1, <2>2
<1>7. \A i \in 1 .. 10 + n :
          /\ at + i - 1 \in 1 .. Total /\ at + i - 1 \notin faults
          /\ bytes[i] = Sent(stream)[at + i - 1]
  BY <1>5, <1>6 DEF Genuine
<1>8. h[1] = Sent(stream)[at] /\ at \in 1 .. Total
  <2>1. at \in Nat
    BY <1>3, <1>4 DEF Bytes
  <2>2. at + 1 - 1 = at /\ 1 \in 1 .. 10 + n
    BY <2>1
  <2>3. at + 1 - 1 \in 1 .. Total /\ bytes[1] = Sent(stream)[at + 1 - 1]
    BY <2>2, <1>7
  <2>4. bytes[1] = h[1]
    BY <1>3
  <2> QED BY <2>2, <2>3, <2>4, Zenon
<1>9. p \in 1 .. Len(stream) /\ at - StartOf(p) \in 1 .. Size(stream, p)
  BY <1>4, <1>8, SentAt
<1>10. PICK s \in Nat, z \in 12 .. 22 : /\ s = StartOf(p) /\ z = Size(stream, p)
                                        /\ EndOf(stream, p) = s + z
  BY <1>9, Places
<1>11. PICK a \in 1 .. z : at = s + a
  <2>1. at \in Nat
    BY <1>3, <1>4 DEF Bytes
  <2> QED BY <2>1, <1>9, <1>10
<1>12. a = 1
  <2>1. h[1].value = HeadLow /\ h[2].value = HeadHigh
    BY DEF HeaderIs
  <2>2. a \in {1, 4}
    <3>1. \A i \in 1 .. Size(stream, p) :
              h[1] = Sent(stream)[StartOf(p) + i] => (i \notin {1, 4} => h[1].value # HeadLow)
      BY <1>9, SentIs
    <3> QED BY <3>1, <2>1, <1>8, <1>10, <1>11
  <2>3. a # 4
    <3> SUFFICES ASSUME a = 4 PROVE FALSE
      OBVIOUS
    <3>1. h[2] = Sent(stream)[StartOf(p) + 5]
      <4>1. 2 \in 1 .. 10 + n /\ at + 2 - 1 = s + 5 /\ 2 \in 1 .. 10
        BY <1>11
      <4> QED BY <4>1, <1>3, <1>7, <1>10
    <3>2. 5 \in 1 .. Size(stream, p)
      BY <1>10
    <3>3. h[2].value = 1
      BY <3>1, <3>2, <1>9, SentIs, SMTT(40)
    <3> QED BY <3>3, <2>1 DEF HeadHigh
  <2> QED BY <2>2, <2>3
<1>13. \A i \in 1 .. 10 + n : at + i - 1 = s + i
  BY <1>11, <1>12
<1>14. \A i \in 1 .. 10 : h[i] = Sent(stream)[s + i] /\ h[i].at = s + i
  <2> SUFFICES ASSUME NEW i \in 1 .. 10
               PROVE  h[i] = Sent(stream)[s + i] /\ h[i].at = s + i
    OBVIOUS
  <2>1. i \in 1 .. 10 + n
    OBVIOUS
  <2>2. at + i - 1 = s + i
    BY <2>1, <1>13
  <2> QED BY <2>1, <2>2, <1>3, <1>5, <1>7
<1>15. h[4].value = Count(stream, p) /\ ((h[3].value % 2) = 1 <=> stream[p])
  <2>1. 3 \in 1 .. Size(stream, p) /\ 4 \in 1 .. Size(stream, p)
    BY <1>10, SMTT(80)
  <2>2. h[3] = Sent(stream)[StartOf(p) + 3] /\ h[4] = Sent(stream)[StartOf(p) + 4]
    BY <1>10, <1>14
  <2>3. h[4].value = Count(stream, p)
    BY <2>1, <2>2, <1>9, SentIs
  <2>4. (h[3].value % 2) = 1 <=> stream[p]
    BY <2>1, <2>2, <1>9, SentIs
  <2> QED BY <2>3, <2>4
<1>16. Size(stream, p) = 10 + n
  <2>1. Size(stream, p) = 10 + Count(stream, p) * PackageSampleBytes
    BY <1>9, Sizes
  <2> QED BY <2>1, <1>15, Zenon
<1>17. \A i \in 1 .. n : l[i].at = s + 10 + i
  <2> SUFFICES ASSUME NEW i \in 1 .. n PROVE l[i].at = s + 10 + i
    OBVIOUS
  <2>1. 10 + i \in 1 .. 10 + n /\ s + (10 + i) = s + 10 + i
    OBVIOUS
  <2>2. at + (10 + i) - 1 = s + (10 + i)
    BY <2>1, <1>13
  <2> QED BY <2>1, <2>2, <1>3, <1>5
<1>18. faults \cap (StartOf(p) + 1 .. EndOf(stream, p)) = {}
  <2> SUFFICES ASSUME NEW x \in s + 1 .. s + z PROVE x \notin faults
    BY <1>10
  <2>1. PICK i \in 1 .. z : x = s + i
    OBVIOUS
  <2>2. i \in 1 .. 10 + n
    BY <1>10, <1>16
  <2> QED BY <2>1, <2>2, <1>7, <1>13
<1> QED BY <1>4, <1>9, <1>10, <1>14, <1>15, <1>16, <1>17, <1>18 DEF IsPackage

\* The node of a sample, by its fields.
LEMMA NodeFields ==
    ASSUME NEW pack \in [package : Nat, ring : BOOLEAN, num : Nat],
           NEW check \in BOOLEAN, NEW i \in Nat,
           NEW node, node = Node(pack, check, i)
    PROVE  /\ node \in Nodes /\ node.sample = i
           /\ check => node = [package |-> pack.package, sample |-> i, sync |-> pack.ring]
           /\ ~check => node.package = 0 /\ ~node.sync
<1>1. PICK id \in Nat, ring \in BOOLEAN : id = pack.package /\ ring = pack.ring
  OBVIOUS
<1>2. CASE check = TRUE
  <2>1. PICK sync \in BOOLEAN : sync = (check /\ ring)
    BY Zenon
  <2>2. sync = ring
    <3>1. CASE ring = TRUE
      BY <3>1, <2>1, <1>2, Zenon
    <3>2. CASE ring = FALSE
      BY <3>2, <2>1, <1>2, Zenon
    <3> QED BY <3>1, <3>2
  <2>3. node = [package |-> IF check THEN id ELSE 0, sample |-> i, sync |-> sync]
    BY <1>1, <2>1, Zenon DEF Node
  <2>4. node = [package |-> id, sample |-> i, sync |-> ring]
    BY <2>2, <2>3, <1>2
  <2>5. node \in Nodes /\ node.sample = i
    BY <2>4 DEF Nodes
  <2> QED BY <2>4, <2>5, <1>1, <1>2
<1>3. CASE check = FALSE
  <2>1. PICK sync \in BOOLEAN : sync = (check /\ ring)
    BY Zenon
  <2>2. sync = FALSE
    BY <2>1, <1>3, Zenon
  <2>3. node = [package |-> IF check THEN id ELSE 0, sample |-> i, sync |-> sync]
    BY <1>1, <2>1, Zenon DEF Node
  <2>4. node = [package |-> 0, sample |-> i, sync |-> FALSE]
    BY <2>2, <2>3, <1>3
  <2>5. node \in Nodes /\ node.sample = i /\ node.package = 0 /\ ~node.sync
    BY <2>4 DEF Nodes
  <2> QED BY <2>5, <1>3
<1> QED BY <1>2, <1>3

\* The package that gives node i.
IsPack(pack, i) ==
    /\ pack.package \in 1 .. Len(stream)
    /\ pack.num = Count(stream, pack.package)
    /\ pack.ring = stream[pack.package]
    /\ i < pack.num
    /\ faults \cap (StartOf(pack.package) + 1 .. EndOf(stream, pack.package)) = {}
    /\ pack.ring => ring_times > 0

\* What a node does to the parser with header h and line l.
LEMMA DeliverKeeps ==
    ASSUME Inv, stream \in Seq(BOOLEAN),
           NEW pack \in [package : Nat, ring : BOOLEAN, num : Nat],
           NEW check \in BOOLEAN, NEW i \in Nat, Deliver(pack, check, i),
           NEW node, node = Node(pack, check, i),
           NEW h, NEW l, header' = << >>, BytesAre(h, l), Passed(h, l), Len(h) = 0,
           check => /\ IsPack(pack, i) /\ Follows(AllNodes, node)
                    /\ \A j \in 1 .. Len(l) : EndOf(stream, pack.package) < l[j].at
    PROVE  /\ UNCHANGED <<stream, faults, timeouts, interrupted>>
           /\ BytesAre(h, l)' /\ Passed(h, l)' /\ ring_times' \in Nat
           /\ PackageIs' /\ BufferIs' /\ NodesAre'
           /\ SamplesInOrder' /\ BatchesAreExpected'
           /\ \A p : Complete(p) => Complete(p)'
           /\ check /\ (\A j \in 0 .. i - 1 : HasNode(pack.package, j)) =>
                  Coming(pack.package)' \/ Complete(pack.package)'
<1>1. /\ node \in Nodes /\ node.sample = i
      /\ check => node = [package |-> pack.package, sample |-> i, sync |-> pack.ring]
      /\ ~check => node.package = 0 /\ ~node.sync
  BY NodeFields
<1>2. PICK id \in Nat, ring \in BOOLEAN, num \in Nat :
          /\ id = pack.package /\ ring = pack.ring /\ num = pack.num
          /\ pack = [package |-> id, ring |-> ring, num |-> num]
  OBVIOUS
<1>3. ASSUME check PROVE node.package = id /\ node.sync = ring
  <2>1. node = [package |-> id, sample |-> i, sync |-> ring]
    BY <1>1, <1>2, <1>3, Zenon
  <2> QED BY <2>1
<1>4. check => /\ id \in 1 .. Len(stream)
               /\ num = Count(stream, id)
               /\ ring = stream[id]
               /\ i < num
               /\ faults \cap (StartOf(id) + 1 .. EndOf(stream, id)) = {}
               /\ ring => ring_times > 0
  BY <1>2 DEF IsPack
<1>5. node.sync => ring_times > 0
  BY <1>1, <1>3, <1>4
<1>6. /\ AllNodes' = Append(AllNodes, node)
      /\ BufferIs' /\ BatchesAreExpected' /\ ring_times' \in Nat
      /\ UNCHANGED <<stream, faults, timeouts, interrupted>>
  BY <1>1, <1>5, DeliverIs
<1>7. AllNodes \in Seq(Nodes) /\ stream' = stream /\ faults' = faults
  BY <1>6, AllNodesAre
<1>8. NodeIs(node)
  <2>1. CASE check
    <3>1. id # 0
      BY <2>1, <1>4
    <3> QED BY <3>1, <2>1, <1>1, <1>2, <1>3, <1>4 DEF NodeIs
  <2>2. CASE ~check
    BY <2>2, <1>1 DEF NodeIs
  <2> QED BY <2>1, <2>2
<1>9. NodesAre'
  <2>1. NodesAre
    BY DEF Inv
  <2> QED BY <2>1, <1>1, <1>6, <1>7, <1>8, NodesGrow
<1>10. SamplesInOrder'
  <2>1. SamplesInOrder
    BY DEF Inv
  <2>2. Follows(AllNodes, node)
    BY <1>1 DEF Follows
  <2> QED BY <2>1, <2>2, <1>1, <1>6, <1>7, OrderGrows
<1>11. BytesAre(h, l)' /\ Passed(h, l)'
  <2>1. node.package # 0 =>
            /\ \A j \in 1 .. Len(h) : EndOf(stream, node.package) < h[j].at
            /\ \A j \in 1 .. Len(l) : EndOf(stream, node.package) < l[j].at
    BY <1>1, <1>2, <1>3
  <2>2. Passed(h, l)'
    BY <2>1, <1>1, <1>6, <1>7, PassedGrows
  <2> QED BY <2>2, <1>6, SameBytes
<1>12. PICK a, b : /\ a = AllNodes /\ b = AllNodes' /\ Len(a) \in Nat
                   /\ Len(b) = Len(a) + 1 /\ b[Len(a) + 1] = node
                   /\ \A n \in 1 .. Len(a) : n \in 1 .. Len(b) /\ b[n] = a[n]
  <2>1. PICK a, b : a = AllNodes /\ b = AllNodes' /\ a \in Seq(Nodes) /\ b = Append(a, node)
    BY <1>6, <1>7
  <2> QED BY <2>1, <1>1, OneMore
<1>13. \A p : /\ \A j : HasNode(p, j) => HasNode(p, j)'
              /\ Complete(p) => Complete(p)'
  BY <1>7, <1>12, NodesStay
<1>14. Len(b) \in 1 .. Len(b) /\ b[Len(b)] = node /\ Len(b) > 0
  BY <1>12
<1>15. /\ package' = pack
       /\ package_sample_index_' = NextIndex(pack, i)
       /\ check_sum_result_' = (check /\ ~LastSample(pack, i))
  BY DEF Deliver
<1>16. \/ num <= i + 1 /\ package_sample_index_' = 0 /\ check_sum_result_' = FALSE
       \/ num > i + 1 /\ package_sample_index_' = i + 1 /\ check_sum_result_' = check
  <2>1. num <= i + 1 \/ num > i + 1
    OBVIOUS
  <2>2. ASSUME num <= i + 1 PROVE package_sample_index_' = 0 /\ check_sum_result_' = FALSE
    <3>1. LastSample(pack, i)
      BY <2>2, <1>2 DEF LastSample
    <3> QED BY <3>1, <1>15, Zenon DEF NextIndex
  <2>3. ASSUME num > i + 1
        PROVE  package_sample_index_' = i + 1 /\ check_sum_result_' = check
    <3>1. ~LastSample(pack, i)
      BY <2>3, <1>2 DEF LastSample
    <3>2. check_sum_result_' = check
      BY <3>1, <1>15, Zenon
    <3> QED BY <3>1, <3>2, <1>15, Zenon DEF NextIndex
  <2> QED BY <2>1, <2>2, <2>3, Zenon
<1>17. PackageIs'
  <2>1. /\ package' \in [package : Nat, ring : BOOLEAN, num : Nat]
        /\ package'.package = id /\ package'.num = num /\ package'.ring = ring
    BY <1>2, <1>15
  <2>2. CASE num <= i + 1 /\ package_sample_index_' = 0 /\ check_sum_result_' = FALSE
    <3>1. 0 <= num
      OBVIOUS
    <3>2. package_sample_index_' \in Nat /\ package_sample_index_' <= package'.num
      BY <2>1, <2>2, <3>1
    <3> QED BY <2>1, <2>2, <3>2, Zenon DEF PackageIs
  <2>3. CASE num > i + 1 /\ package_sample_index_' = i + 1 /\ check_sum_result_' = check
    <3>1. /\ package_sample_index_' \in Nat /\ package_sample_index_' < package'.num
          /\ package_sample_index_' <= package'.num
          /\ package_sample_index_' - 1 = i
      BY <2>1, <2>3
    <3>2. check => /\ AllNodes'[Len(AllNodes')] =
                          [package |-> id, sample |-> i, sync |-> ring]
                   /\ Len(AllNodes') > 0
      BY <1>1, <1>2, <1>12, <1>14
    <3>3. check => /\ id \in 1 .. Len(stream')
                   /\ num = Count(stream', id) /\ ring = stream'[id]
      BY <1>4, <1>7
    <3> QED BY <2>1, <2>3, <3>1, <3>2, <3>3, Zenon DEF PackageIs
  <2> QED BY <1>16, <2>2, <2>3
<1>18. ASSUME check, \A j \in 0 .. i - 1 : HasNode(pack.package, j)
       PROVE  Coming(pack.package)' \/ Complete(pack.package)'
  <2>1. \A j \in 0 .. i : HasNode(id, j)'
    <3> SUFFICES ASSUME NEW j \in 0 .. i PROVE HasNode(id, j)'
      OBVIOUS
    <3>1. CASE j = i
      <4>1. b[Len(b)] = [package |-> id, sample |-> i, sync |-> stream'[id]]
        BY <1>1, <1>2, <1>4, <1>7, <1>14, <1>18
      <4> QED BY <3>1, <4>1, <1>12, <1>14, Zenon DEF HasNode
    <3>2. CASE j \in 0 .. i - 1
      BY <3>2, <1>2, <1>13, <1>18
    <3> QED BY <3>1, <3>2
  <2>2. CASE num <= i + 1
    <3>1. num = i + 1
      BY <2>2, <1>4, <1>18
    <3>2. Count(stream, id)' = num
      BY <1>4, <1>7, <1>18
    <3>3. \A j \in 0 .. num - 1 : j \in 0 .. i
      BY <3>1
    <3>4. Complete(id)'
      BY <2>1, <3>2, <3>3, Zenon DEF Complete
    <3> QED BY <3>4, <1>2
  <2>3. CASE num > i + 1
    <3>1. package_sample_index_' = i + 1 /\ check_sum_result_' = check
      BY <2>3, <1>16
    <3>2. /\ package_sample_index_' # 0 /\ package'.package = id
          /\ package_sample_index_' - 1 = i
      BY <3>1, <1>2, <1>15
    <3>4. check_sum_result_'
      BY <3>1, <1>18, Zenon
    <3>3. Coming(id)'
      BY <3>2, <3>4, <2>1, Zenon DEF Coming
    <3> QED BY <3>3, <1>2
  <2> QED BY <2>2, <2>3
<1> QED BY <1>6, <1>9, <1>10, <1>11, <1>13, <1>17, <1>18, Zenon

\* The next node of a package that has already given one.
LEMMA NextSampleStep ==
    ASSUME Inv, NextSample
    PROVE  Inv'
<1>1. stream \in Seq(BOOLEAN)
  BY PacketsAssumption DEF Inv
<1>2. /\ package_sample_index_ # 0
      /\ Deliver(package, check_sum_result_, package_sample_index_)
      /\ line' = line /\ header' = header
  BY DEF NextSample
<1>3. PackageIs /\ NodesAre /\ SamplesInOrder /\ Parser(header, line, ring_times)
      /\ timeouts \in 0 .. MaxTimeouts /\ stream \in Streams
      /\ faults \subseteq Nat /\ interrupted \subseteq Nat
  BY DEF Inv
<1>4. PICK pack \in [package : Nat, ring : BOOLEAN, num : Nat], check \in BOOLEAN, i \in Nat :
          pack = package /\ check = check_sum_result_ /\ i = package_sample_index_
  BY <1>3, Zenon DEF PackageIs
<1>5. PICK a : a = AllNodes /\ a \in Seq(Nodes) /\ Len(a) \in Nat
  BY AllNodesAre
<1>6. header = << >> /\ i < pack.num /\ i # 0
  BY <1>2, <1>3, <1>4, Zenon DEF PackageIs
<1>7. check => /\ pack.package \in 1 .. Len(stream)
               /\ pack.num = Count(stream, pack.package)
               /\ pack.ring = stream[pack.package]
               /\ Len(a) > 0
               /\ a[Len(a)] = [package |-> pack.package, sample |-> i - 1, sync |-> pack.ring]
  BY <1>2, <1>3, <1>4, <1>5, Zenon DEF PackageIs
<1>8. PICK h, l : h = header /\ l = line
  OBVIOUS
<1>9. BytesAre(h, l) /\ Passed(h, l) /\ Len(h) = 0
  BY <1>3, <1>6, <1>8 DEF Parser
<1>10. PICK node : node = Node(pack, check, i)
  OBVIOUS
<1>11. /\ node \in Nodes /\ node.sample = i
       /\ check => node = [package |-> pack.package, sample |-> i, sync |-> pack.ring]
       /\ ~check => node.package = 0 /\ ~node.sync
  BY <1>10, NodeFields
<1>12. ASSUME check
       PROVE  /\ IsPack(pack, i) /\ Follows(AllNodes, node)
              /\ \A j \in 1 .. Len(l) : EndOf(stream, pack.package) < l[j].at
  <2>1. PICK id \in Nat, ring \in BOOLEAN, num \in Nat :
            id = pack.package /\ ring = pack.ring /\ num = pack.num
    OBVIOUS
  <2>2. /\ id \in 1 .. Len(stream) /\ num = Count(stream, id) /\ ring = stream[id]
        /\ Len(a) > 0 /\ i < num
    BY <2>1, <1>6, <1>7, <1>12
  <2>3. PICK m \in Nat : m = Len(a) /\ m \in 1 .. m
    BY <2>2, <1>5
  <2>4. a[m] = [package |-> id, sample |-> i - 1, sync |-> ring] /\ id # 0
    BY <2>1, <2>2, <2>3, <1>7, <1>12
  <2>5. ~ring
    <3> SUFFICES ASSUME ring = TRUE PROVE FALSE
      OBVIOUS
    <3>1. num = 1
      BY <2>2 DEF Count, NumOf
    <3> QED BY <3>1, <2>2, <1>6
  <2>6. IsPack(pack, i)
    <3>1. NodeIs(a[m])
      BY <2>3, <1>3, <1>5 DEF NodesAre
    <3>2. a[m].package = id
      BY <2>4
    <3>3. faults \cap (StartOf(id) + 1 .. EndOf(stream, id)) = {}
      BY <3>1, <3>2, <2>4, Zenon DEF NodeIs
    <3> QED BY <3>3, <2>1, <2>2, <2>5, Zenon DEF IsPack
  <2>7. \A j \in 1 .. Len(l) : EndOf(stream, id) < l[j].at
    <3>1. a[m].package = id
      BY <2>4
    <3> QED BY <3>1, <2>3, <2>4, <1>5, <1>9, Zenon DEF Passed
  <2>8. \A j \in 1 .. m : a[j].package # 0 =>
            \/ a[j].package < id
            \/ a[j].package = id /\ a[j].sample < i
    <3> SUFFICES ASSUME NEW j \in 1 .. m, a[j].package # 0
                 PROVE  \/ a[j].package < id
                        \/ a[j].package = id /\ a[j].sample < i
      OBVIOUS
    <3>1. a[m].package = id /\ a[m].sample = i - 1
      BY <2>4
    <3>2. CASE j = m
      BY <3>1, <3>2
    <3>3. CASE j # m
      <4>1. j \in 1 .. m - 1
        BY <3>3
      <4>2. a[m].package # 0 =>
                \A k \in 1 .. m - 1 : a[k].package # 0 =>
                    \/ a[k].package < a[m].package
                    \/ a[k].package = a[m].package /\ a[k].sample < a[m].sample
        BY <2>3, <1>3, <1>5, ZenonT(40) DEF SamplesInOrder, AllNodes
      <4>3. \/ a[j].package < id
            \/ a[j].package = id /\ a[j].sample < i - 1
        BY <4>1, <4>2, <3>1, <2>4, Zenon
      <4>4. a[j] \in Nodes
        BY <1>5, <2>3, ElementOfSeq
      <4>5. a[j].sample \in Nat
        BY <4>4 DEF Nodes
      <4> QED BY <4>3, <4>5
    <3> QED BY <3>2, <3>3
  <2>9. node.package = id /\ node.sample = i /\ [node EXCEPT !.sample = @ - 1] = a[m]
    <3>1. node = [package |-> id, sample |-> i, sync |-> ring]
      BY <2>1, <1>11, <1>12, Zenon
    <3> QED BY <3>1, <2>4
  <2>10. Follows(AllNodes, node)
    BY <2>2, <2>3, <2>8, <2>9, <1>5 DEF Follows
  <2> QED BY <2>1, <2>6, <2>7, <2>10
<1>13. /\ UNCHANGED <<stream, faults, timeouts, interrupted>>
       /\ BytesAre(h, l)' /\ Passed(h, l)' /\ ring_times' \in Nat
       /\ PackageIs' /\ BufferIs' /\ NodesAre'
       /\ SamplesInOrder' /\ BatchesAreExpected'
       /\ \A p : Complete(p) => Complete(p)'
       /\ check /\ (\A j \in 0 .. i - 1 : HasNode(pack.package, j)) =>
              Coming(pack.package)' \/ Complete(pack.package)'
  <2>1. Deliver(pack, check, i) /\ header' = << >>
    BY <1>2, <1>4, <1>6
  <2> QED BY <2>1, <1>1, <1>9, <1>10, <1>12, DeliverKeeps
<1>14. Parser(h, l, ring_times)'
  <2>1. HeaderIs(h, ring_times)'
    <3>1. PICK r \in Nat : r = ring_times'
      BY <1>13
    <3>2. HeaderIs(h, r)
      BY <1>9 DEF HeaderIs
    <3> QED BY <3>1, <3>2 DEF HeaderIs
  <2>2. CleanOnTheWay(h, l)'
    <3> SUFFICES ASSUME NEW p \in 1 .. Len(stream), Clean(p)' PROVE OnTheWay(p, h, l)'
      BY <1>13, Zenon DEF CleanOnTheWay
    <3>1. Clean(p)
      BY <1>13, Zenon DEF Clean
    <3>2. OnTheWay(p, h, l)
      BY <3>1, <1>3, <1>8, Zenon DEF Parser, CleanOnTheWay
    <3>3. Coming(p) => Coming(p)' \/ Complete(p)'
      <4> SUFFICES ASSUME Coming(p) PROVE Coming(p)' \/ Complete(p)'
        OBVIOUS
      <4>1. check /\ pack.package = p /\ \A j \in 0 .. i - 1 : HasNode(p, j)
        BY <1>4, Zenon DEF Coming
      <4> QED BY <4>1, <1>13
    <3>4. Complete(p) => Complete(p)'
      BY <1>13
    <3>5. stream' = stream
      BY <1>13
    <3> QED BY <3>2, <3>3, <3>4, <3>5, WayIs DEF OnTheWay
  <2> QED BY <2>1, <2>2, <1>13, Zenon DEF Parser
<1>15. Parser(header, line, ring_times)'
  <2>1. h = header' /\ l = line'
    BY <1>2, <1>8
  <2> QED BY <2>1, <1>14
<1> QED BY <1>3, <1>13, <1>15, Zenon DEF Inv

\* What is left of the line after n bytes.
LEMMA RestBytes ==
    ASSUME NEW h, NEW l, BytesAre(h, l), Passed(h, l), NEW n \in 0 .. Len(l),
           NEW l2, l2 = RestOf(l, n)
    PROVE  BytesAre(<< >>, l2) /\ Passed(<< >>, l2)
<1>1. /\ l \in Seq(Bytes) /\ Rising(l)
      /\ \A i \in 1 .. Len(l) : Genuine(l[i])
  BY DEF BytesAre
<1>2. PICK m \in Nat : m = Len(l) /\ n \in 0 .. m
  BY <1>1, LenProperties
<1>3. l2 \in Seq(Bytes) /\ Len(l2) = m - n /\ \A i \in 1 .. m - n : l2[i] = l[n + i]
  BY <1>1, <1>2, RestIs
<1>4. \A i \in 1 .. m - n : n + i \in 1 .. m
  BY <1>2
<1>5. Rising(l2)
  <2> SUFFICES ASSUME NEW i \in 1 .. m - n, NEW j \in 1 .. m - n, i < j
               PROVE  l2[i].at < l2[j].at
    BY <1>3 DEF Rising
  <2>1. n + i < n + j /\ n + i \in 1 .. m /\ n + j \in 1 .. m
    BY <1>2, <1>4
  <2> QED BY <2>1, <1>1, <1>2, <1>3 DEF Rising
<1>6. \A i \in 1 .. Len(l2) : Genuine(l2[i])
  BY <1>1, <1>2, <1>3, <1>4
<1>7. PICK g : g = << >> /\ g \in Seq(Bytes) /\ Len(g) = 0
  <2>1. << >> \in Seq(Bytes) /\ Len(<< >>) = 0
    BY EmptySeq
  <2> QED BY <2>1, Zenon
<1>8. BytesAre(g, l2)
  BY <1>3, <1>5, <1>6, <1>7 DEF BytesAre, Rising, PackagePaidBytes
<1>9. Passed(g, l2)
  BY <1>2, <1>3, <1>4, <1>7 DEF Passed
<1> QED BY <1>7, <1>8, <1>9

\* A package that is ahead of a header is not in its package.
LEMMA TooFar ==
    ASSUME stream \in Seq(BOOLEAN), NEW p \in 1 .. Len(stream),
           NEW h \in Seq(Bytes), Len(h) = 10, NEW l, NEW k \in Nat, Harmless(p, k, h, l),
           NEW n \in Nat, n = h[4].value * PackageSampleBytes
    PROVE  n <= k
<1>1. PICK v \in 0 .. 4, b \in {2, 3} : v = h[4].value /\ b = PackageSampleBytes
  <2>1. h[4] \in Bytes
    <3>1. 4 \in 1 .. Len(h)
      OBVIOUS
    <3> QED BY <3>1, ElementOfSeq
  <2> QED BY <2>1, PacketsAssumption DEF Bytes, Values
<1>2. n = v * b
  BY <1>1, Zenon
<1>3. v * b <= 4 * b
  BY SMTT(30)
<1>4. CASE h = << >>
  BY <1>4
<1>5. CASE Len(h) + k >= Swallowed
  <2>1. Swallowed = 10 + 4 * b
    BY <1>1, Zenon DEF Swallowed, PackagePaidBytes, HeadLow
  <2> QED BY <2>1, <1>2, <1>3, <1>5
<1>6. CASE \E q \in 1 .. p - 1 : StartOf(p) - k = StartOf(q) + Len(h) /\ BeginningOf(q, h)
  <2>1. PICK q \in 1 .. p - 1 : StartOf(p) - k = StartOf(q) + 10 /\ BeginningOf(q, h)
    BY <1>6
  <2>2. q \in 1 .. Len(stream)
    OBVIOUS
  <2>3. PICK z \in 12 .. 22, s \in Nat, t \in Nat :
            z = Size(stream, q) /\ s = StartOf(q) /\ t = StartOf(p) /\ s + z <= t
    <3>1. StartOf(q) \in Nat /\ Size(stream, q) \in 12 .. 22 /\ StartOf(p) \in Nat
          /\ EndOf(stream, q) = StartOf(q) + Size(stream, q) /\ EndOf(stream, q) <= StartOf(p)
      BY <2>2, Places
    <3> QED BY <3>1
  <2>4. h[4] = Sent(stream)[StartOf(q) + 4]
    BY <2>1 DEF BeginningOf
  <2>5. h[4].value = Count(stream, q)
    <3>1. 4 \in 1 .. Size(stream, q)
      BY <2>3
    <3> QED BY <3>1, <2>2, <2>4, SentIs
  <2>6. z = 10 + n
    <3>1. Size(stream, q) = 10 + Count(stream, q) * PackageSampleBytes
      BY <2>2, Sizes
    <3> QED BY <3>1, <2>3, <2>5, Zenon
  <2>7. t - k = s + 10
    BY <2>1, <2>3, Zenon
  <2> QED BY <2>3, <2>6, <2>7, SMTT(40)
<1>7. Len(h) # 1
  OBVIOUS
<1> QED BY <1>4, <1>5, <1>6, <1>7, Zenon DEF Harmless

LEMMA AheadRest ==
    ASSUME stream \in Seq(BOOLEAN), NEW p \in 1 .. Len(stream),
           NEW l \in Seq(Bytes), NEW n \in 0 .. Len(l),
           NEW k \in 0 .. Len(l), n <= k, Ahead(p, k, l),
           NEW l2, l2 = RestOf(l, n)
    PROVE  k - n \in 0 .. Len(l2) /\ Ahead(p, k - n, l2)
<1>1. PICK m \in Nat : m = Len(l) /\ n \in 0 .. m /\ k \in 0 .. m
  BY LenProperties
<1>2. Len(l2) = m - n /\ \A i \in 1 .. m - n : l2[i] = l[n + i]
  BY <1>1, RestIs
<1>3. PICK s \in Nat, z \in 12 .. 22 : s = StartOf(p) /\ z = Size(stream, p)
  BY Places
<1>4. PICK w \in 18 .. 22 : w = Swallowed
  <2>1. PackageSampleBytes = 2 \/ PackageSampleBytes = 3
    BY PacketsAssumption
  <2> QED BY <2>1 DEF Swallowed, PackagePaidBytes, HeadLow
<1>5. k <= s /\ k + z <= m
  BY <1>1, <1>3, Zenon DEF Ahead
<1>11. \A i \in 1 .. k + z : i + w > k => l[i] = Sent(stream)[s - k + i]
  BY <1>3, <1>4, Zenon DEF Ahead
<1>6. PICK j \in Nat : j = k - n
  BY <1>1
<1>7. j <= s /\ j + z <= m - n
  BY <1>1, <1>5, <1>6
<1>8. ASSUME NEW i \in 1 .. j + z, i + w > j PROVE l2[i] = Sent(stream)[s - j + i]
  <2>1. i \in 1 .. m - n /\ n + i \in 1 .. k + z /\ n + i + w > k
        /\ s - k + (n + i) = s - j + i
    BY <1>1, <1>5, <1>6, <1>7, <1>8
  <2>2. l2[i] = l[n + i] /\ l[n + i] = Sent(stream)[s - k + (n + i)]
    BY <2>1, <1>2, <1>11
  <2> QED BY <2>1, <2>2
<1>9. Ahead(p, j, l2)
  BY <1>2, <1>3, <1>4, <1>7, <1>8, Zenon DEF Ahead
<1>10. j \in 0 .. Len(l2)
  BY <1>2, <1>3, <1>7, SMTT(40)
<1> QED BY <1>6, <1>9, <1>10

LEMMA SentOwn ==
    ASSUME stream \in Seq(BOOLEAN)
    PROVE  \A p \in 1 .. Len(stream) : \A i \in 1 .. Size(stream, p) :
               /\ Sent(stream)[StartOf(p) + i].package = p
               /\ Sent(stream)[StartOf(p) + i].at = StartOf(p) + i
BY SentIs

\* The sums of a package agree when its bytes are as sent.
LEMMA BegunIs ==
    ASSUME stream \in Seq(BOOLEAN), NEW p \in 1 .. Len(stream),
           NEW h \in Seq(Bytes), NEW l \in Seq(Bytes), Len(h) = 10, Begun(p, h, l),
           NEW n \in Nat, n = h[4].value * PackageSampleBytes, n <= Len(l),
           NEW bytes, bytes = h \o SubSeq(l, 1, n)
    PROVE  Checked(bytes) /\ h[1].package = p
<1>1. PICK m \in Nat : m = Len(l) /\ n <= m
  BY LenProperties
<1>2. Both(h, l, n, bytes)
  <2>1. n \in 0 .. Len(l)
    BY <1>1
  <2> QED BY <2>1, BytesOf, Zenon
<1>3. PICK s \in Nat, z \in 12 .. 22 : s = StartOf(p) /\ z = Size(stream, p)
  BY Places
<1>4. \A i \in 1 .. 10 : h[i] = Sent(stream)[s + i]
  BY <1>3 DEF Begun, BeginningOf
<1>5. z = 10 + n
  <2>1. 4 \in 1 .. Size(stream, p) /\ h[4] = Sent(stream)[StartOf(p) + 4]
    <3>1. 4 \in 1 .. 10 /\ 4 \in 1 .. z
      OBVIOUS
    <3>2. h[4] = Sent(stream)[s + 4]
      BY <3>1, <1>4
    <3> QED BY <3>1, <3>2, <1>3
  <2>2. h[4].value = Count(stream, p)
    BY <2>1, SentIs
  <2>3. Size(stream, p) = 10 + Count(stream, p) * PackageSampleBytes
    BY Sizes
  <2> QED BY <2>2, <2>3, <1>3, Zenon
<1>6. \A i \in 1 .. n : l[i] = Sent(stream)[s + 10 + i]
  <2>1. \A i \in 1 .. z - 10 : l[i] = Sent(stream)[s + 10 + i]
    BY <1>3, Zenon DEF Begun
  <2>2. z - 10 = n
    BY <1>5
  <2> QED BY <2>1, <2>2, Zenon
<1>7. /\ Len(bytes) = 10 + n
      /\ \A i \in 1 .. 10 : bytes[i] = h[i]
      /\ \A i \in 1 .. n : bytes[10 + i] = l[i]
  BY <1>2, Zenon DEF Both
<1>8. ASSUME NEW i \in 1 .. 10 + n PROVE bytes[i] = Sent(stream)[StartOf(p) + i]
  <2>1. CASE i \in 1 .. 10
    BY <2>1, <1>3, <1>4, <1>7
  <2>2. CASE i \notin 1 .. 10
    <3>1. PICK k \in 1 .. n : i = 10 + k /\ s + 10 + k = s + i
      BY <2>2
    <3> QED BY <3>1, <1>3, <1>6, <1>7
  <2> QED BY <2>1, <2>2
<1>9. \A i \in 1 .. 10 + n : bytes[i].package = p /\ bytes[i].at = s + i
  <2> SUFFICES ASSUME NEW i \in 1 .. 10 + n
               PROVE  bytes[i].package = p /\ bytes[i].at = s + i
    OBVIOUS
  <2>1. i \in 1 .. Size(stream, p)
    BY <1>3, <1>5
  <2>2. PICK b : b = Sent(stream)[StartOf(p) + i] /\ b = bytes[i]
    BY <1>8
  <2>3. b.package = p /\ b.at = StartOf(p) + i
    BY <2>1, <2>2, SentOwn, ZenonT(40)
  <2> QED BY <2>2, <2>3, <1>3, Zenon
<1>10. bytes[1].package = p /\ bytes[1].at = s + 1 /\ bytes[1] = h[1]
  <2>1. 1 \in 1 .. 10 + n /\ 1 \in 1 .. 10
    OBVIOUS
  <2> QED BY <2>1, <1>7, <1>9
<1>11. Checked(bytes)
  <2>1. p # 0
    OBVIOUS
  <2>2. \A i \in 1 .. 10 + n : s + i = s + 1 + i - 1
    OBVIOUS
  <2>3. \A i \in 1 .. Len(bytes) :
            /\ bytes[i].package = bytes[1].package
            /\ bytes[i].package # 0
            /\ bytes[i].at = bytes[1].at + i - 1
    BY <2>1, <2>2, <1>7, <1>9, <1>10, Zenon
  <2> QED BY <2>3, Zenon DEF Checked
<1> QED BY <1>10, <1>11, Zenon

\* The first node of a package.
LEMMA ReadSamplesStep ==
    ASSUME Inv, ReadSamples
    PROVE  Inv'
<1>1. stream \in Seq(BOOLEAN)
  BY PacketsAssumption DEF Inv
<1>2. /\ PackageIs /\ NodesAre /\ Parser(header, line, ring_times)
      /\ timeouts \in 0 .. MaxTimeouts /\ stream \in Streams
      /\ faults \subseteq Nat /\ interrupted \subseteq Nat
  BY DEF Inv
<1>3. PICK h, l, r, n, bytes :
          /\ h = header /\ l = line /\ r = ring_times
          /\ n = header[4].value * PackageSampleBytes
          /\ bytes = header \o SubSeq(line, 1, n)
  OBVIOUS
<1>4. /\ Len(h) = 10 /\ n = h[4].value * PackageSampleBytes /\ n <= Len(l)
      /\ bytes = h \o SubSeq(l, 1, n)
      /\ line' = RestOf(l, n) /\ header' = << >>
      /\ Deliver([package |-> h[1].package, ring |-> h[3].value % 2 = 1,
                  num |-> h[4].value], Checked(bytes), 0)
  BY <1>3, Zenon DEF ReadSamples, Arrived, RestOf, PackagePaidBytes
<1>5. /\ BytesAre(h, l) /\ HeaderIs(h, r) /\ Passed(h, l) /\ CleanOnTheWay(h, l)
  BY <1>2, <1>3, Zenon DEF Parser
<1>6. h \in Seq(Bytes) /\ l \in Seq(Bytes) /\ Len(l) \in Nat
  BY <1>5 DEF BytesAre
<1>7. h[1] \in Bytes /\ h[3] \in Bytes /\ h[4] \in Bytes
  <2>1. 1 \in 1 .. Len(h) /\ 3 \in 1 .. Len(h) /\ 4 \in 1 .. Len(h)
    BY <1>4
  <2> QED BY <2>1, <1>6, ElementOfSeq
<1>8. PICK id \in Nat, num \in 0 .. 4 : id = h[1].package /\ num = h[4].value
  BY <1>7 DEF Bytes, Values
<1>9. n \in Nat
  <2>1. PICK b \in {2, 3} : b = PackageSampleBytes
    BY PacketsAssumption
  <2>2. n = num * b
    BY <2>1, <1>4, <1>8, Zenon
  <2>3. num * b \in Nat
    BY SMTT(30)
  <2> QED BY <2>2, <2>3
<1>10. n \in 0 .. Len(l)
  BY <1>4, <1>6, <1>9
<1>11. PICK ring \in BOOLEAN : ring = (h[3].value % 2 = 1)
  BY Zenon
<1>12. PICK check \in BOOLEAN : check = Checked(bytes)
  BY Zenon DEF Checked
<1>13. PICK pack : pack = [package |-> id, ring |-> ring, num |-> num]
  OBVIOUS
<1>14. /\ pack \in [package : Nat, ring : BOOLEAN, num : Nat]
       /\ pack.package = id /\ pack.ring = ring /\ pack.num = num
  <2>1. num \in Nat
    OBVIOUS
  <2> QED BY <2>1, <1>13
<1>15. Deliver(pack, check, 0)
  BY <1>4, <1>8, <1>11, <1>12, <1>13, Zenon
<1>16. PICK g, l2 : g = << >> /\ l2 = RestOf(l, n) /\ Len(g) = 0
  OBVIOUS
<1>17. BytesAre(g, l2) /\ Passed(g, l2)
  BY <1>5, <1>10, <1>16, RestBytes
<1>18. PICK node : node = Node(pack, check, 0)
  OBVIOUS
<1>19. /\ node \in Nodes /\ node.sample = 0
       /\ check => node = [package |-> pack.package, sample |-> 0, sync |-> pack.ring]
       /\ ~check => node.package = 0 /\ ~node.sync
  <2>1. 0 \in Nat
    OBVIOUS
  <2> QED BY <2>1, <1>14, <1>18, NodeFields
<1>20. ASSUME check
       PROVE  /\ IsPack(pack, 0) /\ Follows(AllNodes, node)
              /\ \A j \in 1 .. Len(l2) : EndOf(stream, pack.package) < l2[j].at
  <2>1. Checked(bytes)
    BY <1>12, <1>20, Zenon
  <2>2. IsPackage(h, l, n, id)
    <3>1. PICK p : IsPackage(h, l, n, p)
      BY <2>1, <1>1, <1>4, <1>5, <1>9, FullPackage
    <3>2. p = id
      BY <3>1, <1>8, Zenon DEF IsPackage
    <3> QED BY <3>1, <3>2
  <2>3. /\ id \in 1 .. Len(stream) /\ num = Count(stream, id)
        /\ ((h[3].value % 2) = 1 <=> stream[id])
        /\ Size(stream, id) = 10 + n
        /\ faults \cap (StartOf(id) + 1 .. EndOf(stream, id)) = {}
    BY <2>2, <1>8, Zenon DEF IsPackage
  <2>4. PICK s \in Nat, z \in 12 .. 22 : /\ s = StartOf(id) /\ z = Size(stream, id)
                                         /\ EndOf(stream, id) = s + z
    BY <2>3, <1>1, Places
  <2>5. z = 10 + n /\ n \in 1 .. 12
    BY <2>3, <2>4, <1>9
  <2>6. ring = stream[id]
    <3>1. stream[id] \in BOOLEAN
      BY <2>3, <1>1, ElementOfSeq
    <3>2. ring <=> stream[id]
      BY <2>3, <1>11, Zenon
    <3>3. CASE ring = TRUE
      BY <3>1, <3>2, <3>3
    <3>4. CASE ring = FALSE
      BY <3>1, <3>2, <3>4
    <3> QED BY <3>3, <3>4
  <2>7. Count(stream, id) \in 1 .. 4
    BY <2>3, <1>1, Sizes
  <2>8. ring => ring_times > 0
    <3>1. Len(h) >= 3
      BY <1>4
    <3> QED BY <3>1, <1>3, <1>5, <1>11, Zenon DEF HeaderIs
  <2>9. IsPack(pack, 0)
    <3>1. 0 < num
      BY <2>3, <2>7
    <3> QED BY <3>1, <2>3, <2>6, <2>8, <1>14, Zenon DEF IsPack
  <2>10. \A j \in 1 .. Len(l2) : EndOf(stream, id) < l2[j].at
    <3> SUFFICES ASSUME NEW j \in 1 .. Len(l2) PROVE s + z < l2[j].at
      BY <2>4
    <3>1. PICK m \in Nat : m = Len(l) /\ n <= m
      BY <1>4, <1>6
    <3>2. Len(l2) = m - n /\ \A i \in 1 .. m - n : l2[i] = l[n + i]
      <4>1. /\ Len(RestOf(l, n)) = Len(l) - n
            /\ \A i \in 1 .. Len(l) - n : RestOf(l, n)[i] = l[n + i]
        BY <1>6, <1>10, RestIs
      <4> QED BY <4>1, <3>1, <1>16, Zenon
    <3>3. n \in 1 .. m /\ n + j \in 1 .. m /\ n < n + j /\ j \in 1 .. m - n
      BY <2>5, <3>1, <3>2
    <3>4. l[n].at < l[n + j].at
      BY <3>1, <3>3, <1>5, Zenon DEF BytesAre, Rising
    <3>5. l[n].at = s + 10 + n
      <4>1. n \in 1 .. n
        BY <2>5
      <4> QED BY <4>1, <2>2, <2>4, Zenon DEF IsPackage
    <3>6. l[n].at = s + z
      BY <2>5, <3>5
    <3>7. l2[j] = l[n + j]
      BY <3>2, <3>3
    <3> QED BY <3>4, <3>6, <3>7
  <2>11. Follows(AllNodes, node)
    <3>1. PICK a : a = AllNodes /\ a \in Seq(Nodes)
      BY AllNodesAre
    <3>2. ASSUME NEW j \in 1 .. Len(a), a[j].package # 0 PROVE a[j].package < id
      <4>1. NodeIs(a[j])
        BY <3>1, <1>2 DEF NodesAre
      <4>2. PICK q : q = a[j].package
        OBVIOUS
      <4>3. q \in 1 .. Len(stream)
        BY <3>2, <4>1, <4>2, Zenon DEF NodeIs
      <4>4. EndOf(stream, q) < h[1].at
        <5>1. 1 \in 1 .. Len(h)
          BY <1>4
        <5> QED BY <5>1, <3>1, <3>2, <4>2, <1>5, Zenon DEF Passed
      <4>5. h[1].at = s + 1
        <5>1. 1 \in 1 .. 10
          OBVIOUS
        <5> QED BY <5>1, <2>2, <2>4, Zenon DEF IsPackage
      <4>6. PICK e \in Nat, f \in Nat : e = EndOf(stream, q) /\ f = StartOf(q) /\ f <= e
        <5>1. EndOf(stream, q) \in Nat /\ StartOf(q) \in Nat /\ Size(stream, q) \in 12 .. 22
              /\ EndOf(stream, q) = StartOf(q) + Size(stream, q)
          BY <4>3, <1>1, Places
        <5>2. StartOf(q) <= EndOf(stream, q)
          BY <5>1
        <5> QED BY <5>1, <5>2
      <4>7. e <= s
        BY <4>4, <4>5, <4>6
      <4>8. q # id
        BY <2>4, <4>6, <4>7
      <4>9. ASSUME id < q PROVE FALSE
        <5>1. id \in 1 .. q - 1
          BY <4>9, <2>3, <4>3
        <5>2. EndOf(stream, id) <= StartOf(q)
          BY <5>1, <4>3, <1>1, Places
        <5> QED BY <5>2, <2>4, <4>6, <4>7
      <4> QED BY <4>2, <4>3, <4>8, <4>9, <2>3
    <3>3. node.package = id /\ node.sample = 0
      <4>1. node = [package |-> id, sample |-> 0, sync |-> pack.ring]
        BY <1>14, <1>19, <1>20, Zenon
      <4> QED BY <4>1
    <3>4. 0 < Count(stream, id)
      BY <2>7
    <3> QED BY <3>1, <3>2, <3>3, <3>4, Zenon DEF Follows
  <2> QED BY <2>9, <2>10, <2>11, <1>14
<1>21. /\ UNCHANGED <<stream, faults, timeouts, interrupted>>
       /\ BytesAre(g, l2)' /\ Passed(g, l2)' /\ ring_times' \in Nat
       /\ PackageIs' /\ BufferIs' /\ NodesAre'
       /\ SamplesInOrder' /\ BatchesAreExpected'
       /\ \A p : Complete(p) => Complete(p)'
       /\ check /\ (\A j \in 0 .. 0 - 1 : HasNode(pack.package, j)) =>
              Coming(pack.package)' \/ Complete(pack.package)'
  <2>1. 0 \in Nat
    OBVIOUS
  <2> QED BY <2>1, <1>1, <1>4, <1>14, <1>15, <1>16, <1>17, <1>18, <1>20, DeliverKeeps, ZenonT(40)
<1>22. CleanOnTheWay(g, l2)'
  <2> SUFFICES ASSUME NEW p \in 1 .. Len(stream), Clean(p)' PROVE OnTheWay(p, g, l2)'
    BY <1>21, Zenon DEF CleanOnTheWay
  <2>1. Clean(p)
    BY <1>21, Zenon DEF Clean
  <2>2. OnTheWay(p, h, l)
    BY <2>1, <1>5, Zenon DEF CleanOnTheWay
  <2>3. stream' = stream
    BY <1>21
  <2>4. ASSUME NEW k \in 0 .. Len(l), Ahead(p, k, l), Harmless(p, k, h, l)
        PROVE  OnTheWay(p, g, l2)'
    <3>1. n <= k
      <4>1. k \in Nat
        OBVIOUS
      <4> QED BY <4>1, <2>4, <1>1, <1>4, <1>6, <1>9, TooFar
    <3>2. k - n \in 0 .. Len(l2) /\ Ahead(p, k - n, l2)
      BY <3>1, <2>4, <1>1, <1>6, <1>10, <1>16, AheadRest
    <3>3. Harmless(p, k - n, g, l2)
      BY <1>16, Zenon DEF Harmless
    <3> QED BY <2>3, <3>2, <3>3, WayIs
  <2>5. Begun(p, h, l) => Coming(p)' \/ Complete(p)'
    <3> SUFFICES ASSUME Begun(p, h, l) PROVE Coming(p)' \/ Complete(p)'
      OBVIOUS
    <3>1. Checked(bytes) /\ h[1].package = p
      <4>1. /\ h \in Seq(Bytes) /\ l \in Seq(Bytes) /\ Len(h) = 10
            /\ n \in Nat /\ n = h[4].value * PackageSampleBytes /\ n <= Len(l)
            /\ bytes = h \o SubSeq(l, 1, n)
        BY <1>4, <1>6, <1>9, Zenon
      <4> QED BY <4>1, <1>1, BegunIs, ZenonT(40)
    <3>2. check /\ pack.package = p
      BY <3>1, <1>8, <1>12, <1>14, Zenon
    <3>3. \A j \in 0 .. 0 - 1 : HasNode(pack.package, j)
      OBVIOUS
    <3> QED BY <3>2, <3>3, <1>21, Zenon
  <2>6. ~Coming(p)
    <3>1. header # << >>
      <4>1. \A x : Len(x) = 10 => x # << >>
        OBVIOUS
      <4> QED BY <4>1, <1>3, <1>4, Zenon
    <3> QED BY <3>1, <1>2, Zenon DEF Coming, PackageIs
  <2>7. Complete(p) => Complete(p)'
    BY <1>21
  <2>8. Coming(p)' \/ Complete(p)' => OnTheWay(p, g, l2)'
    BY <2>3, WayIs
  <2> QED BY <2>2, <2>4, <2>5, <2>6, <2>7, <2>8, Zenon DEF OnTheWay
<1>23. Parser(g, l2, ring_times)'
  <2>1. HeaderIs(g, ring_times)'
    <3>1. PICK x \in Nat : x = ring_times'
      BY <1>21
    <3>2. HeaderIs(g, x)
      BY <1>16 DEF HeaderIs
    <3> QED BY <3>1, <3>2 DEF HeaderIs
  <2> QED BY <2>1, <1>21, <1>22, Zenon DEF Parser
<1>24. Parser(header, line, ring_times)'
  <2>1. g = header' /\ l2 = line'
    BY <1>4, <1>16
  <2> QED BY <2>1, <1>23
<1> QED BY <1>2, <1>21, <1>24, Zenon DEF Inv
-----------------------------------------------------------------------------
(* The parser from its start.                                              *)

LEMMA SentBytes ==
    ASSUME stream \in Seq(BOOLEAN), faults = {}, NEW l, l = Sent(stream)
    PROVE  BytesAre(<< >>, l) /\ Len(l) = Total
<1>1. PICK t \in Nat : t = Total
  BY Ends DEF Total
<1>2. /\ l = [n \in 1 .. t |-> l[n]] /\ DOMAIN l = 1 .. t
  BY <1>1, Zenon DEF Sent, Total
<1>3. \A n \in 1 .. t : l[n] \in Bytes /\ l[n].at = n /\ Genuine(l[n])
  <2> SUFFICES ASSUME NEW n \in 1 .. t
               PROVE  l[n] \in Bytes /\ l[n].at = n /\ Genuine(l[n])
    OBVIOUS
  <2>1. l[n] \in Bytes /\ l[n].at = n /\ n \in 1 .. Total
    BY <1>1, SentAt
  <2> QED BY <2>1 DEF Genuine
<1>4. l \in Seq(Bytes) /\ Len(l) = t
  BY <1>2, <1>3
<1>5. Rising(l)
  BY <1>3, <1>4 DEF Rising
<1>6. PICK g : g = << >> /\ g \in Seq(Bytes) /\ Len(g) = 0
  <2>1. << >> \in Seq(Bytes) /\ Len(<< >>) = 0
    BY EmptySeq
  <2> QED BY <2>1, Zenon
<1>7. BytesAre(g, l)
  BY <1>3, <1>4, <1>5, <1>6 DEF BytesAre, Rising, PackagePaidBytes
<1> QED BY <1>1, <1>4, <1>6, <1>7

LEMMA InitInv ==
    ASSUME Init
    PROVE  Inv
<1>1. /\ stream \in Streams /\ line = Sent(stream) /\ faults = {} /\ header = << >>
      /\ package = [package |-> 0, ring |-> FALSE, num |-> 0]
      /\ package_sample_index_ = 0 /\ check_sum_result_ = FALSE
      /\ nodebuffer = << >> /\ ring_times = 0 /\ returned = None
      /\ timeouts = 0 /\ delivered = << >> /\ interrupted = {}
  BY DEF Init
<1>2. stream \in Seq(BOOLEAN)
  BY <1>1, PacketsAssumption
<1>3. PICK h, l : h = header /\ l = line /\ h = << >> /\ Len(h) = 0 /\ l = Sent(stream)
  BY <1>1
<1>4. BytesAre(h, l) /\ Len(l) = Total
  BY <1>1, <1>2, <1>3, SentBytes
<1>5. AllNodes = << >> /\ Len(AllNodes) = 0
  BY <1>1 DEF AllNodes
<1>6. Parser(h, l, 0)
  <2>1. HeaderIs(h, 0)
    BY <1>3 DEF HeaderIs
  <2>2. Passed(h, l)
    BY <1>5 DEF Passed
  <2>3. ASSUME NEW p \in 1 .. Len(stream) PROVE OnTheWay(p, h, l)
    <3>1. PICK s \in Nat, z \in 12 .. 22, t \in Nat :
              /\ s = StartOf(p) /\ z = Size(stream, p) /\ t = Total /\ s + z <= t
      <4>1. /\ StartOf(p) \in Nat /\ Size(stream, p) \in 12 .. 22 /\ Total \in Nat
            /\ EndOf(stream, p) = StartOf(p) + Size(stream, p) /\ EndOf(stream, p) <= Total
        BY <1>2, Places
      <4> QED BY <4>1
    <3>2. s \in 0 .. Len(l)
      BY <3>1, <1>4
    <3>3. Ahead(p, s, l)
      <4>1. s <= StartOf(p) /\ s + Size(stream, p) <= Len(l)
        BY <3>1, <1>4
      <4>2. \A i \in 1 .. s + z : s - s + i = i
        OBVIOUS
      <4>3. \A i \in 1 .. s + Size(stream, p) :
                i + Swallowed > s => l[i] = Sent(stream)[StartOf(p) - s + i]
        BY <4>2, <3>1, <1>3, Zenon
      <4> QED BY <4>1, <4>3, Zenon DEF Ahead
    <3>4. Harmless(p, s, h, l)
      BY <1>3, Zenon DEF Harmless
    <3> QED BY <3>2, <3>3, <3>4, Zenon DEF OnTheWay
  <2> QED BY <2>1, <2>2, <2>3, <1>4, Zenon DEF Parser, CleanOnTheWay
<1>7. PackageIs
  <2>1. /\ package \in [package : Nat, ring : BOOLEAN, num : Nat]
        /\ 0 \in Nat /\ 0 <= package.num /\ FALSE \in BOOLEAN
    BY <1>1
  <2> QED BY <2>1, <1>1, Zenon DEF PackageIs
<1>8. BufferIs
  BY <1>1, BatchAssumption DEF BufferIs
<1>9. NodesAre
  BY <1>5 DEF NodesAre
<1>10. SamplesInOrder
  <2>1. Len(delivered \o nodebuffer) = 0
    BY <1>5 DEF AllNodes
  <2>2. \A n \in 1 .. 0 : FALSE
    OBVIOUS
  <2> QED BY <2>1, <2>2, Zenon DEF SamplesInOrder
<1>11. BatchesAreExpected
  BY <1>1, Zenon DEF BatchesAreExpected
<1>12. timeouts \in 0 .. MaxTimeouts /\ faults \subseteq Nat /\ interrupted \subseteq Nat
  BY <1>1, PacketsAssumption
<1> QED
  BY <1>1, <1>3, <1>6, <1>7, <1>8, <1>9, <1>10, <1>11, <1>12, Zenon DEF Inv

\* An overrun leaves what Inv is about alone, as a stuttering step does.
LEMMA StutterStep ==
    ASSUME Inv,
           UNCHANGED <<stream, faults, line, header, package, package_sample_index_,
                       check_sum_result_, nodebuffer, ring_times, returned, timeouts,
                       delivered, interrupted>>
    PROVE  Inv'
<1>1. AllNodes' = AllNodes
  BY DEF AllNodes
<1>2. PICK h, l, r : h = header /\ l = line /\ r = ring_times
  OBVIOUS
<1>3. Parser(h, l, r)
  BY <1>2 DEF Inv
<1>4. Parser(h, l, r)'
  <2>1. BytesAre(h, l)'
    BY <1>3, SameBytes DEF Parser
  <2>2. HeaderIs(h, r)'
    BY <1>3, Zenon DEF Parser, HeaderIs
  <2>3. Passed(h, l)'
    BY <1>1, <1>3, SamePassed DEF Parser
  <2>4. CleanOnTheWay(h, l)'
    <3> SUFFICES ASSUME NEW p \in 1 .. Len(stream), Clean(p)' PROVE OnTheWay(p, h, l)'
      BY Zenon DEF CleanOnTheWay
    <3>1. Clean(p)
      BY Zenon DEF Clean
    <3>2. OnTheWay(p, h, l)
      BY <3>1, <1>3, Zenon DEF Parser, CleanOnTheWay
    <3>3. Coming(p) => Coming(p)'
      BY <1>1, Zenon DEF Coming, HasNode
    <3>4. Complete(p) => Complete(p)'
      BY <1>1, Zenon DEF Complete, HasNode
    <3> QED BY <3>2, <3>3, <3>4, WayIs DEF OnTheWay
  <2> QED BY <2>1, <2>2, <2>3, <2>4, Zenon DEF Parser
<1>5. Parser(header, line, ring_times)'
  <2>1. h = header' /\ l = line' /\ r = ring_times'
    BY <1>2
  <2> QED BY <2>1, <1>4
<1>6. PackageIs' /\ BufferIs' /\ BatchesAreExpected'
  BY <1>1, Zenon DEF Inv, PackageIs, BufferIs, BatchesAreExpected
<1>7. NodesAre' /\ SamplesInOrder'
  BY <1>1, SameNodes DEF Inv
<1> QED BY <1>5, <1>6, <1>7, Zenon DEF Inv

LEMMA StepInv ==
    ASSUME Inv, [Next]_vars
    PROVE  Inv'
<1>1. CASE UNCHANGED vars
  BY <1>1, StutterStep DEF vars
<1>2. CASE Disturb
  BY <1>2, DisturbStep
<1>3. CASE ReadHeader
  BY <1>3, ReadHeaderStep
<1>4. CASE ReadSamples
  BY <1>4, ReadSamplesStep
<1>5. CASE NextSample
  BY <1>5, NextSampleStep
<1>6. CASE Timeout
  BY <1>6, TimeoutStep
<1>7. CASE Overrun
  BY <1>7, StutterStep DEF Overrun
<1> QED BY <1>1, <1>2, <1>3, <1>4, <1>5, <1>6, <1>7 DEF Next

\* Inv holds in every state of the parser.
THEOREM ParserInvariant == Spec => []Inv
<1>1. Init => Inv
  BY InitInv
<1>2. Inv /\ [Next]_vars => Inv'
  BY StepInv
<1> QED BY <1>1, <1>2, PTL DEF Spec
-----------------------------------------------------------------------------
(* What is promised.                                                       *)

LEMMA OverrunIs ==
    ASSUME [Next]_vars
    PROVE  overrun' = overrun \/ (Overrun /\ overrun' = TRUE)
<1>1. CASE Overrun
  BY <1>1 DEF Overrun
<1>2. CASE ~Overrun
  <2>1. CASE Disturb
    BY <2>1 DEF Disturb
  <2>2. CASE ReadHeader
    BY <2>2 DEF ReadHeader
  <2>3. CASE ReadSamples
    BY <2>3 DEF ReadSamples, Deliver
  <2>4. CASE NextSample
    BY <2>4 DEF NextSample, Deliver
  <2>5. CASE Timeout
    BY <2>5 DEF Timeout
  <2>6. CASE UNCHANGED vars
    BY <2>6 DEF vars
  <2> QED BY <1>2, <2>1, <2>2, <2>3, <2>4, <2>5, <2>6 DEF Next
<1> QED BY <1>1, <1>2

\* A lidar with samples so small that the buffer has room for every count, as
\* the two bytes of M1C1_Mini_v1 are, makes no call write past it.
THEOREM NeverOverrun ==
    ASSUME HeadLow * PackageSampleBytes <= RecvBufferSize
    PROVE  Spec => []~overrun
<1>1. Init => ~overrun
  BY DEF Init
<1>2. Inv /\ ~overrun /\ [Next]_vars => ~overrun'
  <2> SUFFICES ASSUME Inv, ~overrun, [Next]_vars, Overrun PROVE FALSE
    BY OverrunIs
  <2>1. header \in Seq(Bytes) /\ Len(header) = PackagePaidBytes
    BY DEF Overrun, Inv, Parser, BytesAre
  <2>2. header[4] \in Bytes
    <3>1. 4 \in 1 .. Len(header)
      BY <2>1 DEF PackagePaidBytes
    <3> QED BY <2>1, <3>1
  <2>3. header[4].value \in 0 .. 4
    BY <2>2 DEF Bytes, Values
  <2>4. Wanted = header[4].value * PackageSampleBytes
    BY <2>1 DEF Wanted, PackagePaidBytes
  <2>5. PackageSampleBytes = 2 \/ PackageSampleBytes = 3
    BY PacketsAssumption
  <2>6. Wanted <= HeadLow * PackageSampleBytes
    BY <2>3, <2>4, <2>5 DEF HeadLow
  <2>7. RecvBufferSize \in Nat /\ Wanted \in Nat
    BY <2>3, <2>4, <2>5, PacketsAssumption
  <2>8. ~(Wanted <= RecvBufferSize)
    BY DEF Overrun, Fits
  <2>9. HeadLow * PackageSampleBytes \in Nat
    BY <2>5 DEF HeadLow
  <2> QED BY <2>6, <2>7, <2>8, <2>9
<1> QED BY <1>1, <1>2, ParserInvariant, PTL DEF Spec

\* The variables have their types; no call holds more nodes than the grab
\* thread asked for, and a package gives no more than it has.
THEOREM TypeCorrect == Spec => []TypeOK
<1>1. Inv /\ overrun \in BOOLEAN => TypeOK
  <2> SUFFICES ASSUME Inv, overrun \in BOOLEAN PROVE TypeOK
    OBVIOUS
  <2>1. /\ stream \in Streams /\ timeouts \in 0 .. MaxTimeouts
        /\ Len(header) <= PackagePaidBytes /\ ring_times \in Nat
    BY DEF Inv, Parser, BytesAre, HeaderIs
  <2>2. PackageIs /\ BufferIs
    BY DEF Inv
  <2> QED BY <2>1, <2>2, Zenon DEF TypeOK, PackageIs, BufferIs
<1>2. Init => overrun \in BOOLEAN
  BY DEF Init
<1>3. overrun \in BOOLEAN /\ [Next]_vars => (overrun \in BOOLEAN)'
  BY OverrunIs
<1> QED BY <1>1, <1>2, <1>3, ParserInvariant, PTL DEF Spec

\* A node with a distance is one of a package of which no byte was damaged or
\* lost, and only the node of a ring start has the sync flag.
THEOREM NodesGenuine == Spec => []NodesAreGenuine
<1>1. Inv => NodesAreGenuine
  <2> SUFFICES ASSUME Inv, NEW i \in 1 .. Len(delivered), NEW node, node = delivered[i]
               PROVE  /\ node.package # 0 =>
                            faults \cap (EndOf(stream, node.package - 1) + 1 ..
                                         EndOf(stream, node.package)) = {}
                      /\ node.sync => node.package # 0 /\ stream[node.package]
    BY Zenon DEF NodesAreGenuine
  <2>1. delivered \in Seq(Nodes) /\ nodebuffer \in Seq(Nodes)
    BY AllNodesAre
  <2>2. AllNodes[i] = node /\ i \in 1 .. Len(AllNodes)
    <3>1. PICK m \in Nat, k \in Nat : m = Len(delivered) /\ k = Len(nodebuffer)
      BY <2>1, LenProperties
    <3>2. /\ Len(delivered \o nodebuffer) = Len(delivered) + Len(nodebuffer)
          /\ \A j \in 1 .. Len(delivered) : (delivered \o nodebuffer)[j] = delivered[j]
      BY <2>1, Joined
    <3>3. i \in 1 .. m + k
      BY <3>1
    <3> QED BY <3>1, <3>2, <3>3 DEF AllNodes
  <2>3. NodeIs(node)
    BY <2>2 DEF Inv, NodesAre
  <2> QED BY <2>3, Zenon DEF NodeIs, StartOf
<1> QED BY <1>1, ParserInvariant, PTL

\* A package that gives a node gives all its samples once and in order, and
\* packages come in order, over the ends of calls and time-outs.
THEOREM InOrder == Spec => []SamplesInOrder
<1>1. Inv => SamplesInOrder
  BY DEF Inv
<1> QED BY <1>1, ParserInvariant, PTL

\* Every call returns what LidarHandler takes: at most its last node starts a
\* ring, whose time the call has taken.
THEOREM BatchesExpected == Spec => []BatchesAreExpected
<1>1. Inv => BatchesAreExpected
  BY DEF Inv
<1> QED BY <1>1, ParserInvariant, PTL

LEMMA NodeIn ==
    ASSUME NEW d \in Seq(Nodes), NEW b \in Seq(Nodes), NEW n \in 1 .. Len(d \o b),
           NEW node, node = (d \o b)[n]
    PROVE  node \in ToSet(d) \cup ToSet(b)
<1>1. PICK m \in Nat, k \in Nat : m = Len(d) /\ k = Len(b)
  BY LenProperties
<1>2. /\ Len(d \o b) = Len(d) + Len(b)
      /\ \A i \in 1 .. Len(d) : (d \o b)[i] = d[i]
      /\ \A i \in 1 .. Len(b) : (d \o b)[Len(d) + i] = b[i]
  BY Joined
<1>3. n \in 1 .. m + k
  BY <1>1, <1>2
<1>4. CASE n \in 1 .. m
  <2>1. n \in DOMAIN d /\ node = d[n]
    BY <1>1, <1>2, <1>4
  <2> QED BY <2>1 DEF ToSet
<1>5. CASE n \notin 1 .. m
  <2>1. PICK i \in 1 .. k : n = m + i
    BY <1>3, <1>5
  <2>2. i \in DOMAIN b /\ node = b[i]
    BY <2>1, <1>1, <1>2
  <2> QED BY <2>2 DEF ToSet
<1> QED BY <1>4, <1>5

\* A parser that waits for bytes has none of a clean package left to read.
LEMMA NothingLeft ==
    ASSUME Inv, stream \in Seq(BOOLEAN), NEW p \in 1 .. Len(stream),
           Len(line) < Wanted, package_sample_index_ = 0,
           OnTheWay(p, header, line)
    PROVE  Complete(p)
<1>1. BytesAre(header, line)
  BY DEF Inv, Parser
<1>2. PICK h, l : h = header /\ l = line
  OBVIOUS
<1>3. h \in Seq(Bytes) /\ l \in Seq(Bytes) /\ Len(h) <= PackagePaidBytes
  BY <1>1, <1>2 DEF BytesAre
<1>4. PICK m \in Nat, c \in Nat : m = Len(h) /\ c = Len(l) /\ m <= 10
  BY <1>3, LenProperties DEF PackagePaidBytes
<1>5. PICK s \in Nat, z \in 12 .. 22 : s = StartOf(p) /\ z = Size(stream, p)
  BY Places
<1>6. CASE m < 10
  <2>1. Wanted = 10 - m
    BY <1>2, <1>4, <1>6, Zenon DEF Wanted, PackagePaidBytes
  <2>2. c < 10 - m
    BY <2>1, <1>2, <1>4, Zenon
  <2>3. ASSUME NEW k \in 0 .. Len(l), Ahead(p, k, l) PROVE FALSE
    <3>1. k + z <= c
      BY <2>3, <1>4, <1>5, Zenon DEF Ahead
    <3>2. k \in Nat
      OBVIOUS
    <3> QED BY <3>1, <3>2, <2>2
  <2>4. ~Begun(p, h, l)
    <3>1. Begun(p, h, l) => z - m <= c
      BY <1>4, <1>5, Zenon DEF Begun
    <3> QED BY <3>1, <2>2
  <2> QED BY <2>3, <2>4, <1>2, Zenon DEF OnTheWay, Coming
<1>7. CASE m = 10
  <2>1. Len(h) = 10 /\ ~(Len(header) < 10)
    BY <1>2, <1>4, <1>7
  <2>2. PICK v \in 0 .. 4, b \in {2, 3} : v = h[4].value /\ b = PackageSampleBytes
    <3>1. 4 \in 1 .. Len(h)
      BY <2>1
    <3>2. h[4] \in Bytes
      BY <3>1, <1>3, ElementOfSeq
    <3> QED BY <3>2, PacketsAssumption DEF Bytes, Values
  <2>3. PICK n \in Nat : n = v * b /\ n = h[4].value * PackageSampleBytes
    <3>1. v * b \in Nat
      BY SMTT(30)
    <3> QED BY <3>1, <2>2, Zenon
  <2>4. Wanted = n
    BY <2>1, <2>3, <1>2, Zenon DEF Wanted, PackagePaidBytes
  <2>5. c < n
    BY <2>4, <1>2, <1>4, Zenon
  <2>6. ASSUME NEW k \in 0 .. Len(l), Ahead(p, k, l), Harmless(p, k, h, l) PROVE FALSE
    <3>1. k \in Nat /\ k <= c
      BY <1>4
    <3>2. n <= k
      BY <2>1, <2>3, <2>6, <3>1, <1>3, TooFar, Zenon
    <3> QED BY <3>1, <3>2, <2>5
  <2>7. ~Begun(p, h, l)
    <3> SUFFICES ASSUME Begun(p, h, l) PROVE FALSE
      OBVIOUS
    <3>1. z - 10 <= c
      BY <1>4, <1>5, <1>7, Zenon DEF Begun
    <3>2. 4 \in 1 .. Len(h) /\ 4 \in 1 .. Size(stream, p)
      BY <2>1, <1>5
    <3>3. h[4] = Sent(stream)[StartOf(p) + 4]
      BY <3>2, Zenon DEF Begun, BeginningOf
    <3>4. h[4].value = Count(stream, p)
      BY <3>2, <3>3, SentIs
    <3>5. z = 10 + n
      <4>1. Size(stream, p) = 10 + Count(stream, p) * PackageSampleBytes
        BY Sizes
      <4> QED BY <4>1, <3>4, <2>3, <1>5, Zenon
    <3> QED BY <3>1, <3>5, <2>5
  <2> QED BY <2>6, <2>7, <1>2, Zenon DEF OnTheWay, Coming
<1> QED BY <1>4, <1>6, <1>7

\* After damage, loss or a time-out the parser finds its way back: when it
\* waits for bytes and has not written past its buffer, every sample of every
\* clean package has been delivered.
THEOREM CleanArrive == Spec => []CleanPackagesArrive
<1>1. Inv => CleanPackagesArrive
  <2> SUFFICES ASSUME Inv, package_sample_index_ = 0, Len(line) < Wanted,
                      ~overrun, NEW p \in 1 .. Len(stream), Clean(p),
                      NEW i \in 0 .. NumOf(stream[p]) - 1
               PROVE  [package |-> p, sample |-> i, sync |-> stream[p]]
                          \in ToSet(delivered) \cup ToSet(nodebuffer)
    BY Zenon DEF CleanPackagesArrive
  <2>1. stream \in Seq(BOOLEAN)
    BY PacketsAssumption DEF Inv
  <2>2. OnTheWay(p, header, line)
    BY DEF Inv, Parser, CleanOnTheWay
  <2>3. HasNode(p, i)
    <3>1. Complete(p)
      BY <2>1, <2>2, NothingLeft
    <3> QED BY <3>1, Zenon DEF Complete, Count
  <2>4. PICK n \in 1 .. Len(delivered \o nodebuffer) :
            (delivered \o nodebuffer)[n]
                = [package |-> p, sample |-> i, sync |-> stream[p]]
    BY <2>3, Zenon DEF HasNode, AllNodes
  <2>5. delivered \in Seq(Nodes) /\ nodebuffer \in Seq(Nodes)
    BY AllNodesAre
  <2> QED BY <2>4, <2>5, NodeIn, Zenon
<1> QED BY <1>1, ParserInvariant, PTL
=============================================================================
