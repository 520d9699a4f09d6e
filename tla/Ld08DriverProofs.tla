--------------------------- MODULE Ld08DriverProofs ---------------------------
(***************************************************************************)
(* What the LD08's two threads promise, for every length of rotation,      *)
(* every read and every stream of points.                                  *)
(*                                                                         *)
(* The first half is about the points: which of them make a frame, and     *)
(* that none is lost or framed twice (FramesInv).  The second half is      *)
(* about the message the threads share without a lock, when the loop is    *)
(* prompt (Inv); which points make a frame does not matter there.          *)
(***************************************************************************)
EXTENDS Ld08Driver, FiniteSetTheorems, SequenceTheorems, WellFoundedInduction, TLAPS

(* Numbers and finite sets in order.                                       *)

\* The principle of the least number.
LEMMA Least ==
    ASSUME NEW T \in SUBSET Nat, T # {}
    PROVE  \E x \in T : \A y \in T : x <= y
<1>1. \E x \in T : \A y \in T : ~(<<y, x>> \in OpToRel(<, Nat))
  BY NatLessThanWellFounded, WFMin
<1>2. OpToRel(<, Nat) = {ss \in Nat \X Nat : ss[1] < ss[2]}
  BY DEF OpToRel
<1>3. PICK x \in T : \A y \in T : ~(<<y, x>> \in {ss \in Nat \X Nat : ss[1] < ss[2]})
  BY <1>1, <1>2, Zenon
<1>4. ASSUME NEW y \in T PROVE x <= y
  <2>1. ~(<<y, x>> \in {ss \in Nat \X Nat : ss[1] < ss[2]})
    BY <1>3
  <2>2. y \in Nat /\ x \in Nat
    OBVIOUS
  <2>3. ~(y < x)
    BY <2>1, <2>2
  <2> QED BY <2>2, <2>3
<1> QED BY <1>4

\* A bounded set of numbers has a greatest.
LEMMA Greatest ==
    ASSUME NEW T \in SUBSET Nat, T # {}, NEW n \in Nat, \A x \in T : x <= n
    PROVE  \E x \in T : \A y \in T : x >= y
<1> DEFINE B == {u \in Nat : \A x \in T : x <= u}
<1>1. PICK u \in B : \A v \in B : u <= v
  BY Least, n \in B, B \in SUBSET Nat
<1>2. CASE u \in T
  BY <1>1, <1>2
<1>3. CASE u \notin T
  <2>1. \A x \in T : x \in Nat /\ x <= u /\ x # u
    BY <1>1, <1>3, u \in B
  <2>2. u - 1 \in B
    <3>1. u \in Nat
      BY <1>1
    <3>2. \A x \in T : x <= u - 1
      BY <2>1, <3>1
    <3>3. PICK x \in T : TRUE
      OBVIOUS
    <3>4. u # 0
      BY <2>1, <3>1, <3>3
    <3> QED BY <3>1, <3>2, <3>4
  <2> QED BY <1>1, <2>2
<1> QED BY <1>2, <1>3

\* Min of a set of numbers.
LEMMA MinIs ==
    ASSUME NEW T \in SUBSET Nat, T # {}
    PROVE  Min(T) \in T /\ \A y \in T : Min(T) <= y
BY Least DEF Min

\* Max of a bounded set.
LEMMA MaxIs ==
    ASSUME NEW T \in SUBSET Nat, T # {}, NEW n \in Nat, \A x \in T : x <= n
    PROVE  Max(T) \in T /\ \A y \in T : y <= Max(T)
<1>1. \E x \in T : \A y \in T : x >= y
  BY Greatest
<1>2. Max(T) \in T /\ \A y \in T : Max(T) >= y
  BY <1>1 DEF Max
<1> QED BY <1>2

\* In a finite set with a strict total order every member has a rank of its own.
LEMMA Ranks ==
    ASSUME NEW S, IsFiniteSet(S), NEW before \in [S -> SUBSET S],
           \A p \in S : p \notin before[p],
           \A p, q \in S : p # q => p \in before[q] \/ q \in before[p],
           \A p, q, r \in S : p \in before[q] /\ q \in before[r] => p \in before[r]
    PROVE  /\ \A p \in S : Cardinality(before[p]) \in 0 .. Cardinality(S) - 1
           /\ \A p, q \in S : p \in before[q] => Cardinality(before[p]) < Cardinality(before[q])
           /\ \A k \in 0 .. Cardinality(S) - 1 : \E p \in S : Cardinality(before[p]) = k
<1> DEFINE rank == [p \in S |-> Cardinality(before[p])]
           N == Cardinality(S)
<1>1. N \in Nat
  BY FS_CardinalityType
<1>2. ASSUME NEW p \in S PROVE IsFiniteSet(before[p]) /\ Cardinality(before[p]) \in 0 .. N - 1
  <2>1. before[p] \in SUBSET S /\ p \notin before[p]
    OBVIOUS
  <2>2. IsFiniteSet(before[p]) /\ Cardinality(before[p]) <= N /\ Cardinality(before[p]) # N
    BY <2>1, FS_Subset
  <2>3. Cardinality(before[p]) \in Nat
    BY <2>2, FS_CardinalityType
  <2> QED BY <1>1, <2>2, <2>3
<1>3. ASSUME NEW p \in S, NEW q \in S, p \in before[q]
      PROVE  Cardinality(before[p]) < Cardinality(before[q])
  <2>1. before[p] \in SUBSET before[q] /\ p \notin before[p]
    BY <1>3
  <2>2. /\ Cardinality(before[p]) <= Cardinality(before[q])
        /\ Cardinality(before[q]) # Cardinality(before[p])
    BY <1>2, <1>3, <2>1, FS_Subset
  <2>3. Cardinality(before[p]) \in Nat /\ Cardinality(before[q]) \in Nat
    BY <1>1, <1>2
  <2> QED BY <2>2, <2>3
<1>4. rank \in Injection(S, 0 .. N - 1)
  <2>1. rank \in [S -> 0 .. N - 1]
    BY <1>2
  <2>2. ASSUME NEW p \in S, NEW q \in S, p # q PROVE rank[p] # rank[q]
    <3>1. p \in before[q] \/ q \in before[p]
      BY <2>2
    <3>2. Cardinality(before[p]) \in Nat /\ Cardinality(before[q]) \in Nat
      BY <1>1, <1>2
    <3> QED BY <3>1, <3>2, <1>3
  <2> QED BY <2>1, <2>2 DEF Injection, IsInjective
<1>5. IsFiniteSet(0 .. N - 1) /\ Cardinality(0 .. N - 1) = N
  BY <1>1, FS_Interval
<1>6. rank \in Surjection(S, 0 .. N - 1)
  BY <1>4, <1>5, FS_Injection
<1>7. \A k \in 0 .. N - 1 : \E p \in S : Cardinality(before[p]) = k
  BY <1>6 DEF Surjection
<1> QED BY <1>2, <1>3, <1>7

\* What Listed makes of a finite set under such an order.
LEMMA ListedIs ==
    ASSUME NEW S, IsFiniteSet(S), NEW before \in [S -> SUBSET S],
           NEW s \in [1 .. Cardinality(S) -> S],
           \A p \in S : p \notin before[p],
           \A p, q \in S : p # q => p \in before[q] \/ q \in before[p],
           \A p, q, r \in S : p \in before[q] /\ q \in before[r] => p \in before[r],
           \A k \in 1 .. Cardinality(S) : Cardinality(before[s[k]]) = k - 1
    PROVE  /\ s \in Seq(S) /\ Len(s) = Cardinality(S) /\ Cardinality(S) \in Nat
           /\ ToSet(s) = S
           /\ \A j, k \in 1 .. Len(s) : j < k => s[j] \in before[s[k]]
<1> DEFINE N == Cardinality(S)
<1>1. N \in Nat
  BY FS_CardinalityType
<1>2. /\ \A p \in S : Cardinality(before[p]) \in 0 .. N - 1
      /\ \A p, q \in S : p \in before[q] => Cardinality(before[p]) < Cardinality(before[q])
      /\ \A k \in 0 .. N - 1 : \E p \in S : Cardinality(before[p]) = k
  <2> HIDE DEF N
  <2> QED BY Ranks DEF N
<1>3. \A k \in 1 .. N : s[k] \in S /\ Cardinality(before[s[k]]) = k - 1
  OBVIOUS
<1>4. s \in Seq(S) /\ Len(s) = N
  BY <1>1, <1>3
<1>5. ASSUME NEW j \in 1 .. N, NEW k \in 1 .. N, j # k,
             Cardinality(before[s[j]]) <= Cardinality(before[s[k]])
      PROVE  s[j] \in before[s[k]]
  <2>1. s[j] \in S /\ s[k] \in S /\ s[j] # s[k]
    BY <1>1, <1>3, <1>5
  <2>2. CASE s[k] \in before[s[j]]
    <3>1. Cardinality(before[s[k]]) < Cardinality(before[s[j]])
      BY <1>2, <2>1, <2>2
    <3>2. Cardinality(before[s[k]]) \in Int /\ Cardinality(before[s[j]]) \in Int
      BY <1>2, <2>1
    <3> QED BY <1>5, <3>1, <3>2
  <2> QED BY <2>1, <2>2
<1>6. ASSUME NEW p \in S PROVE \E k \in DOMAIN s : s[k] = p
  <2> DEFINE k == Cardinality(before[p]) + 1
  <2>1. k \in 1 .. N
    BY <1>1, <1>2
  <2>2. s[k] \in S /\ Cardinality(before[s[k]]) = Cardinality(before[p])
    BY <1>1, <1>2, <1>3, <2>1
  <2>3. s[k] = p
    BY <1>2, <2>2
  <2> QED BY <2>1, <2>3, <1>4
<1>7. ToSet(s) = S
  BY <1>3, <1>4, <1>6 DEF ToSet
<1>8. ASSUME NEW j \in 1 .. N, NEW k \in 1 .. N, j < k PROVE s[j] \in before[s[k]]
  <2>1. Cardinality(before[s[j]]) <= Cardinality(before[s[k]])
    BY <1>1, <1>3, <1>8
  <2>2. j # k
    BY <1>1, <1>8
  <2> QED BY <1>5, <2>1, <2>2
<1> QED BY <1>1, <1>4, <1>7, <1>8

\* The order of ToLaserscan puts each point of a set into the sequence once.
LEMMA SortedIs ==
    ASSUME NEW S \in SUBSET Points, IsFiniteSet(S),
           \A p, q \in S : p.at = q.at => p = q
    PROVE  /\ Sorted(S) \in Seq(Points) /\ ToSet(Sorted(S)) = S
           /\ S # {} => Sorted(S) # <<>>
<1> DEFINE before == [p \in S |-> {q \in S : AngleBefore(q, p)}]
           s == Sorted(S)
<1>1. \A p \in S : RightHand(p) \in Int /\ p.at \in Nat
  BY Ld08Assumption DEF RightHand, Angle, Points
<1>2. before \in [S -> SUBSET S]
  OBVIOUS
<1>3. /\ \A p \in S : p \notin before[p]
      /\ \A p, q \in S : p # q => p \in before[q] \/ q \in before[p]
      /\ \A p, q, r \in S : p \in before[q] /\ q \in before[r] => p \in before[r]
  BY <1>1 DEF AngleBefore
<1>4. \A k \in 0 .. Cardinality(S) - 1 : \E p \in S : Cardinality(before[p]) = k
  <2> HIDE DEF before
  <2> QED BY Ranks, <1>2, <1>3
<1>5. /\ s \in [1 .. Cardinality(S) -> S]
      /\ \A k \in 1 .. Cardinality(S) : Cardinality(before[s[k]]) = k - 1
  <2>1. ASSUME NEW k \in 1 .. Cardinality(S)
        PROVE  s[k] \in S /\ Cardinality({q \in S : AngleBefore(q, s[k])}) = k - 1
    <3>1. k - 1 \in 0 .. Cardinality(S) - 1
      BY FS_CardinalityType
    <3>2. \E p \in S : Cardinality({q \in S : AngleBefore(q, p)}) = k - 1
      BY <1>4, <3>1
    <3>3. s[k] = CHOOSE p \in S : Cardinality({q \in S : AngleBefore(q, p)}) = k - 1
      BY DEF Sorted, Listed
    <3> QED BY <3>2, <3>3
  <2>2. s \in [1 .. Cardinality(S) -> S]
    BY <2>1 DEF Sorted, Listed
  <2> QED BY <2>1, <2>2
<1>6. s \in Seq(S) /\ Len(s) = Cardinality(S) /\ ToSet(s) = S
  <2> HIDE DEF before, s
  <2> QED BY ListedIs, <1>2, <1>3, <1>4, <1>5
<1>7. s \in Seq(Points)
  BY <1>6
<1>8. S # {} => s # <<>>
  BY <1>6 DEF ToSet
<1> QED BY <1>6, <1>7, <1>8

\* The order of Parsed numbers the points as the lidar does.
LEMMA InOrderIs ==
    ASSUME NEW S \in SUBSET Points, IsFiniteSet(S),
           \A p, q \in S : p.at = q.at => p = q
    PROVE  /\ InOrder(S) \in Seq(Points) /\ ToSet(InOrder(S)) = S
           /\ \A k \in 1 .. Len(InOrder(S)) : InOrder(S)[k] \in S
           /\ \A j, k \in 1 .. Len(InOrder(S)) :
                  j < k => InOrder(S)[j].at < InOrder(S)[k].at
<1> DEFINE s == InOrder(S)
           before == [p \in S |-> {q \in S : SentBefore(q, p)}]
<1>1. \A p \in S : p.at \in Nat
  BY DEF Points
<1>2. before \in [S -> SUBSET S]
  OBVIOUS
<1>3. /\ \A p \in S : p \notin before[p]
      /\ \A p, q \in S : p # q => p \in before[q] \/ q \in before[p]
      /\ \A p, q, r \in S : p \in before[q] /\ q \in before[r] => p \in before[r]
  BY <1>1 DEF SentBefore
<1>4. \A k \in 0 .. Cardinality(S) - 1 : \E p \in S : Cardinality(before[p]) = k
  <2> HIDE DEF before
  <2> QED BY Ranks, <1>2, <1>3
<1>5. /\ s \in [1 .. Cardinality(S) -> S]
      /\ \A k \in 1 .. Cardinality(S) : Cardinality(before[s[k]]) = k - 1
  <2>1. ASSUME NEW k \in 1 .. Cardinality(S)
        PROVE  s[k] \in S /\ Cardinality({q \in S : SentBefore(q, s[k])}) = k - 1
    <3>1. k - 1 \in 0 .. Cardinality(S) - 1
      BY FS_CardinalityType
    <3>2. \E p \in S : Cardinality({q \in S : SentBefore(q, p)}) = k - 1
      BY <1>4, <3>1
    <3>3. s[k] = CHOOSE p \in S : Cardinality({q \in S : SentBefore(q, p)}) = k - 1
      BY DEF InOrder, Listed
    <3> QED BY <3>2, <3>3
  <2>2. s \in [1 .. Cardinality(S) -> S]
    BY <2>1 DEF InOrder, Listed
  <2> QED BY <2>1, <2>2
<1>6. /\ s \in Seq(S) /\ Len(s) = Cardinality(S) /\ ToSet(s) = S
      /\ \A j, k \in 1 .. Len(s) : j < k => s[j] \in before[s[k]]
  <2> HIDE DEF before, s
  <2> QED BY ListedIs, <1>2, <1>3, <1>4, <1>5, ZenonT(40)
<1>7. s \in Seq(Points)
  BY <1>6
<1>8. \A k \in 1 .. Len(s) : s[k] \in S
  BY <1>6
<1>9. \A p, q \in S : p \in before[q] => p.at < q.at
  BY DEF SentBefore
<1>10. \A j, k \in 1 .. Len(s) : j < k => s[j].at < s[k].at
  <2> HIDE DEF before, s
  <2> QED BY <1>6, <1>8, <1>9
<1> QED BY <1>6, <1>7, <1>8, <1>10

\* The points of a read, in the lidar's order.
LEMMA ParsedIs ==
    ASSUME NEW chunk \in Chunks, NEW from \in Nat,
           NEW s, s = Parsed(chunk, from)
    PROVE  /\ s \in Seq(Points) /\ Len(chunk) \in Nat
           /\ \A k \in 1 .. Len(s) : s[k].at \in from .. from + Len(chunk) - 1
           /\ \A j, k \in 1 .. Len(s) : j < k => s[j].at < s[k].at
<1> DEFINE I == {i \in DOMAIN chunk : chunk[i] # "lost"}
           pt == [k \in I |-> [at |-> from + k - 1, valid |-> chunk[k] = "valid"]]
           S == {pt[k] : k \in I}
<1>1. PICK n \in 1 .. MaxChunk : chunk \in [1 .. n -> {"valid", "invalid", "lost"}]
  BY DEF Chunks
<1>2. n \in Nat /\ DOMAIN chunk = 1 .. n /\ Len(chunk) = n
  BY <1>1, Ld08Assumption
<1>3. ASSUME NEW k \in I
      PROVE  pt[k] \in Points /\ pt[k].at = from + k - 1 /\ pt[k].at \in from .. from + n - 1
  <2>1. k \in 1 .. n /\ from + k - 1 \in Nat /\ from + k - 1 \in from .. from + n - 1
    BY <1>2
  <2>2. (chunk[k] = "valid") \in BOOLEAN
    OBVIOUS
  <2>3. pt[k] \in Points
    BY <2>1, <2>2, Zenon DEF Points
  <2>4. pt[k].at = from + k - 1
    OBVIOUS
  <2> QED BY <2>1, <2>3, <2>4
<1>4. \A p, q \in S : p.at = q.at => p = q
  <2> SUFFICES ASSUME NEW p \in S, NEW q \in S, p.at = q.at PROVE p = q
    OBVIOUS
  <2>1. PICK j \in I, k \in I : p = pt[j] /\ q = pt[k]
    OBVIOUS
  <2>2. j \in Nat /\ k \in Nat
    BY <1>2
  <2>3. j = k
    BY <2>1, <2>2, <1>3
  <2> QED BY <2>1, <2>3
<1>5. IsFiniteSet(S)
  <2>1. IsFiniteSet(I)
    BY <1>2, FS_Interval, FS_Subset
  <2>2. pt \in Surjection(I, S)
    BY DEF Surjection
  <2> HIDE DEF I, pt, S
  <2> QED BY <2>1, <2>2, FS_Surjection
<1>6. \A p \in S : p \in Points /\ p.at \in from .. from + n - 1
  BY <1>3
<1>7. s = InOrder(S)
  BY DEF Parsed
<1>8. S \in SUBSET Points
  BY <1>6
<1> HIDE DEF S
<1> QED BY <1>2, <1>4, <1>5, <1>6, <1>7, <1>8, InOrderIs

-----------------------------------------------------------------------------
(* The points and the frames.                                              *)

\* A stream of points, each sent after the one before it.
Rising(points) ==
    \A j, k \in 1 .. Len(points) : j < k => points[j].at < points[k].at

\* mFrameTemp is the end of what was received: Base points are behind it.
Base == Len(received) - Len(mFrameTemp)

\* The point at k starts a rotation, and none of the one before is in set f.
BlindAt(points, f, k) ==
    /\ k \in Cuts(points)
    /\ \A n \in Max({1} \cup {j \in Cuts(points) : j < k}) .. k - 1 : points[n] \notin f

NextFrame == FrameBefore(mFrameTemp, FirstCut(mFrameTemp))

StreamRises    == Rising(received) /\ \A k \in 1 .. Len(received) : received[k].at < sent
TempIsTheEnd   == /\ Len(mFrameTemp) <= Len(received)
                  /\ \A k \in 1 .. Len(mFrameTemp) : mFrameTemp[k] = received[Base + k]
FrameIsThere   == rx \in {"filling", "flagging"} => FrameCuts(mFrameTemp) # {}
BaseIsACut     == Base > 0 => Base + 1 \in Cuts(received)
FramedIsBehind ==
    /\ \A p \in framed : \/ \E k \in 1 .. Base : p = received[k]
                         \/ rx = "flagging" /\ p \in NextFrame
    /\ rx = "flagging" => NextFrame \subseteq framed
BehindIsFramed ==
    \A k \in 1 .. Base : received[k].valid => received[k] \in framed \/ BlindAt(received, framed, k)
NoThreadYet == main = "starting" => rx = "none"
OutputIsReceived == ToSet(output.frame) \subseteq ToSet(received)

FramesInv ==
    /\ TypeOK /\ StreamRises /\ TempIsTheEnd /\ FrameIsThere /\ BaseIsACut
    /\ FramedIsBehind /\ BehindIsFramed /\ OutputIsReceived /\ OneRotationPerFrame
    /\ NoThreadYet

\* Division with remainder.
LEMMA DivMod ==
    ASSUME NEW a \in Nat, NEW n \in Nat \ {0}
    PROVE  /\ a % n \in 0 .. n - 1 /\ a \div n \in Nat
           /\ a = n * (a \div n) + (a % n)
OBVIOUS

\* A multiple of the slots, and the number before it.
LEMMA Multiple ==
    ASSUME NEW d \in Nat \ {0}, NEW n \in Nat \ {0}
    PROVE  /\ (n * d) % n = 0 /\ (n * d - 1) % n = n - 1 /\ n * d - 1 \in Nat
           /\ n * d \in Nat
<1>1. n * d \in Nat /\ n * d >= n
  OBVIOUS
<1>2. n * d - 1 = n * (d - 1) + (n - 1)
  OBVIOUS
<1>3. (n * d) % n = 0
  OBVIOUS
<1>4. (n * (d - 1) + (n - 1)) % n = n - 1
  OBVIOUS
<1> QED BY <1>1, <1>2, <1>3, <1>4

\* A point of a later rotation is sent after the end of the earlier one.
LEMMA Boundary ==
    ASSUME NEW p \in Points, NEW q \in Points, Rotation(p) < Rotation(q)
    PROVE  \E n \in Nat \ {0} : /\ p.at < n /\ n <= q.at
                                /\ n % Slots = 0 /\ (n - 1) % Slots = Slots - 1
<1> DEFINE d == Rotation(q)
           n == Slots * d
<1>1. p.at \in Nat /\ q.at \in Nat /\ Slots \in Nat \ {0}
  BY Ld08Assumption DEF Points
<1>2. /\ p.at % Slots \in 0 .. Slots - 1 /\ p.at \div Slots \in Nat
      /\ p.at = Slots * (p.at \div Slots) + (p.at % Slots)
  BY <1>1, DivMod
<1>3. /\ q.at % Slots \in 0 .. Slots - 1 /\ d \in Nat
      /\ q.at = Slots * d + (q.at % Slots)
  BY <1>1, DivMod DEF Rotation
<1>4. d \in Nat \ {0} /\ p.at \div Slots <= d - 1
  BY <1>2, <1>3 DEF Rotation
<1>5. n % Slots = 0 /\ (n - 1) % Slots = Slots - 1 /\ n \in Nat /\ n - 1 \in Nat
  BY <1>1, <1>4, Multiple
<1>6. n <= q.at
  BY <1>3, <1>5
<1>7. Slots * (p.at \div Slots) <= Slots * (d - 1)
  <2> DEFINE a == p.at \div Slots
             b == d - 1
  <2>1. a \in Nat /\ b \in Nat /\ a <= b
    BY <1>2, <1>4
  <2>2. \E c \in Nat : b = a + c
    <3>1. b - a \in Nat /\ b = a + (b - a)
      BY <2>1
    <3> QED BY <3>1
  <2> HIDE DEF a, b
  <2>3. PICK c \in Nat : b = a + c
    BY <2>2
  <2>4. Slots * b = Slots * a + Slots * c /\ Slots * c \in Nat /\ Slots * a \in Nat
    BY <1>1, <2>1, <2>3
  <2>5. Slots * a <= Slots * b
    BY <2>4
  <2> QED BY <2>5 DEF a, b
<1>8. Slots * (d - 1) = n - Slots
  BY <1>1, <1>3
<1>9. p.at < n
  BY <1>1, <1>2, <1>5, <1>7, <1>8
<1> QED BY <1>5, <1>6, <1>9

\* A frame starts after the last cut before its own.
LEMMA StartIs ==
    ASSUME NEW m \in Seq(Points), NEW i \in 1 .. Len(m)
    PROVE  /\ Start(m, i) \in 1 .. i
           /\ \A j \in Cuts(m) : j < i => j < Start(m, i)
           /\ Start(m, i) # 1 => Start(m, i) - 1 \in Cuts(m)
<1> DEFINE T == {0} \cup {j \in Cuts(m) : j < i}
<1>1. T \in SUBSET Nat /\ T # {} /\ \A x \in T : x <= i
  BY DEF Cuts
<1>2. i \in Nat
  OBVIOUS
<1>3. Max(T) \in T /\ \A y \in T : y <= Max(T)
  <2> HIDE DEF T
  <2> QED BY <1>1, <1>2, MaxIs
<1>4. Start(m, i) = 1 + Max(T)
  BY DEF Start
<1>5. Max(T) \in Nat /\ Max(T) < i
  BY <1>1, <1>3
<1>6. ASSUME NEW j \in Cuts(m), j < i PROVE j <= Max(T) /\ j \in Nat
  BY <1>1, <1>3, <1>6
<1>7. Start(m, i) # 1 => Start(m, i) - 1 \in Cuts(m)
  BY <1>3, <1>4, <1>5
<1> HIDE DEF T
<1> QED BY <1>4, <1>5, <1>6, <1>7

\* The first cut at which a frame can be made.
LEMMA FirstCutIs ==
    ASSUME NEW m \in Seq(Points), FrameCuts(m) # {}
    PROVE  /\ FirstCut(m) \in FrameCuts(m) /\ FirstCut(m) \in Cuts(m)
           /\ FirstCut(m) \in 2 .. Len(m)
           /\ FrameBefore(m, FirstCut(m)) # {}
           /\ \A i \in FrameCuts(m) : FirstCut(m) <= i
<1>1. FrameCuts(m) \in SUBSET Nat
  BY DEF FrameCuts, Cuts
<1>2. FirstCut(m) \in FrameCuts(m) /\ \A i \in FrameCuts(m) : FirstCut(m) <= i
  BY <1>1, MinIs DEF FirstCut
<1> QED BY <1>2 DEF FrameCuts, Cuts

\* The points of a frame, by their places.
LEMMA FrameIs ==
    ASSUME NEW m \in Seq(Points), NEW i \in Cuts(m)
    PROVE  \A p : p \in FrameBefore(m, i) <=>
                      \E k \in Start(m, i) .. i - 1 : p = m[k] /\ m[k].valid
BY DEF FrameBefore, Filtered, Valid

\* A frame is finite and has no two points of the same number.
LEMMA FrameIsSet ==
    ASSUME NEW m \in Seq(Points), Rising(m), NEW i \in Cuts(m)
    PROVE  /\ FrameBefore(m, i) \in SUBSET Points
           /\ IsFiniteSet(FrameBefore(m, i))
           /\ \A p, q \in FrameBefore(m, i) : p.at = q.at => p = q
<1>1. i \in 1 .. Len(m)
  BY DEF Cuts
<1>2. Start(m, i) \in 1 .. i
  BY <1>1, StartIs
<1> DEFINE K == {k \in Start(m, i) .. i - 1 : m[k].valid}
           at == [k \in K |-> m[k]]
           F == FrameBefore(m, i)
<1>3. F = {m[k] : k \in K}
  BY DEF FrameBefore, Filtered, Valid
<1>4. \A k \in K : k \in 1 .. Len(m) /\ m[k] \in Points
  BY <1>1, <1>2
<1>5. F \in SUBSET Points
  BY <1>3, <1>4
<1>6. IsFiniteSet(F)
  <2>1. IsFiniteSet(K)
    <3>1. IsFiniteSet(Start(m, i) .. i - 1)
      BY <1>1, <1>2, FS_Interval
    <3> QED BY <3>1, FS_Subset
  <2>2. at \in Surjection(K, F)
    BY <1>3 DEF Surjection
  <2> HIDE DEF K, at, F
  <2> QED BY <2>1, <2>2, FS_Surjection
<1>7. ASSUME NEW p \in F, NEW q \in F, p.at = q.at PROVE p = q
  <2>1. PICK j \in K, k \in K : p = m[j] /\ q = m[k]
    BY <1>3
  <2>2. j \in 1 .. Len(m) /\ k \in 1 .. Len(m)
    BY <1>4
  <2>3. ~(m[j].at < m[k].at) /\ ~(m[k].at < m[j].at)
    BY <1>4, <1>7, <2>1 DEF Points
  <2>4. ~(j < k) /\ ~(k < j)
    BY <2>2, <2>3 DEF Rising
  <2>5. j = k
    BY <2>2, <2>4
  <2> QED BY <2>1, <2>5
<1> QED BY <1>5, <1>6, <1>7

\* The sequence of two parts, by its places.
LEMMA Joined ==
    ASSUME NEW r \in Seq(Points), NEW s \in Seq(Points)
    PROVE  /\ r \o s \in Seq(Points) /\ Len(r \o s) = Len(r) + Len(s)
           /\ \A k \in 1 .. Len(r) : (r \o s)[k] = r[k]
           /\ \A k \in 1 .. Len(s) : (r \o s)[Len(r) + k] = s[k]
           /\ \A k \in Len(r) + 1 .. Len(r) + Len(s) :
                  (r \o s)[k] = s[k - Len(r)] /\ k - Len(r) \in 1 .. Len(s)
BY ConcatProperties

\* Points that follow make no new cut among those that were there.
LEMMA Longer ==
    ASSUME NEW r \in Seq(Points), NEW t \in Seq(Points), Len(r) <= Len(t),
           \A k \in 1 .. Len(r) : t[k] = r[k]
    PROVE  Cuts(r) = {i \in Cuts(t) : i <= Len(r)}
<1>1. ASSUME NEW i \in 2 .. Len(r) PROVE i \in Cuts(r) <=> i \in Cuts(t)
  <2>1. i \in 1 .. Len(r) /\ i - 1 \in 1 .. Len(r) /\ i \in 2 .. Len(t)
    OBVIOUS
  <2>2. t[i] = r[i] /\ t[i-1] = r[i-1]
    BY <2>1
  <2> QED BY <2>1, <2>2 DEF Cuts
<1>2. \A i \in Cuts(r) : i \in 2 .. Len(r)
  BY DEF Cuts
<1>3. \A i \in Cuts(t) : i <= Len(r) => i \in 2 .. Len(r)
  BY DEF Cuts
<1> QED BY <1>1, <1>2, <1>3

\* The cuts of the end of a stream are cuts of the stream.
LEMMA EndCuts ==
    ASSUME NEW r \in Seq(Points), NEW m \in Seq(Points), NEW b \in Nat,
           Len(r) = b + Len(m), \A k \in 1 .. Len(m) : m[k] = r[b + k],
           NEW k \in 2 .. Len(m)
    PROVE  k \in Cuts(m) <=> b + k \in Cuts(r)
<1>1. m[k] = r[b + k] /\ m[k-1] = r[b + k - 1]
  <2>1. k \in 1 .. Len(m) /\ k - 1 \in 1 .. Len(m) /\ b + (k - 1) = b + k - 1
    OBVIOUS
  <2> QED BY <2>1
<1>2. b + k \in 2 .. Len(r)
  OBVIOUS
<1> QED BY <1>1, <1>2 DEF Cuts

\* Where the rotation before the cut at k begins.
LEMMA Previous ==
    ASSUME NEW r \in Seq(Points), NEW k \in Cuts(r)
    PROVE  LET M == Max({1} \cup {j \in Cuts(r) : j < k})
           IN  M \in 1 .. k - 1 /\ \A j \in Cuts(r) : j < k => j <= M
<1> DEFINE T == {1} \cup {j \in Cuts(r) : j < k}
<1>1. T \in SUBSET Nat /\ T # {} /\ k \in Nat /\ k >= 2 /\ \A x \in T : x <= k - 1 /\ x >= 1
  BY DEF Cuts
<1>2. k - 1 \in Nat
  BY <1>1
<1>3. Max(T) \in T /\ \A y \in T : y <= Max(T)
  <2> HIDE DEF T
  <2> QED BY <1>1, <1>2, MaxIs
<1>4. Max(T) \in 1 .. k - 1
  <2> HIDE DEF T
  <2>1. Max(T) \in Nat /\ Max(T) <= k - 1 /\ Max(T) >= 1
    BY <1>1, <1>3
  <2> QED BY <1>1, <2>1
<1>5. \A j \in Cuts(r) : j < k => j <= Max(T)
  BY <1>3
<1> QED BY <1>4, <1>5

\* A valid point before the first cut that makes a frame is in the frame, or
\* it starts a rotation before it.
LEMMA Dropped ==
    ASSUME NEW m \in Seq(Points), FrameCuts(m) # {},
           NEW j \in 1 .. FirstCut(m) - 1, m[j].valid
    PROVE  \/ m[j] \in FrameBefore(m, FirstCut(m))
           \/ j \in Cuts(m) /\ j < Start(m, FirstCut(m))
<1> DEFINE c == FirstCut(m)
<1>1. c \in Cuts(m) /\ c \in 1 .. Len(m) /\ \A i \in FrameCuts(m) : c <= i
  BY FirstCutIs
<1>2. Start(m, c) \in 1 .. c
      /\ (Start(m, c) # 1 => Start(m, c) - 1 \in Cuts(m))
  BY <1>1, StartIs
<1>3. CASE j >= Start(m, c)
  <2>1. j \in Start(m, c) .. c - 1
    BY <1>1, <1>2, <1>3
  <2> QED BY <1>1, <2>1, FrameIs
<1>4. CASE j < Start(m, c)
  <2> DEFINE T == {t \in Cuts(m) : j <= t /\ t < c}
  <2>1. Start(m, c) - 1 \in T
    BY <1>1, <1>2, <1>4
  <2>2. T \in SUBSET Nat /\ T # {}
    BY <2>1 DEF Cuts
  <2>3. PICK t \in T : \A u \in T : t <= u
    <3> HIDE DEF T
    <3> QED BY <2>2, Least
  <2>4. t \in Cuts(m) /\ j <= t /\ t < c /\ t \in 1 .. Len(m)
    BY <2>3 DEF Cuts
  <2>5. FrameBefore(m, t) = {}
    <3>1. t \notin FrameCuts(m)
      BY <1>1, <2>4
    <3> QED BY <2>4, <3>1 DEF FrameCuts
  <2>6. Start(m, t) <= j
    <3>1. /\ Start(m, t) \in 1 .. t
          /\ Start(m, t) # 1 => Start(m, t) - 1 \in Cuts(m)
      BY <2>4, StartIs
    <3>2. CASE Start(m, t) # 1 /\ Start(m, t) > j
      <4>1. Start(m, t) - 1 \in T
        BY <1>1, <2>4, <3>1, <3>2
      <4>2. t <= Start(m, t) - 1
        BY <2>3, <4>1
      <4> QED BY <3>1, <4>2, <2>4
    <3> QED BY <3>1, <3>2, <1>1
  <2>7. CASE j < t
    <3>1. j \in Start(m, t) .. t - 1
      <4>1. Start(m, t) \in 1 .. t
        BY <2>4, StartIs
      <4> QED BY <2>4, <2>6, <2>7, <4>1
    <3>2. m[j] \in FrameBefore(m, t)
      BY <2>4, <3>1, FrameIs
    <3> QED BY <2>5, <3>2
  <2>8. CASE j = t
    BY <1>4, <2>4, <2>8
  <2> QED BY <2>4, <2>7, <2>8
<1> QED BY <1>1, <1>2, <1>3, <1>4

\* Two points of a frame are of different rotations only if a point between
\* them is missing.
LEMMA FrameOfOneRotation ==
    ASSUME NEW m \in Seq(Points), Rising(m), NEW c \in Cuts(m),
           NEW p \in FrameBefore(m, c), NEW q \in FrameBefore(m, c),
           Rotation(p) < Rotation(q)
    PROVE  \E n \in p.at + 1 .. q.at - 1 : \A k \in 1 .. Len(m) : m[k].at # n
<1>1. c \in 1 .. Len(m)
  BY DEF Cuts
<1>2. Start(m, c) \in 1 .. c /\ \A j \in Cuts(m) : j < c => j < Start(m, c)
  BY <1>1, StartIs
<1>3. PICK a \in Start(m, c) .. c - 1, d \in Start(m, c) .. c - 1 : p = m[a] /\ q = m[d]
  BY FrameIs
<1>4. a \in 1 .. Len(m) /\ d \in 1 .. Len(m) /\ p \in Points /\ q \in Points
  BY <1>1, <1>2, <1>3
<1>5. PICK n \in Nat \ {0} : /\ p.at < n /\ n <= q.at
                             /\ n % Slots = 0 /\ (n - 1) % Slots = Slots - 1
  BY <1>4, Boundary
<1> SUFFICES ASSUME \A i \in p.at + 1 .. q.at - 1 : \E k \in 1 .. Len(m) : m[k].at = i
             PROVE  FALSE
  OBVIOUS
<1>6. p.at \in Nat /\ q.at \in Nat /\ \A k \in 1 .. Len(m) : m[k].at \in Nat
  <2>1. p.at \in Nat /\ q.at \in Nat
    BY <1>4 DEF Points
  <2>2. \A k \in 1 .. Len(m) : m[k] \in Points
    OBVIOUS
  <2>3. \A k \in 1 .. Len(m) : m[k].at \in Nat
    BY <2>2 DEF Points
  <2> QED BY <2>1, <2>3
<1>7. PICK x \in 1 .. Len(m) : m[x].at = n - 1
  <2>1. CASE n - 1 = p.at
    BY <1>3, <1>4, <2>1
  <2>2. CASE n - 1 # p.at
    <3>1. n - 1 \in p.at + 1 .. q.at - 1
      BY <1>5, <1>6, <2>2
    <3> QED BY <3>1
  <2> QED BY <2>1, <2>2
<1>8. PICK y \in 1 .. Len(m) : m[y].at = n
  <2>1. CASE n = q.at
    BY <1>3, <1>4, <2>1
  <2>2. CASE n # q.at
    <3>1. n \in p.at + 1 .. q.at - 1
      BY <1>5, <1>6, <2>2
    <3> QED BY <3>1
  <2> QED BY <2>1, <2>2
<1>9. \A j, k \in 1 .. Len(m) : m[j].at < m[k].at => j < k
  <2> SUFFICES ASSUME NEW j \in 1 .. Len(m), NEW k \in 1 .. Len(m), m[j].at < m[k].at, ~(j < k)
               PROVE  FALSE
    OBVIOUS
  <2>1. k < j \/ k = j
    OBVIOUS
  <2>2. k # j
    BY <1>6
  <2>3. m[k].at < m[j].at
    BY <2>1, <2>2 DEF Rising
  <2> QED BY <1>6, <2>3
<1>10. x < y /\ ~(x < a) /\ ~(d < y)
  <2>1. m[x].at < m[y].at
    BY <1>5, <1>7, <1>8
  <2>2. ~(m[x].at < m[a].at) /\ ~(m[d].at < m[y].at)
    BY <1>3, <1>5, <1>6, <1>7, <1>8
  <2>3. ~(x < a) /\ ~(d < y)
    BY <1>4, <2>2 DEF Rising
  <2> QED BY <1>9, <2>1, <2>3
<1>11. y = x + 1
  <2>1. CASE x + 1 < y
    <3>1. x + 1 \in 1 .. Len(m)
      BY <2>1
    <3>2. m[x].at < m[x+1].at /\ m[x+1].at < m[y].at
      BY <2>1, <3>1 DEF Rising
    <3> QED BY <1>5, <1>6, <1>7, <1>8, <3>1, <3>2
  <2> QED BY <1>10, <2>1
<1>12. y \in Cuts(m)
  <2>1. Angle(m[y]) = 0 /\ Angle(m[y-1]) = Slots - 1
    BY <1>5, <1>7, <1>8, <1>11 DEF Angle
  <2>2. y \in 2 .. Len(m)
    BY <1>11
  <2>3. Slots - 1 > 0 + CutDrop
    BY Ld08Assumption
  <2> QED BY <2>1, <2>2, <2>3 DEF Cuts
<1>13. y < c
  <2>1. d <= c - 1 /\ c \in Int /\ d \in Int
    BY <1>1, <1>2
  <2> QED BY <1>10, <2>1
<1>14. y < Start(m, c)
  BY <1>2, <1>12, <1>13
<1> QED BY <1>2, <1>3, <1>4, <1>10, <1>11, <1>14

-----------------------------------------------------------------------------
(* The steps.                                                              *)

\* What follows, and frames made of later points, leave BlindAt as it is.
LEMMA BlindStays ==
    ASSUME NEW r \in Seq(Points), NEW t \in Seq(Points), Len(r) <= Len(t),
           \A k \in 1 .. Len(r) : t[k] = r[k],
           NEW f, NEW g, NEW k \in 1 .. Len(r), BlindAt(r, f, k),
           \A n \in 1 .. k - 1 : r[n] \notin f => t[n] \notin g
    PROVE  BlindAt(t, g, k)
<1>1. k \in Cuts(t) /\ {j \in Cuts(t) : j < k} = {j \in Cuts(r) : j < k}
  BY Longer DEF BlindAt, Cuts
<1> DEFINE M == Max({1} \cup {j \in Cuts(r) : j < k})
<1>2. M \in 1 .. k - 1
  BY Previous DEF BlindAt
<1>3. M = Max({1} \cup {j \in Cuts(t) : j < k})
  BY <1>1
<1> HIDE DEF M
<1>4. ASSUME NEW n \in M .. k - 1 PROVE t[n] \notin g
  <2>1. n \in 1 .. k - 1
    BY <1>2
  <2>2. r[n] \notin f
    BY DEF BlindAt, M
  <2> QED BY <2>1, <2>2
<1> QED BY <1>1, <1>3, <1>4 DEF BlindAt

\* Before the first read there are no points.
LEMMA FramesInit == Init => FramesInv
<1> SUFFICES ASSUME Init PROVE FramesInv
  OBVIOUS
<1>1. /\ received = <<>> /\ sent \in 0 .. MaxPoints /\ mFrameTemp = <<>> /\ framed = {}
      /\ rx = "none" /\ main = "starting" /\ mIsFrameReady = FALSE
      /\ output = [serial |-> 0, frame |-> <<>>, whole |-> TRUE]
      /\ copy = output /\ published = output /\ late = FALSE
  BY Ld08Assumption DEF Init
<1>2. output \in Messages /\ output.serial = 0
  BY <1>1 DEF Messages
<1>3. TypeOK
  <2>1. received \in Seq(Points) /\ mFrameTemp \in Seq(Points) /\ framed \subseteq Points
    BY <1>1
  <2>2. output \in Messages /\ copy \in Messages /\ published \in Messages
    BY <1>1, <1>2
  <2>3. output.serial > 0 => output.frame # <<>>
    BY <1>2
  <2> QED BY <1>1, <2>1, <2>2, <2>3 DEF TypeOK
<1>4. Base = 0 /\ Len(received) = 0 /\ Len(mFrameTemp) = 0 /\ 1 .. 0 = {}
  BY <1>1 DEF Base
<1>5. ToSet(output.frame) = {}
  BY <1>1 DEF ToSet
<1> QED BY <1>1, <1>3, <1>4, <1>5
     DEF FramesInv, StreamRises, Rising, TempIsTheEnd, FrameIsThere, BaseIsACut,
         FramedIsBehind, BehindIsFramed, OutputIsReceived, OneRotationPerFrame,
         NoThreadYet

\* A read adds points that were sent later, at the end of received and of
\* mFrameTemp.
LEMMA FramesReceive ==
    ASSUME FramesInv, NEW chunk \in Chunks, Receive(chunk)
    PROVE  FramesInv'
<1> DEFINE s == Parsed(chunk, sent)
<1>1. /\ received \in Seq(Points) /\ mFrameTemp \in Seq(Points) /\ sent \in Nat
      /\ framed \subseteq Points
  BY Ld08Assumption DEF FramesInv, TypeOK
<1>2. /\ s \in Seq(Points) /\ Len(chunk) \in Nat
      /\ \A k \in 1 .. Len(s) : s[k].at \in sent .. sent + Len(chunk) - 1
      /\ Rising(s)
  BY <1>1, ParsedIs DEF Rising
<1>3. /\ rx = "reading" /\ sent + Len(chunk) <= MaxPoints /\ sent' = sent + Len(chunk)
      /\ received' = received \o s /\ mFrameTemp' = mFrameTemp \o s
      /\ UNCHANGED <<main, published, framed>>
  BY DEF Receive
<1> HIDE DEF s
<1>4. /\ received' \in Seq(Points) /\ Len(received') = Len(received) + Len(s)
      /\ \A k \in 1 .. Len(received) : received'[k] = received[k]
      /\ \A k \in Len(received) + 1 .. Len(received') :
             received'[k] = s[k - Len(received)] /\ k - Len(received) \in 1 .. Len(s)
  BY <1>1, <1>2, <1>3, Joined
<1>5. /\ mFrameTemp' \in Seq(Points) /\ Len(mFrameTemp') = Len(mFrameTemp) + Len(s)
      /\ \A k \in 1 .. Len(mFrameTemp) : mFrameTemp'[k] = mFrameTemp[k]
      /\ \A k \in Len(mFrameTemp) + 1 .. Len(mFrameTemp') :
             mFrameTemp'[k] = s[k - Len(mFrameTemp)] /\ k - Len(mFrameTemp) \in 1 .. Len(s)
  BY <1>1, <1>2, <1>3, Joined
<1>6. /\ rx' \in {"reading", "ended", "filling"}
      /\ rx' = "filling" => FrameCuts(mFrameTemp') # {}
      /\ output' \in Messages /\ output'.serial = output.serial /\ output'.frame = output.frame
      /\ copy' \in Messages /\ mIsFrameReady' \in BOOLEAN /\ late' \in BOOLEAN
  <2>1. /\ output \in Messages /\ copy \in Messages
        /\ mIsFrameReady \in BOOLEAN /\ late \in BOOLEAN /\ Behind \in BOOLEAN
    BY DEF FramesInv, TypeOK, Behind
  <2>2. CASE FrameCuts(mFrameTemp') # {} /\ StartFrame
    <3>1. [output EXCEPT !.whole = FALSE] \in Messages /\ Torn(copy) \in Messages
      BY <2>1 DEF Messages, Torn
    <3>2. /\ [output EXCEPT !.whole = FALSE].serial = output.serial
          /\ [output EXCEPT !.whole = FALSE].frame = output.frame
      BY <2>1 DEF Messages
    <3> QED BY <2>1, <2>2, <3>1, <3>2 DEF StartFrame
  <2>3. CASE RxContinues /\ UNCHANGED <<output, copy, mIsFrameReady, late>>
    BY <2>1, <2>3 DEF RxContinues
  <2> QED BY <2>2, <2>3 DEF Receive
<1>7. TypeOK'
  <2>1. sent' \in 0 .. MaxPoints
    BY <1>1, <1>2, <1>3, Ld08Assumption
  <2> QED BY <1>3, <1>4, <1>5, <1>6, <2>1 DEF FramesInv, TypeOK
<1>8. StreamRises'
  <2>1. \A k \in 1 .. Len(received') : received'[k].at < sent' /\ received'[k].at \in Nat
    <3> SUFFICES ASSUME NEW k \in 1 .. Len(received')
                 PROVE  received'[k].at < sent' /\ received'[k].at \in Nat
      OBVIOUS
    <3>1. received'[k] \in Points
      BY <1>4
    <3>2. received'[k].at \in Nat
      BY <3>1 DEF Points
    <3>3. CASE k \in 1 .. Len(received)
      BY <1>1, <1>2, <1>3, <1>4, <3>2, <3>3 DEF FramesInv, StreamRises
    <3>4. CASE k \in Len(received) + 1 .. Len(received')
      BY <1>1, <1>2, <1>3, <1>4, <3>2, <3>4, SMTT(40)
    <3> QED BY <1>1, <1>2, <1>4, <3>3, <3>4
  <2>2. ASSUME NEW j \in 1 .. Len(received'), NEW k \in 1 .. Len(received'), j < k
        PROVE  received'[j].at < received'[k].at
    <3>1. CASE k <= Len(received)
      <4>1. j \in 1 .. Len(received) /\ k \in 1 .. Len(received)
        BY <1>1, <2>2, <3>1
      <4> QED BY <1>4, <2>2, <4>1 DEF FramesInv, StreamRises, Rising
    <3>2. CASE j <= Len(received) /\ k > Len(received)
      <4>1. j \in 1 .. Len(received) /\ k \in Len(received) + 1 .. Len(received')
        BY <1>1, <1>4, <3>2
      <4>2. received'[j].at < sent
        BY <1>4, <4>1 DEF FramesInv, StreamRises
      <4>3. received'[k].at \in sent .. sent + Len(chunk) - 1
        BY <1>2, <1>4, <4>1
      <4> QED BY <1>1, <1>2, <2>1, <4>2, <4>3
    <3>3. CASE j > Len(received)
      <4>1. j \in Len(received) + 1 .. Len(received') /\ k \in Len(received) + 1 .. Len(received')
        BY <1>1, <1>4, <2>2, <3>3
      <4>2. j - Len(received) < k - Len(received)
        BY <1>1, <2>2
      <4> QED BY <1>2, <1>4, <4>1, <4>2 DEF Rising
    <3> QED BY <1>1, <3>1, <3>2, <3>3
  <2> QED BY <2>1, <2>2 DEF StreamRises, Rising
<1>9. Base' = Base /\ Base \in Nat
  BY <1>1, <1>2, <1>4, <1>5 DEF Base, FramesInv, TempIsTheEnd
<1>10. Len(received) = Base + Len(mFrameTemp)
  BY <1>1 DEF Base
<1>11. TempIsTheEnd'
  <2>1. Len(mFrameTemp') <= Len(received')
    BY <1>1, <1>2, <1>4, <1>5, <1>9, <1>10
  <2>2. ASSUME NEW k \in 1 .. Len(mFrameTemp') PROVE mFrameTemp'[k] = received'[Base + k]
    <3>1. CASE k \in 1 .. Len(mFrameTemp)
      <4>1. Base + k \in 1 .. Len(received)
        BY <1>1, <1>9, <1>10, <3>1
      <4> QED BY <1>4, <1>5, <3>1, <4>1 DEF FramesInv, TempIsTheEnd
    <3>2. CASE k \in Len(mFrameTemp) + 1 .. Len(mFrameTemp')
      <4>1. /\ Base + k \in Len(received) + 1 .. Len(received')
            /\ Base + k - Len(received) = k - Len(mFrameTemp)
        BY <1>1, <1>2, <1>4, <1>5, <1>9, <1>10, <3>2
      <4>2. PICK h \in Len(received) + 1 .. Len(received') : h = Base + k
        BY <4>1
      <4>4. received'[h] = s[h - Len(received)]
        BY <1>4
      <4>3. mFrameTemp'[k] = s[k - Len(mFrameTemp)]
        BY <1>5, <3>2
      <4>5. h - Len(received) = k - Len(mFrameTemp)
        BY <1>1, <1>9, <4>1, <4>2
      <4> QED BY <4>2, <4>3, <4>4, <4>5
    <3> QED BY <1>1, <1>2, <1>5, <3>1, <3>2
  <2> QED BY <1>9, <2>1, <2>2 DEF TempIsTheEnd
<1>12. FrameIsThere'
  BY <1>6 DEF FrameIsThere
<1>13. BaseIsACut'
  <2>1. Len(received) <= Len(received')
    BY <1>1, <1>2, <1>4
  <2>2. Cuts(received) \subseteq Cuts(received')
    BY <1>1, <1>4, <2>1, Longer
  <2> QED BY <1>9, <2>2 DEF FramesInv, BaseIsACut
<1>14. \A k \in 1 .. Base : k \in 1 .. Len(received) /\ received'[k] = received[k]
  BY <1>1, <1>4, <1>9, <1>10
<1>15. FramedIsBehind'
  <2>1. \A p \in framed : \E k \in 1 .. Base : p = received[k]
    BY <1>3 DEF FramesInv, FramedIsBehind
  <2> QED BY <1>3, <1>6, <1>9, <1>14, <2>1 DEF FramedIsBehind
<1>16. BehindIsFramed'
  <2> SUFFICES ASSUME NEW k \in 1 .. Base, received'[k].valid, received'[k] \notin framed'
               PROVE  BlindAt(received', framed', k)
    BY <1>9 DEF BehindIsFramed
  <2>1. BlindAt(received, framed, k) /\ k \in 1 .. Len(received)
    BY <1>3, <1>14 DEF FramesInv, BehindIsFramed
  <2>2. \A n \in 1 .. k - 1 : received[n] \notin framed => received'[n] \notin framed'
    BY <1>3, <1>14, <1>9
  <2>3. Len(received) <= Len(received')
    BY <1>1, <1>2, <1>4
  <2> QED BY <1>1, <1>4, <2>1, <2>2, <2>3, BlindStays
<1>17. ToSet(received) \subseteq ToSet(received')
       /\ \A p \in ToSet(received') : p \in ToSet(received) \/ (p.at \in Nat /\ p.at >= sent)
  <2>1. \A k \in 1 .. Len(received) : k \in 1 .. Len(received') /\ received'[k] = received[k]
    BY <1>1, <1>2, <1>4
  <2>2. ToSet(received) \subseteq ToSet(received')
    BY <1>1, <1>4, <2>1 DEF ToSet
  <2>3. ASSUME NEW k \in 1 .. Len(received')
        PROVE  \/ received'[k] \in ToSet(received)
               \/ received'[k].at \in Nat /\ received'[k].at >= sent
    <3>1. CASE k \in 1 .. Len(received)
      BY <1>1, <1>4, <3>1 DEF ToSet
    <3>2. CASE k \in Len(received) + 1 .. Len(received')
      <4>1. received'[k].at \in sent .. sent + Len(chunk) - 1
        BY <1>2, <1>4, <3>2
      <4> QED BY <1>1, <1>2, <4>1
    <3> QED BY <1>1, <1>2, <1>4, <3>1, <3>2
  <2>4. ASSUME NEW p \in ToSet(received')
        PROVE  p \in ToSet(received) \/ (p.at \in Nat /\ p.at >= sent)
    <3>1. PICK k \in 1 .. Len(received') : p = received'[k]
      BY <1>4 DEF ToSet
    <3> QED BY <2>3, <3>1
  <2> QED BY <2>2, <2>4
<1>18. OutputIsReceived'
  BY <1>6, <1>17 DEF FramesInv, OutputIsReceived, ToSet
<1>19. OneRotationPerFrame'
  <2> SUFFICES ASSUME NEW p \in ToSet(output.frame), NEW q \in ToSet(output.frame),
                      Rotation(p) < Rotation(q)
               PROVE  \E n \in p.at + 1 .. q.at - 1 : \A r \in ToSet(received') : r.at # n
    BY <1>6 DEF OneRotationPerFrame, ToSet
  <2>1. PICK n \in p.at + 1 .. q.at - 1 : \A r \in ToSet(received) : r.at # n
    BY DEF FramesInv, OneRotationPerFrame
  <2>2. q \in ToSet(received) /\ p \in ToSet(received)
    BY DEF FramesInv, OutputIsReceived
  <2>3. q.at \in Nat /\ q.at < sent /\ p.at \in Nat
    <3>1. PICK j \in 1 .. Len(received), k \in 1 .. Len(received) :
              p = received[j] /\ q = received[k]
      BY <1>1, <2>2 DEF ToSet
    <3>2. p \in Points /\ q \in Points
      BY <1>1, <3>1
    <3> QED BY <3>1, <3>2 DEF Points, FramesInv, StreamRises
  <2>4. n < sent
    BY <1>1, <2>3
  <2>5. \A r \in ToSet(received') : r.at # n
    BY <1>1, <1>17, <2>1, <2>3, <2>4
  <2> QED BY <2>5
<1>20. NoThreadYet'
  BY <1>3 DEF FramesInv, NoThreadYet
<1> QED BY <1>7, <1>8, <1>11, <1>12, <1>13, <1>15, <1>16, <1>18, <1>19, <1>20 DEF FramesInv

\* What the conjuncts say of the frame that comes next.
LEMMA NextFrameIs ==
    ASSUME FramesInv, FrameCuts(mFrameTemp) # {}
    PROVE  /\ Base \in Nat /\ Len(received) = Base + Len(mFrameTemp)
           /\ FirstCut(mFrameTemp) \in Cuts(mFrameTemp)
           /\ FirstCut(mFrameTemp) \in 2 .. Len(mFrameTemp)
           /\ Rising(mFrameTemp) /\ NextFrame # {} /\ NextFrame \in SUBSET Points
           /\ IsFiniteSet(NextFrame) /\ \A p, q \in NextFrame : p.at = q.at => p = q
           /\ \A p \in NextFrame :
                  \E k \in Start(mFrameTemp, FirstCut(mFrameTemp)) .. FirstCut(mFrameTemp) - 1 :
                     p = mFrameTemp[k] /\ p = received[Base + k]
           /\ Start(mFrameTemp, FirstCut(mFrameTemp)) \in 1 .. FirstCut(mFrameTemp)
<1> DEFINE c == FirstCut(mFrameTemp)
<1>1. /\ received \in Seq(Points) /\ mFrameTemp \in Seq(Points)
      /\ Len(mFrameTemp) <= Len(received)
      /\ \A k \in 1 .. Len(mFrameTemp) : mFrameTemp[k] = received[Base + k]
  BY DEF FramesInv, TypeOK, TempIsTheEnd
<1>2. Base \in Nat /\ Len(received) = Base + Len(mFrameTemp)
  BY <1>1 DEF Base
<1>3. c \in Cuts(mFrameTemp) /\ c \in 2 .. Len(mFrameTemp) /\ NextFrame # {}
  BY <1>1, FirstCutIs DEF NextFrame
<1>4. Rising(mFrameTemp)
  <2> SUFFICES ASSUME NEW j \in 1 .. Len(mFrameTemp), NEW k \in 1 .. Len(mFrameTemp), j < k
               PROVE  mFrameTemp[j].at < mFrameTemp[k].at
    BY DEF Rising
  <2>1. Base + j \in 1 .. Len(received) /\ Base + k \in 1 .. Len(received) /\ Base + j < Base + k
    BY <1>1, <1>2
  <2>2. received[Base + j].at < received[Base + k].at
    BY <2>1 DEF FramesInv, StreamRises, Rising
  <2> QED BY <1>1, <2>2
<1>5. c \in 1 .. Len(mFrameTemp) /\ Start(mFrameTemp, c) \in 1 .. c
  BY <1>1, <1>3, StartIs
<1>6. ASSUME NEW p \in NextFrame
      PROVE  \E k \in Start(mFrameTemp, c) .. c - 1 : p = mFrameTemp[k] /\ p = received[Base + k]
  <2>1. PICK k \in Start(mFrameTemp, c) .. c - 1 : p = mFrameTemp[k]
    BY <1>1, <1>3, FrameIs DEF NextFrame
  <2>2. k \in 1 .. Len(mFrameTemp)
    BY <1>1, <1>3, <1>5
  <2> QED BY <1>1, <2>1, <2>2
<1>7. /\ NextFrame \in SUBSET Points /\ IsFiniteSet(NextFrame)
      /\ \A p, q \in NextFrame : p.at = q.at => p = q
  BY <1>1, <1>3, <1>4, FrameIsSet DEF NextFrame
<1> QED BY <1>2, <1>3, <1>4, <1>5, <1>6, <1>7

\* The frame is made of points that were in no frame, of one rotation unless a
\* point between them was lost.
LEMMA FramesToLaserscan ==
    ASSUME FramesInv, ToLaserscan
    PROVE  FramesInv'
<1> DEFINE c == FirstCut(mFrameTemp)
<1>1. /\ received \in Seq(Points) /\ mFrameTemp \in Seq(Points) /\ framed \subseteq Points
      /\ copy \in Messages /\ output \in Messages
  BY DEF FramesInv, TypeOK
<1>2. /\ rx = "filling" /\ rx' = "flagging"
      /\ output' = [serial |-> output.serial + 1, whole |-> TRUE, frame |-> Sorted(NextFrame)]
      /\ framed' = framed \cup ToSet(output'.frame)
      /\ copy' = Torn(copy)
      /\ UNCHANGED <<received, sent, mFrameTemp, mIsFrameReady, main, published, late>>
  BY DEF ToLaserscan, NextFrame
<1>3. FrameCuts(mFrameTemp) # {}
  BY <1>2 DEF FramesInv, FrameIsThere
<1>4. /\ Base \in Nat /\ Len(received) = Base + Len(mFrameTemp)
      /\ c \in Cuts(mFrameTemp) /\ c \in 2 .. Len(mFrameTemp)
      /\ Rising(mFrameTemp) /\ NextFrame # {} /\ NextFrame \in SUBSET Points
      /\ IsFiniteSet(NextFrame) /\ \A p, q \in NextFrame : p.at = q.at => p = q
      /\ \A p \in NextFrame :
             \E k \in Start(mFrameTemp, c) .. c - 1 : p = mFrameTemp[k] /\ p = received[Base + k]
      /\ Start(mFrameTemp, c) \in 1 .. c
  BY <1>3, NextFrameIs
<1>5. /\ Sorted(NextFrame) \in Seq(Points) /\ ToSet(Sorted(NextFrame)) = NextFrame
      /\ Sorted(NextFrame) # <<>>
  BY <1>4, SortedIs
<1>6. /\ output'.frame = Sorted(NextFrame) /\ output'.serial \in Nat
      /\ output' \in Messages /\ framed' = framed \cup NextFrame
  <2>1. output.serial + 1 \in Nat
    BY <1>1 DEF Messages
  <2> QED BY <1>2, <1>5, <2>1 DEF Messages
<1>7. Base' = Base /\ NextFrame' = NextFrame
  BY <1>2 DEF Base, NextFrame
<1>8. TypeOK'
  <2>1. copy' \in Messages
    BY <1>1, <1>2 DEF Torn, Messages
  <2>2. framed' \subseteq Points
    BY <1>1, <1>4, <1>6
  <2> QED BY <1>2, <1>5, <1>6, <2>1, <2>2 DEF FramesInv, TypeOK
<1>9. (StreamRises /\ TempIsTheEnd /\ BaseIsACut)'
  BY <1>2, <1>7 DEF FramesInv, StreamRises, TempIsTheEnd, BaseIsACut
<1>10. FrameIsThere'
  BY <1>2, <1>3 DEF FrameIsThere
<1>11. FramedIsBehind'
  BY <1>2, <1>6, <1>7 DEF FramesInv, FramedIsBehind
<1>12. BehindIsFramed'
  <2> SUFFICES ASSUME NEW k \in 1 .. Base, received[k].valid, received[k] \notin framed'
               PROVE  BlindAt(received, framed', k)
    BY <1>2, <1>7 DEF BehindIsFramed
  <2>1. BlindAt(received, framed, k) /\ k \in 1 .. Len(received)
    BY <1>1, <1>4, <1>6 DEF FramesInv, BehindIsFramed
  <2>2. ASSUME NEW n \in 1 .. k - 1, received[n] \in NextFrame PROVE FALSE
    <3>1. PICK j \in Start(mFrameTemp, c) .. c - 1 : received[n] = received[Base + j]
      BY <1>4, <2>2
    <3>2. n \in 1 .. Len(received) /\ Base + j \in 1 .. Len(received) /\ n < Base + j
      BY <1>1, <1>4, <2>1
    <3>3. received[n].at < received[Base + j].at
      BY <3>2 DEF FramesInv, StreamRises, Rising
    <3>4. received[n] \in Points
      BY <1>1, <3>2
    <3> QED BY <3>1, <3>3, <3>4 DEF Points
  <2>3. \A n \in 1 .. k - 1 : received[n] \notin framed => received[n] \notin framed'
    BY <1>6, <2>2
  <2> QED BY <1>1, <2>1, <2>3, BlindStays
<1>13. OutputIsReceived'
  <2>1. ASSUME NEW p \in NextFrame PROVE p \in ToSet(received)
    <3>1. PICK k \in Start(mFrameTemp, c) .. c - 1 : p = received[Base + k]
      BY <1>4
    <3>2. Base + k \in 1 .. Len(received)
      BY <1>1, <1>4
    <3> QED BY <1>1, <3>1, <3>2 DEF ToSet
  <2> QED BY <1>2, <1>5, <1>6, <2>1 DEF OutputIsReceived
<1>14. OneRotationPerFrame'
  <2> SUFFICES ASSUME NEW p \in NextFrame, NEW q \in NextFrame, Rotation(p) < Rotation(q)
               PROVE  \E n \in p.at + 1 .. q.at - 1 : \A r \in ToSet(received) : r.at # n
    BY <1>2, <1>5, <1>6 DEF OneRotationPerFrame
  <2>1. PICK n \in p.at + 1 .. q.at - 1 : \A k \in 1 .. Len(mFrameTemp) : mFrameTemp[k].at # n
    BY <1>1, <1>4, FrameOfOneRotation DEF NextFrame
  <2>2. ASSUME NEW i \in 1 .. Len(received), received[i].at = n PROVE FALSE
    <3>1. PICK k \in Start(mFrameTemp, c) .. c - 1 : p = received[Base + k]
      BY <1>4
    <3>2. Base + k \in 1 .. Len(received) /\ k >= 1
      BY <1>1, <1>4
    <3>3. p \in Points /\ p.at \in Nat /\ q.at \in Nat
      BY <1>4 DEF Points
    <3>4. CASE i <= Base
      <4>1. i < Base + k
        BY <1>1, <1>4, <3>2, <3>4
      <4>2. received[i].at < p.at
        BY <3>1, <3>2, <4>1 DEF FramesInv, StreamRises, Rising
      <4> QED BY <2>2, <3>3, <4>2
    <3>5. CASE i > Base
      <4>1. i - Base \in 1 .. Len(mFrameTemp) /\ Base + (i - Base) = i
        BY <1>1, <1>4, <3>5
      <4>2. mFrameTemp[i - Base] = received[i]
        BY <4>1 DEF FramesInv, TempIsTheEnd
      <4> QED BY <2>1, <2>2, <4>1, <4>2
    <3> QED BY <1>1, <1>4, <3>4, <3>5
  <2> QED BY <1>1, <2>1, <2>2 DEF ToSet
<1>15. NoThreadYet'
  BY <1>2 DEF FramesInv, NoThreadYet
<1> QED BY <1>8, <1>9, <1>10, <1>11, <1>12, <1>13, <1>14, <1>15 DEF FramesInv

\* What is erased went into the frame, but the first point of a rotation that
\* gave the frames nothing.
LEMMA FramesFrameReady ==
    ASSUME FramesInv, FrameReady
    PROVE  FramesInv'
<1> DEFINE c == FirstCut(mFrameTemp)
<1>1. /\ received \in Seq(Points) /\ mFrameTemp \in Seq(Points) /\ framed \subseteq Points
  BY DEF FramesInv, TypeOK
<1>2. /\ rx = "flagging" /\ rx' \in {"reading", "ended"} /\ mIsFrameReady' = TRUE
      /\ mFrameTemp' = SubSeq(mFrameTemp, c, Len(mFrameTemp))
      /\ UNCHANGED <<received, sent, output, main, copy, published, framed, late>>
  BY DEF FrameReady, RxContinues, Rest, mainVars
<1>3. FrameCuts(mFrameTemp) # {}
  BY <1>2 DEF FramesInv, FrameIsThere
<1>4. /\ Base \in Nat /\ Len(received) = Base + Len(mFrameTemp)
      /\ c \in Cuts(mFrameTemp) /\ c \in 2 .. Len(mFrameTemp)
      /\ \A p \in NextFrame :
             \E k \in Start(mFrameTemp, c) .. c - 1 : p = mFrameTemp[k] /\ p = received[Base + k]
      /\ Start(mFrameTemp, c) \in 1 .. c
  BY <1>3, NextFrameIs
<1>5. /\ mFrameTemp' \in Seq(Points) /\ Len(mFrameTemp') = Len(mFrameTemp) - c + 1
      /\ \A k \in 1 .. Len(mFrameTemp') : mFrameTemp'[k] = mFrameTemp[c + k - 1]
  <2>1. c \in 1 .. Len(mFrameTemp) + 1 /\ Len(mFrameTemp) \in 0 .. Len(mFrameTemp)
        /\ c <= Len(mFrameTemp)
    BY <1>1, <1>4
  <2> QED BY <1>1, <1>2, <2>1, SubSeqProperties
<1>6. Base' = Base + c - 1 /\ Base' \in Nat
  <2>1. Base' = Len(received) - (Len(mFrameTemp) - c + 1)
    BY <1>2, <1>5 DEF Base
  <2> HIDE DEF c
  <2>2. Len(mFrameTemp) \in Nat /\ c \in Nat /\ c >= 1
    BY <1>1, <1>4
  <2> QED BY <1>4, <2>1, <2>2
<1>7. TypeOK'
  BY <1>2, <1>5 DEF FramesInv, TypeOK
<1>8. StreamRises' /\ OutputIsReceived' /\ OneRotationPerFrame'
  BY <1>2 DEF FramesInv, StreamRises, OutputIsReceived, OneRotationPerFrame
<1>9. TempIsTheEnd'
  <2>1. ASSUME NEW k \in 1 .. Len(mFrameTemp') PROVE mFrameTemp'[k] = received[Base + c - 1 + k]
    <3>1. /\ c + k - 1 \in 1 .. Len(mFrameTemp) /\ Base + (c + k - 1) = Base + c - 1 + k
      BY <1>1, <1>4, <1>5
    <3>2. mFrameTemp[c + k - 1] = received[Base + (c + k - 1)]
      BY <3>1 DEF FramesInv, TempIsTheEnd
    <3> QED BY <1>5, <3>1, <3>2
  <2>2. Len(mFrameTemp') <= Len(received)
    BY <1>1, <1>4, <1>5
  <2> QED BY <1>2, <1>6, <2>1, <2>2 DEF TempIsTheEnd
<1>10. FrameIsThere'
  BY <1>2 DEF FrameIsThere
<1>11. BaseIsACut'
  <2>1. Base + c \in Cuts(received)
    BY <1>1, <1>4, EndCuts DEF FramesInv, TempIsTheEnd
  <2>2. Base' + 1 = Base + c
    BY <1>4, <1>6
  <2> QED BY <1>2, <2>1, <2>2 DEF BaseIsACut
<1>12. FramedIsBehind'
  <2>1. ASSUME NEW p \in framed PROVE \E k \in 1 .. Base' : p = received[k]
    <3>1. CASE \E k \in 1 .. Base : p = received[k]
      BY <1>4, <1>6, <3>1
    <3>2. CASE p \in NextFrame
      <4>1. PICK k \in Start(mFrameTemp, c) .. c - 1 : p = received[Base + k]
        BY <1>4, <3>2
      <4>2. Base + k \in 1 .. Base'
        BY <1>4, <1>6
      <4> QED BY <4>1, <4>2
    <3> QED BY <3>1, <3>2 DEF FramesInv, FramedIsBehind
  <2> QED BY <1>2, <2>1 DEF FramedIsBehind
<1>13. BehindIsFramed'
  <2> SUFFICES ASSUME NEW k \in 1 .. Base', received[k].valid, received[k] \notin framed
               PROVE  BlindAt(received, framed, k)
    BY <1>2 DEF BehindIsFramed
  <2>1. CASE k <= Base
    <3>1. k \in 1 .. Base
      BY <1>4, <1>6, <2>1
    <3> QED BY <3>1 DEF FramesInv, BehindIsFramed
  <2>2. CASE k > Base
    <3> DEFINE j == k - Base
    <3>1. j \in 1 .. c - 1 /\ k = Base + j /\ j \in 1 .. Len(mFrameTemp) /\ j \in Nat
      BY <1>1, <1>4, <1>6, <2>2
    <3>2. mFrameTemp[j] = received[k]
      BY <3>1 DEF FramesInv, TempIsTheEnd
    <3> HIDE DEF j
    <3>3. mFrameTemp[j] \notin NextFrame
      BY <1>2, <3>2 DEF FramesInv, FramedIsBehind
    <3>4. j \in Cuts(mFrameTemp) /\ j < Start(mFrameTemp, c)
      BY <1>1, <1>3, <3>1, <3>2, <3>3, Dropped DEF NextFrame
    <3>5. j \in 2 .. Len(mFrameTemp)
      BY <3>4 DEF Cuts
    <3>6. k \in Cuts(received)
      BY <1>1, <1>4, <3>1, <3>4, <3>5, EndCuts DEF FramesInv, TempIsTheEnd
    <3> DEFINE M == Max({1} \cup {i \in Cuts(received) : i < k})
    <3>7. M \in 1 .. k - 1 /\ \A i \in Cuts(received) : i < k => i <= M
      BY <1>1, <3>6, Previous
    <3> HIDE DEF M
    <3>8. M >= Base + 1
      <4>1. CASE Base = 0
        BY <3>7, <4>1
      <4>2. CASE Base > 0
        <5>1. Base + 1 \in Cuts(received)
          BY <4>2 DEF FramesInv, BaseIsACut
        <5>2. Base + 1 < k
          BY <1>4, <3>1, <3>5
        <5> QED BY <3>7, <5>1, <5>2
      <4> QED BY <1>4, <4>1, <4>2
    <3>9. ASSUME NEW n \in M .. k - 1, received[n] \in framed PROVE FALSE
      <4>1. n \in 1 .. Len(received) /\ Base < n /\ n < k
        BY <1>1, <1>4, <3>1, <3>7, <3>8
      <4>2. received[n].at \in Nat
        <5>1. received[n] \in Points
          BY <1>1, <4>1
        <5> QED BY <5>1 DEF Points
      <4>3. PICK i \in 1 .. Len(received) : received[n] = received[i] /\ (i < n \/ n < i)
        <5>1. CASE \E i \in 1 .. Base : received[n] = received[i]
          <6>1. PICK i \in 1 .. Base : received[n] = received[i]
            BY <5>1
          <6>2. i \in 1 .. Len(received) /\ i < n
            BY <1>1, <1>4, <4>1
          <6> QED BY <6>1, <6>2
        <5>2. CASE received[n] \in NextFrame
          <6>1. PICK i \in Start(mFrameTemp, c) .. c - 1 : received[n] = received[Base + i]
            BY <1>4, <5>2
          <6>2. Base + i \in 1 .. Len(received) /\ n < Base + i
            BY <1>1, <1>4, <3>1, <3>4, <4>1
          <6> QED BY <6>1, <6>2
        <5> QED BY <3>9, <5>1, <5>2 DEF FramesInv, FramedIsBehind
      <4>4. received[i].at < received[n].at \/ received[n].at < received[i].at
        BY <4>1, <4>3 DEF FramesInv, StreamRises, Rising
      <4> QED BY <4>2, <4>3, <4>4
    <3> QED BY <3>6, <3>9 DEF BlindAt, M
  <2> QED BY <1>4, <1>6, <2>1, <2>2
<1>14. NoThreadYet'
  BY <1>2 DEF FramesInv, NoThreadYet
<1> QED BY <1>7, <1>8, <1>9, <1>10, <1>11, <1>12, <1>13, <1>14 DEF FramesInv

\* The other steps leave the points and the frames alone.
LEMMA FramesStay ==
    ASSUME FramesInv, TypeOK', rx' \in {rx, "none", "reading", "ended"},
           rx # "flagging" \/ rx' = rx,
           NoThreadYet',
           UNCHANGED <<received, sent, mFrameTemp, output, framed>>
    PROVE  FramesInv'
<1>1. Base' = Base /\ NextFrame' = NextFrame
  BY DEF Base, NextFrame
<1>2. (rx' = "flagging" => rx = "flagging") /\ (rx = "flagging" => rx' = "flagging")
      /\ (rx' = "filling" => rx = "filling")
  OBVIOUS
<1>3. (StreamRises /\ TempIsTheEnd /\ BaseIsACut /\ OutputIsReceived /\ OneRotationPerFrame)'
  BY <1>1 DEF FramesInv, StreamRises, TempIsTheEnd, BaseIsACut, OutputIsReceived,
              OneRotationPerFrame
<1>4. FrameIsThere'
  BY <1>2 DEF FramesInv, FrameIsThere
<1>5. FramedIsBehind' /\ BehindIsFramed'
  BY <1>1, <1>2 DEF FramesInv, FramedIsBehind, BehindIsFramed
<1> QED BY <1>3, <1>4, <1>5 DEF FramesInv

\* Every step keeps the invariant.
LEMMA FramesStep == FramesInv /\ [Next]_vars => FramesInv'
<1> SUFFICES ASSUME FramesInv, [Next]_vars PROVE FramesInv'
  OBVIOUS
<1>1. CASE \E chunk \in Chunks : Receive(chunk)
  BY <1>1, FramesReceive
<1>2. CASE ToLaserscan
  BY <1>2, FramesToLaserscan
<1>3. CASE FrameReady
  BY <1>3, FramesFrameReady
<1>4. CASE ReadNothing \/ HandleGone
  <2>1. /\ rx = "reading" /\ rx' \in {"reading", "ended"}
        /\ UNCHANGED <<received, sent, mFrameTemp, output, framed>>
        /\ UNCHANGED <<mIsFrameReady, copy, published, late>> /\ main' \in {main, "aborted"}
    BY <1>4 DEF ReadNothing, HandleGone, RxContinues, Main, mainVars
  <2>2. TypeOK'
    BY <2>1 DEF FramesInv, TypeOK
  <2>3. NoThreadYet'
    BY <2>1 DEF FramesInv, NoThreadYet
  <2> QED BY <2>1, <2>2, <2>3, FramesStay
<1>5. CASE NoDevice \/ Shutdown \/ PortNext
  <2>1. /\ UNCHANGED <<received, sent, mFrameTemp, output, framed, rx>>
        /\ UNCHANGED <<mIsFrameReady, copy, published, late>>
        /\ main' \in {"returned", "closing", "poll", "joining"}
    BY <1>5 DEF NoDevice, Shutdown, PortNext, Opened, Close, Join, Main
  <2>2. TypeOK'
    BY <2>1 DEF FramesInv, TypeOK
  <2>3. NoThreadYet'
    BY <2>1 DEF FramesInv, NoThreadYet
  <2> QED BY <2>1, <2>2, <2>3, FramesStay
<1>6. ASSUME NEW ok \in BOOLEAN, Open(ok) PROVE FramesInv'
  <2>1. /\ UNCHANGED <<received, sent, mFrameTemp, output, framed>>
        /\ UNCHANGED <<mIsFrameReady, copy, published, late>>
        /\ main' \in {"started", "poll"} /\ rx' \in {rx, "reading"}
        /\ main = "starting"
    BY <1>6 DEF Open, Main
  <2>2. TypeOK'
    BY <2>1 DEF FramesInv, TypeOK
  <2>3. rx = "none" /\ NoThreadYet'
    BY <2>1 DEF FramesInv, NoThreadYet
  <2> QED BY <2>1, <2>2, <2>3, FramesStay
<1>7. CASE LoopNext
  <2>1. /\ UNCHANGED <<received, sent, mFrameTemp, output, framed, rx>>
        /\ mIsFrameReady' \in {mIsFrameReady, FALSE} /\ copy' \in {copy, output}
        /\ late' = late
        /\ published' \in {published, copy}
        /\ main' \in {"stamped", "copying", "published", "poll"}
    BY <1>7 DEF LoopNext, Poll, GetLaserScan, Publish, ResetFrameReady
  <2>2. TypeOK'
    BY <2>1 DEF FramesInv, TypeOK
  <2>3. NoThreadYet'
    BY <2>1 DEF FramesInv, NoThreadYet
  <2> QED BY <2>1, <2>2, <2>3, FramesStay
<1>8. CASE Sleep \/ Ended \/ UNCHANGED vars
  <2>1. UNCHANGED vars
    BY <1>8 DEF Sleep, Ended
  <2>2. TypeOK'
    BY <2>1 DEF FramesInv, TypeOK, vars
  <2>3. NoThreadYet'
    BY <2>1 DEF FramesInv, NoThreadYet, vars
  <2> QED BY <2>1, <2>2, <2>3, FramesStay DEF vars
<1> QED BY <1>1, <1>2, <1>3, <1>4, <1>5, <1>6, <1>7, <1>8 DEF Next, RxNext, RxProgress

\* What is behind mFrameTemp is in a frame, or was dropped with the cut.
LEMMA KeptByInv == FramesInv => PointsAreKept
<1> SUFFICES ASSUME FramesInv, rx \in {"reading", "ended"}
             PROVE  /\ \A p \in ToSet(received) :
                          p.valid => \/ p \in framed \cup ToSet(mFrameTemp)
                                     \/ AfterBlindRotation(p)
                    /\ framed \cap ToSet(mFrameTemp) = {}
  BY DEF PointsAreKept
<1>1. /\ received \in Seq(Points) /\ mFrameTemp \in Seq(Points)
      /\ Len(mFrameTemp) <= Len(received)
      /\ \A k \in 1 .. Len(mFrameTemp) : mFrameTemp[k] = received[Base + k]
  BY DEF FramesInv, TypeOK, TempIsTheEnd
<1>2. Base \in Nat /\ Len(received) = Base + Len(mFrameTemp)
  BY <1>1 DEF Base
<1>3. ASSUME NEW p \in ToSet(received), p.valid, p \notin framed, p \notin ToSet(mFrameTemp)
      PROVE  AfterBlindRotation(p)
  <2>1. PICK k \in 1 .. Len(received) : p = received[k]
    BY <1>1 DEF ToSet
  <2>2. k <= Base
    <3>1. CASE k > Base
      <4>1. k - Base \in 1 .. Len(mFrameTemp) /\ Base + (k - Base) = k
        BY <1>1, <1>2, <3>1
      <4>2. mFrameTemp[k - Base] = p
        BY <1>1, <2>1, <4>1
      <4> QED BY <1>1, <1>3, <4>1, <4>2 DEF ToSet
    <3> QED BY <1>1, <1>2, <3>1
  <2>3. BlindAt(received, framed, k)
    BY <1>1, <1>2, <1>3, <2>1, <2>2 DEF FramesInv, BehindIsFramed
  <2> QED BY <2>1, <2>3 DEF BlindAt, AfterBlindRotation
<1>4. ASSUME NEW p \in framed, p \in ToSet(mFrameTemp) PROVE FALSE
  <2>1. PICK k \in 1 .. Base : p = received[k]
    BY DEF FramesInv, FramedIsBehind
  <2>2. PICK j \in 1 .. Len(mFrameTemp) : p = mFrameTemp[j]
    BY <1>1, <1>4 DEF ToSet
  <2>3. k \in 1 .. Len(received) /\ Base + j \in 1 .. Len(received) /\ k < Base + j
    BY <1>1, <1>2
  <2>4. received[k].at < received[Base + j].at
    BY <2>3 DEF FramesInv, StreamRises, Rising
  <2>5. p \in Points
    BY <1>1, <2>1, <2>3
  <2> QED BY <1>1, <2>1, <2>2, <2>4, <2>5 DEF Points
<1> QED BY <1>3, <1>4

-----------------------------------------------------------------------------
(* The message the threads share.                                          *)

Looping == {"poll", "stamped", "copying", "published"}
Leaving == {"closing", "joining", "returned", "aborted"}

\* The part of TypeOK that concerns the shared message.
SharedTypes ==
    /\ rx \in {"none", "reading", "filling", "flagging", "ended"}
    /\ main \in {"starting", "started"} \cup Looping \cup Leaving
    /\ mIsFrameReady \in BOOLEAN /\ late \in BOOLEAN
    /\ output = [serial |-> output.serial, frame |-> output.frame, whole |-> output.whole]
    /\ copy = [serial |-> copy.serial, frame |-> copy.frame, whole |-> copy.whole]
    /\ output.serial \in Nat /\ copy.serial \in Nat /\ published.serial \in Nat

\* Before the port is open there is no thread, and no frame.
ThreadIsStarted == main = "starting" => rx = "none" /\ ~mIsFrameReady

\* The loop is past its poll only while the flag is up.
FlagStays == main \in Looping \ {"poll"} => mIsFrameReady

\* No flag rises while a frame is written: a loop that is behind then was
\* behind when the frame was begun.
WrittenBehindIsLate == rx \in {"filling", "flagging"} /\ Behind => late

\* The messages the loop can copy or has copied.
WholeMessages ==
    /\ rx # "filling" => output.whole
    /\ main = "copying" => copy.whole \/ late

\* The frames come in order.
SerialsRise ==
    /\ copy.serial <= output.serial
    /\ published.serial <= copy.serial

\* The frame shown on the topic is copied again only after the receive
\* thread overtook the loop: under an older flag, before its own rose.
ShownAgainIsLate ==
    /\ main = "copying" /\ copy.serial = published.serial => late
    /\ Behind /\ output.serial = published.serial => late
    /\ rx = "flagging" /\ output.serial = published.serial => late

Inv ==
    /\ SharedTypes /\ ThreadIsStarted /\ FlagStays /\ WrittenBehindIsLate
    /\ WholeMessages /\ SerialsRise /\ ShownAgainIsLate

\* Before the thread starts there is one whole, empty message.
LEMMA InitInv == Init => Inv
<1> SUFFICES ASSUME Init PROVE Inv
  OBVIOUS
<1>1. /\ rx = "none" /\ main = "starting" /\ mIsFrameReady = FALSE /\ late = FALSE
      /\ output = [serial |-> 0, frame |-> <<>>, whole |-> TRUE]
      /\ copy = output /\ published = output
  BY DEF Init
<1>2. output.serial = 0 /\ output.frame = <<>> /\ output.whole = TRUE
  BY <1>1
<1>3. SharedTypes
  BY <1>1, <1>2 DEF SharedTypes
<1>4. ~Behind
  BY <1>1 DEF Behind
<1> QED BY <1>1, <1>2, <1>3, <1>4 DEF Inv, ThreadIsStarted, FlagStays, WrittenBehindIsLate,
         WholeMessages, SerialsRise, ShownAgainIsLate, Looping

\* The receive thread records in late whether it overtakes the loop, and a
\* copy that it spoils is one of those it overtook.
LEMMA RxInv ==
    ASSUME Inv, RxNext
    PROVE  Inv'
<1> USE DEF Inv, SharedTypes, ThreadIsStarted, FlagStays, WrittenBehindIsLate,
            WholeMessages, SerialsRise, ShownAgainIsLate, Behind, Looping, Leaving
<1>1. ASSUME NEW chunk \in Chunks, Receive(chunk) PROVE Inv'
  <2>1. UNCHANGED <<main, published>> /\ rx = "reading"
    BY <1>1 DEF Receive
  <2>2. CASE StartFrame
    <3>1. /\ rx' = "filling" /\ mIsFrameReady' = mIsFrameReady /\ late' = Behind
          /\ output' = [output EXCEPT !.whole = FALSE] /\ copy' = Torn(copy)
      BY <2>2 DEF StartFrame
    <3>2. /\ output'.serial = output.serial
          /\ output' = [serial |-> output'.serial, frame |-> output'.frame,
                        whole |-> output'.whole]
      BY <3>1
    <3>3. /\ copy'.serial = copy.serial
          /\ copy' = [serial |-> copy'.serial, frame |-> copy'.frame, whole |-> copy'.whole]
      BY <3>1 DEF Torn
    <3>4. Behind' = Behind
      BY <2>1, <3>1
    <3> QED BY <2>1, <3>1, <3>2, <3>3, <3>4
  <2>3. CASE RxContinues /\ UNCHANGED <<output, copy, mIsFrameReady, late>>
    BY <2>1, <2>3 DEF RxContinues, mRxThreadExitFlag
  <2> QED BY <1>1, <2>2, <2>3 DEF Receive
<1>2. CASE ToLaserscan
  <2>1. /\ rx = "filling" /\ rx' = "flagging"
        /\ output'.serial = output.serial + 1 /\ output'.whole = TRUE
        /\ output' = [serial |-> output'.serial, frame |-> output'.frame,
                      whole |-> output'.whole]
        /\ copy' = Torn(copy)
        /\ UNCHANGED <<mIsFrameReady, main, published, late>>
    BY <1>2 DEF ToLaserscan
  <2>2. /\ copy'.serial = copy.serial
        /\ copy' = [serial |-> copy'.serial, frame |-> copy'.frame, whole |-> copy'.whole]
    BY <2>1 DEF Torn
  <2>3. Behind' = Behind
    BY <2>1
  <2> QED BY <2>1, <2>2, <2>3
<1>3. CASE FrameReady
  <2>1. /\ rx = "flagging" /\ rx' \in {"reading", "ended"} /\ mIsFrameReady' = TRUE
        /\ UNCHANGED <<output, main, copy, published, late>>
    BY <1>3 DEF FrameReady, RxContinues, mainVars
  <2> QED BY <2>1
<1>4. CASE ReadNothing
  <2>1. /\ rx = "reading" /\ rx' \in {"reading", "ended"}
        /\ UNCHANGED <<output, mIsFrameReady, main, copy, published, late>>
    BY <1>4 DEF ReadNothing, RxContinues, mainVars
  <2> QED BY <2>1
<1>5. CASE HandleGone
  <2>1. /\ rx = "reading" /\ rx' = "ended" /\ main' = "aborted"
        /\ UNCHANGED <<output, mIsFrameReady, copy, published, late>>
    BY <1>5 DEF HandleGone, Main
  <2> QED BY <2>1
<1> QED BY <1>1, <1>2, <1>3, <1>4, <1>5 DEF RxNext, RxProgress

\* The main loop and the steps of main around it.
LEMMA MainInv ==
    ASSUME Inv,
           \/ NoDevice \/ (\E ok \in BOOLEAN : Open(ok)) \/ Shutdown
           \/ PortNext \/ LoopNext
    PROVE  Inv'
<1> USE DEF Inv, SharedTypes, ThreadIsStarted, FlagStays, WrittenBehindIsLate,
            WholeMessages, SerialsRise, ShownAgainIsLate, Behind, Looping, Leaving
<1>1. CASE NoDevice \/ Shutdown \/ PortNext
  <2>1. /\ UNCHANGED <<output, mIsFrameReady, copy, published, rx, late>>
        /\ \/ main = "starting" /\ main' = "returned"
           \/ main = "started" /\ main' = "poll"
           \/ main \in {"poll"} \cup Leaving /\ main' \in Leaving
    BY <1>1 DEF NoDevice, Shutdown, PortNext, Opened, Close, Join, Main
  <2>2. Behind' => Behind
    BY <2>1
  <2>3. SharedTypes' /\ ThreadIsStarted' /\ FlagStays'
    BY <2>1
  <2>4. main' = "copying" => FALSE
    BY <2>1
  <2> QED BY <2>1, <2>2, <2>3, <2>4
<1>2. ASSUME NEW ok \in BOOLEAN, Open(ok) PROVE Inv'
  <2>1. /\ main = "starting" /\ main' \in {"started", "poll"}
        /\ UNCHANGED <<output, mIsFrameReady, copy, published, late>>
        /\ rx' = "reading" \/ rx' = rx
    BY <1>2 DEF Open, Main
  <2>2. ~Behind'
    BY <2>1
  <2> QED BY <2>1, <2>2
<1>3. CASE Poll
  BY <1>3 DEF Poll
<1>4. CASE GetLaserScan
  BY <1>4 DEF GetLaserScan
<1>5. CASE Publish
  BY <1>5 DEF Publish
<1>6. CASE ResetFrameReady
  BY <1>6 DEF ResetFrameReady
<1> QED BY <1>1, <1>2, <1>3, <1>4, <1>5, <1>6 DEF LoopNext

\* Nothing changes.
LEMMA StutterInv == Inv /\ UNCHANGED vars => Inv'
BY DEF vars, Inv, SharedTypes, ThreadIsStarted, FlagStays, WrittenBehindIsLate,
       WholeMessages, SerialsRise, ShownAgainIsLate, Behind, Looping, Leaving

\* Every step keeps the invariant.
LEMMA StepInv == Inv /\ [Next]_vars => Inv'
<1> SUFFICES ASSUME Inv, [Next]_vars PROVE Inv'
  OBVIOUS
<1>1. CASE RxNext
  BY <1>1, RxInv
<1>2. CASE NoDevice \/ (\E ok \in BOOLEAN : Open(ok)) \/ Shutdown \/ PortNext \/ LoopNext
  BY <1>2, MainInv
<1>3. CASE Sleep \/ Ended \/ UNCHANGED vars
  BY <1>3, StutterInv DEF Sleep, Ended
<1> QED BY <1>1, <1>2, <1>3 DEF Next

\* The step to "published" is Publish.
LEMMA PublishStep ==
    ASSUME [Next]_vars, Publishes
    PROVE  Publish
<1> USE DEF Publishes
<1>1. CASE RxNext
  BY <1>1 DEF RxNext, RxProgress, Receive, ToLaserscan, FrameReady, ReadNothing,
              HandleGone, Main, mainVars
<1>2. CASE NoDevice \/ (\E ok \in BOOLEAN : Open(ok)) \/ Shutdown \/ PortNext
  BY <1>2 DEF NoDevice, Open, Shutdown, PortNext, Opened, Close, Join, Main
<1>3. CASE Sleep \/ Ended \/ UNCHANGED vars
  BY <1>3 DEF Sleep, Ended, vars
<1>4. CASE LoopNext
  BY <1>4 DEF LoopNext, Poll, GetLaserScan, Publish, ResetFrameReady
<1> QED BY <1>1, <1>2, <1>3, <1>4 DEF Next

\* What it publishes is the copy, of which the invariant speaks.
LEMMA PublishedIs ==
    ASSUME Inv, [Next]_vars, Publishes
    PROVE  /\ published'.whole \/ late
           /\ \/ published'.serial > published.serial
              \/ published'.serial = published.serial /\ late
<1>1. main = "copying" /\ published' = copy
  BY PublishStep DEF Publish
<1>2. /\ copy.whole \/ late
      /\ copy.serial = published.serial => late
      /\ published.serial <= copy.serial
      /\ copy.serial \in Nat /\ published.serial \in Nat
  BY <1>1 DEF Inv, SharedTypes, WholeMessages, SerialsRise, ShownAgainIsLate
<1> QED BY <1>1, <1>2

-----------------------------------------------------------------------------

\* However the two threads interleave, a message that mixes two frames was
\* copied while the receive thread was a whole frame ahead of the loop
\* (lipkg.hpp:97, lipkg.cpp:194-196, main.cpp:79-87).
THEOREM WholePublished == Spec => WholeUnlessLate
<1>1. Inv /\ [Next]_vars => [Publishes => published'.whole \/ late]_vars
  BY PublishedIs
<1> QED BY <1>1, InitInv, StepInv, PTL DEF Spec, WholeUnlessLate

\* The topic never goes back to an older frame, and repeats one only where the
\* receive thread was a whole frame ahead (lipkg.hpp:84-85, main.cpp:80-84).
THEOREM PublishedInOrder == Spec => RepeatedOnlyIfLate
<1>1. Inv /\ [Next]_vars =>
        [Publishes => \/ published'.serial > published.serial
                      \/ published'.serial = published.serial /\ late]_vars
  BY PublishedIs
<1> QED BY <1>1, InitInv, StepInv, PTL DEF Spec, RepeatedOnlyIfLate

\* Every variable keeps its type, and ToLaserscan never sees an empty frame,
\* whose front and back it reads (lipkg.cpp:194, 223-224).
THEOREM TypeCorrect == Spec => []TypeOK
<1>1. FramesInv => TypeOK
  BY DEF FramesInv
<1> QED BY <1>1, FramesInit, FramesStep, PTL DEF Spec

\* No valid point is lost and none goes into two frames, however reads, losses
\* and cuts fall (lipkg.cpp:170-208), with the one exception the property names.
THEOREM PointsKept == Spec => []PointsAreKept
BY FramesInit, FramesStep, KeptByInv, PTL DEF Spec

\* A frame joins two rotations only over a point that was lost
\* (lipkg.cpp:176-177).
THEOREM OneRotation == Spec => []OneRotationPerFrame
<1>1. FramesInv => OneRotationPerFrame
  BY DEF FramesInv
<1> QED BY <1>1, FramesInit, FramesStep, PTL DEF Spec
===============================================================================
