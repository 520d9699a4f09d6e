-------------------------- MODULE LedControllerProofs --------------------------
(***************************************************************************)
(* What holds of LedController for every alphabet and any length of input. *)
(*                                                                         *)
(* The argument for repeated patterns: a character that is no bit ends a   *)
(* mask at its first coming (Ends), and while a mask goes on, bits of a    *)
(* row are no more than the mask holds (Fits), so the sixth finds none.    *)
(*                                                                         *)
(* The argument for the last command is above its lemmas.                  *)
(***************************************************************************)
EXTENDS LedController, WellFoundedInduction, TLAPS

Ends == streak.char \in Patterns \ Bits /\ streak.times >= 1 => rawIndex = -1
Fits == streak.char \in Bits /\ rawIndex >= 0 => streak.times <= rawIndex

Inv == TypeOK /\ Ends /\ Fits /\ RepeatedPatternIsShown

LEMMA MinOfTwo ==
    ASSUME NEW a \in Int, NEW b \in Int
    PROVE  Min({a, b}) = IF a <= b THEN a ELSE b
<1> DEFINE m == IF a <= b THEN a ELSE b
<1>1. m \in {a, b} /\ \A y \in {a, b} : m <= y
  OBVIOUS
<1>2. \A x \in {a, b} : (\A y \in {a, b} : x <= y) => x = m
  OBVIOUS
<1> HIDE DEF m
<1>3. Min({a, b}) = m
  BY <1>1, <1>2 DEF Min
<1> QED BY <1>3 DEF m

LEMMA CharFacts ==
    /\ Bits \subseteq Patterns /\ Patterns \subseteq Chars
    /\ Newlines \cap Patterns = {} /\ MaskKeys \cap Patterns = {}
    /\ Others \cap Patterns = {} /\ "newline" \in Chars \ Patterns
    /\ Chars = Patterns \cup MaskKeys \cup Newlines \cup Others
    /\ Width = 5
BY DEF Bits, Patterns, Chars, Newlines, MaskKeys, Others, Width

LEMMA MaskType == PatternMask \in [Patterns -> Masks] /\ Off \in Masks
<1>1. \A c \in Patterns : PatternMask[c] \in Masks
  BY DEF PatternMask, Patterns, Masks, Off, Width, Bits
<1>2. Off \in Masks
  BY DEF Masks, Off, Width, Bits
<1> QED BY <1>1, <1>2 DEF PatternMask

\* What reading a character does to the history.
LEMMA ReadFacts ==
    ASSUME TypeOK, NEW c \in Chars, Read(c)
    PROVE  /\ turns' \in Nat /\ text' \in Seq(Chars \ Newlines)
           /\ streak' \in [char : Chars, times : 0 .. Width + 1]
           /\ c \in Newlines => streak' = streak
           /\ c \notin Newlines =>
                 /\ streak'.char = c /\ streak'.times >= 1
                 /\ streak'.times = IF c # streak.char THEN 1
                                    ELSE IF streak.times <= Width THEN streak.times + 1
                                    ELSE Width + 1
<1>1. /\ streak \in [char : Chars, times : 0 .. Width + 1]
      /\ turns \in Nat /\ text \in Seq(Chars \ Newlines) /\ Width = 5
  BY CharFacts DEF TypeOK
<1>2. Min({streak.times + 1, Width + 1}) =
          IF streak.times + 1 <= Width + 1 THEN streak.times + 1 ELSE Width + 1
  BY <1>1, MinOfTwo
<1>3. turns' \in Nat /\ text' \in Seq(Chars \ Newlines)
  <2>1. turns' = turns + 1 /\ text' = IF c \in Newlines THEN text ELSE Append(text, c)
    BY DEF Read
  <2>2. c \notin Newlines => Append(text, c) \in Seq(Chars \ Newlines)
    BY <1>1
  <2> QED BY <1>1, <2>1, <2>2
<1>4. CASE c \in Newlines
  BY <1>1, <1>3, <1>4 DEF Read
<1>5. CASE c \notin Newlines
  <2>1. streak' = [char  |-> c,
                   times |-> IF c # streak.char THEN 1
                             ELSE Min({streak.times + 1, Width + 1})]
    BY <1>5 DEF Read
  <2> QED BY <1>1, <1>2, <1>3, <1>5, <2>1
<1> QED BY <1>4, <1>5

\* Every action reads one character of the alphabet.
LEMMA NextReads ==
    ASSUME Next
    PROVE  \E c \in Chars :
              /\ Read(c)
              /\ \/ SkipNewline(c) \/ ReadMaskBit(c) \/ RejectMask(c)
                 \/ StartMask(c) \/ ApplyPattern(c) \/ InvalidInput(c)
BY LedAssumption
   DEF Next, SkipNewline, ReadMaskBit, RejectMask, StartMask, ApplyPattern, InvalidInput

LEMMA InitInv == ASSUME Init PROVE Inv
<1>1. TypeOK
  BY MaskType, CharFacts DEF Init, TypeOK
<1>2. Ends /\ Fits /\ RepeatedPatternIsShown
  BY CharFacts DEF Init, Ends, Fits, RepeatedPatternIsShown
<1> QED BY <1>1, <1>2 DEF Inv

LEMMA StepInv == ASSUME Inv, [Next]_vars PROVE Inv'
<1>1. CASE UNCHANGED vars
  BY <1>1 DEF vars, Inv, TypeOK, Ends, Fits, RepeatedPatternIsShown
<1>2. CASE Next
  <2>1. PICK c \in Chars :
           /\ Read(c)
           /\ \/ SkipNewline(c) \/ ReadMaskBit(c) \/ RejectMask(c)
              \/ StartMask(c) \/ ApplyPattern(c) \/ InvalidInput(c)
    BY <1>2, NextReads
  <2>2. /\ turns' \in Nat /\ text' \in Seq(Chars \ Newlines)
        /\ streak' \in [char : Chars, times : 0 .. Width + 1]
        /\ c \in Newlines => streak' = streak
        /\ c \notin Newlines =>
              /\ streak'.char = c /\ streak'.times >= 1
              /\ streak'.times = IF c # streak.char THEN 1
                                 ELSE IF streak.times <= Width THEN streak.times + 1
                                 ELSE Width + 1
    BY <2>1, ReadFacts DEF Inv
  <2>3. /\ Width = 5 /\ rawIndex \in -1 .. Width - 1
        /\ streak \in [char : Chars, times : 0 .. Width + 1]
        /\ rawMask \in Masks /\ leds \in Masks
    BY CharFacts DEF Inv, TypeOK
  <2>4. CASE SkipNewline(c)
    <3>1. UNCHANGED <<rawMask, rawIndex, leds, streak>>
      BY <2>2, <2>4 DEF SkipNewline
    <3> QED BY <2>2, <2>3, <3>1 DEF Inv, TypeOK, Ends, Fits, RepeatedPatternIsShown
  <2>5. CASE ReadMaskBit(c)
    <3>1. /\ rawIndex >= 0 /\ c \in Bits /\ c \notin Newlines
          /\ rawMask' = [rawMask EXCEPT ![rawIndex + 1] = c]
          /\ IF rawIndex + 1 < Width
             THEN rawIndex' = rawIndex + 1 /\ leds' = leds
             ELSE rawIndex' = -1 /\ leds' = rawMask'
      BY <2>5, CharFacts DEF ReadMaskBit
    <3>2. rawMask' \in Masks
      BY <2>3, <3>1 DEF Masks
    <3>3. TypeOK'
      <4>1. rawIndex' \in -1 .. Width - 1
        BY <2>3, <3>1
      <4>2. leds' \in Masks
        BY <2>3, <3>1, <3>2
      <4> QED BY <2>2, <3>2, <4>1, <4>2 DEF TypeOK
    <3>4. Ends'
      BY <2>2, <3>1 DEF Ends
    <3>5. streak'.times <= rawIndex + 1
      <4>1. CASE c # streak.char
        BY <2>2, <2>3, <3>1, <4>1
      <4>2. CASE c = streak.char
        BY <2>2, <2>3, <3>1, <4>2 DEF Inv, Fits
      <4> QED BY <4>1, <4>2
    <3>6. Fits'
      BY <2>3, <3>1, <3>5 DEF Fits
    <3>7. RepeatedPatternIsShown'
      BY <2>2, <2>3, <3>1, <3>5 DEF RepeatedPatternIsShown
    <3> QED BY <3>3, <3>4, <3>6, <3>7 DEF Inv
  <2>6. CASE RejectMask(c)
    <3>1. /\ rawIndex >= 0 /\ c \notin Bits /\ c \notin Newlines
          /\ rawIndex' = -1 /\ UNCHANGED <<rawMask, leds>>
      BY <2>6 DEF RejectMask
    <3>2. TypeOK' /\ Ends' /\ Fits'
      BY <2>2, <2>3, <3>1 DEF TypeOK, Ends, Fits
    <3>3. streak'.char \in Patterns => streak'.times = 1
      <4>1. CASE c # streak.char
        BY <2>2, <3>1, <4>1
      <4>2. CASE c = streak.char
        BY <2>2, <2>3, <3>1, <4>2 DEF Inv, Ends
      <4> QED BY <4>1, <4>2
    <3>4. RepeatedPatternIsShown'
      BY <2>3, <3>3 DEF RepeatedPatternIsShown
    <3> QED BY <3>2, <3>4 DEF Inv
  <2>7. CASE ApplyPattern(c)
    <3>1. /\ c \in Patterns /\ c \notin Newlines
          /\ rawIndex = -1 /\ rawIndex' = -1
          /\ leds' = PatternMask[c] /\ rawMask' = rawMask
      BY <2>7, CharFacts DEF ApplyPattern
    <3>2. TypeOK' /\ Ends' /\ Fits'
      BY <2>2, <2>3, <3>1, MaskType DEF TypeOK, Ends, Fits
    <3>3. RepeatedPatternIsShown'
      BY <2>2, <3>1 DEF RepeatedPatternIsShown
    <3> QED BY <3>2, <3>3 DEF Inv
  <2>8. CASE StartMask(c) \/ InvalidInput(c)
    <3>1. /\ c \notin Patterns /\ c \notin Newlines
          /\ rawIndex' \in {-1, 0} /\ UNCHANGED <<rawMask, leds>>
      BY <2>8, CharFacts DEF StartMask, InvalidInput, MaskKeys, Newlines, Others
    <3>2. streak'.char \notin Patterns
      BY <2>2, <3>1
    <3>3. TypeOK'
      BY <2>2, <2>3, <3>1 DEF TypeOK
    <3>4. Ends' /\ Fits' /\ RepeatedPatternIsShown'
      BY <3>2, CharFacts DEF Ends, Fits, RepeatedPatternIsShown
    <3> QED BY <3>3, <3>4 DEF Inv
  <2> QED BY <2>1, <2>4, <2>5, <2>6, <2>7, <2>8
<1> QED BY <1>1, <1>2

-----------------------------------------------------------------------------
(* The commands of the text.                                               *)
(*                                                                         *)
(* The sketch is always in the last command of the text that may have      *)
(* started (Pending): all others have ended, and a command that ends       *)
(* starts the next one.  rawMask holds the bits of it that have come.      *)

\* The principle of the least number.
LEMMA Least ==
    ASSUME NEW T \in SUBSET Nat, T # {}
    PROVE  \E x \in T : \A y \in T : x <= y
<1>1. \E x \in T : \A y \in T : ~(<<y, x>> \in OpToRel(<, Nat))
  BY NatLessThanWellFounded, WFMin
<1>2. OpToRel(<, Nat) = {ss \in Nat \X Nat : ss[1] < ss[2]}
  BY DEF OpToRel
<1>3. PICK x \in T : \A y \in T : ~(<<y, x>> \in {ss \in Nat \X Nat : ss[1] < ss[2]})
  BY <1>1, <1>2, Zenon
<1>4. ASSUME NEW y \in T PROVE x <= y
  <2>1. ~(<<y, x>> \in {ss \in Nat \X Nat : ss[1] < ss[2]})
    BY <1>3
  <2>2. y \in Nat /\ x \in Nat
    OBVIOUS
  <2>3. ~(y < x)
    BY <2>1, <2>2
  <2> QED
    BY <2>2, <2>3
<1> QED
  BY <1>4

\* Induction on the numbers from m to n.
LEMMA Climb ==
    ASSUME NEW m \in Int, NEW n \in Int, NEW T, m \in T,
           \A i \in m .. n - 1 : i \in T => i + 1 \in T
    PROVE  \A i \in m .. n : i \in T
<1> SUFFICES ASSUME NEW i \in m .. n, i \notin T PROVE FALSE
  OBVIOUS
<1> DEFINE Missed == {k \in Nat : m + k <= n /\ m + k \notin T}
<1>1. i - m \in Missed
  OBVIOUS
<1>2. PICK k \in Missed : \A j \in Missed : k <= j
  BY <1>1, Least, Missed \in SUBSET Nat
<1>3. k # 0
  BY <1>2
<1>4. m + (k - 1) \in T
  <2>1. k - 1 \notin Missed /\ k - 1 \in Nat
    BY <1>2, <1>3
  <2> QED
    BY <2>1, <1>2
<1>5. m + (k - 1) \in m .. n - 1 /\ m + (k - 1) + 1 = m + k
  BY <1>2, <1>3
<1> QED
  BY <1>2, <1>4, <1>5

\* A function that starts from a and goes on with the elements that step gives
\* for their place and the one before them.
Iterates(f, n, a, step) ==
    f[0] = a /\ \A i \in 1 .. n : f[i] = step[<< i, f[i - 1] >>]

LEMMA Iteration ==
    ASSUME NEW n \in Nat, NEW S, NEW a \in S, NEW step \in [(1 .. n) \X S -> S]
    PROVE  \E f \in [0 .. n -> S] : Iterates(f, n, a, step)
<1> DEFINE Follows(f, m) == f[0] = a /\ \A i \in 1 .. m : f[i] = step[<< i, f[i - 1] >>]
           T == {m \in 0 .. n : \E f \in [0 .. m -> S] : Follows(f, m)}
<1>1. 0 \in T
  <2>1. [i \in 0 .. 0 |-> a] \in [0 .. 0 -> S] /\ Follows([i \in 0 .. 0 |-> a], 0)
    OBVIOUS
  <2>2. 0 \in 0 .. n
    OBVIOUS
  <2> HIDE DEF Follows
  <2> QED
    BY <2>1, <2>2
<1>2. \A m \in 0 .. n - 1 : m \in T => m + 1 \in T
  <2> SUFFICES ASSUME NEW m \in 0 .. n - 1, m \in T PROVE m + 1 \in T
    OBVIOUS
  <2>1. PICK f \in [0 .. m -> S] : Follows(f, m)
    OBVIOUS
  <2> DEFINE g == [i \in 0 .. m + 1 |-> IF i <= m THEN f[i] ELSE step[<< m + 1, f[m] >>]]
  <2>2. f[m] \in S /\ << m + 1, f[m] >> \in (1 .. n) \X S
    OBVIOUS
  <2>3. g \in [0 .. m + 1 -> S]
    BY <2>2
  <2>4. g[m + 1] = step[<< m + 1, f[m] >>] /\ \A i \in 0 .. m : g[i] = f[i]
    OBVIOUS
  <2> HIDE DEF g
  <2>5. g[0] = a
    BY <2>1, <2>4
  <2>6. ASSUME NEW i \in 1 .. m + 1 PROVE g[i] = step[<< i, g[i - 1] >>]
    <3>1. CASE i = m + 1
      BY <3>1, <2>4
    <3>2. CASE i \in 1 .. m
      <4>1. i \in 0 .. m /\ i - 1 \in 0 .. m
        BY <3>2
      <4> QED
        BY <3>2, <4>1, <2>1, <2>4
    <3> QED
      BY <3>1, <3>2
  <2>7. Follows(g, m + 1)
    BY <2>5, <2>6
  <2>8. m + 1 \in 0 .. n
    OBVIOUS
  <2> HIDE DEF Follows
  <2> QED
    BY <2>3, <2>7, <2>8
<1>3. n \in T
  <2>1. 0 \in Int /\ n \in Int /\ n \in 0 .. n
    OBVIOUS
  <2> HIDE DEF T
  <2>2. \A m \in 0 .. n : m \in T
    BY <1>1, <1>2, <2>1, Climb
  <2> QED
    BY <2>1, <2>2
<1> QED
  BY <1>3 DEF Iterates


\* Where commands start, without the recursion.
StartsOf(t, S) ==
    /\ S \subseteq 0 .. Len(t) /\ 0 \in S
    /\ \A n \in 1 .. Len(t) : n \in S <=> \E b \in S : b < n /\ EndsAt(t, b, n)

LEMMA StartsAre ==
    ASSUME NEW t \in Seq(Chars)
    PROVE  StartsOf(t, Starts(t))
<1> DEFINE N == Len(t)
           S == SUBSET (0 .. N)
           With(B, n) == B \cup {e \in {n} : \E b \in B : EndsAt(t, b, e)}
           Body(f, n) == IF n = 0 THEN {0} ELSE With(f[n - 1], n)
           step == [x \in (1 .. N) \X S |-> With(x[2], x[1])]
           w == CHOOSE f : f = [n \in 0 .. N |-> Body(f, n)]
<1>1. N \in Nat
  OBVIOUS
<1>2. Starts(t) = w[N]
  BY DEF Starts
<1>3. \A f : Body(f, 0) = {0}
  OBVIOUS
<1>4. \A f : \A n : n # 0 => Body(f, n) = With(f[n - 1], n)
  OBVIOUS
<1>5. \A B : \A n : \A x : x \in With(B, n) <=> x \in B \/ (x = n /\ \E b \in B : EndsAt(t, b, n))
  OBVIOUS
<1> HIDE DEF N, With, Body
<1>6. ASSUME NEW B \in S, NEW n \in 1 .. N PROVE With(B, n) \in S
  <2>1. n \in 0 .. N
    BY <1>1
  <2> QED BY <1>5, <2>1
<1>7. step \in [(1 .. N) \X S -> S]
  <2>1. \A x \in (1 .. N) \X S : x[2] \in S /\ x[1] \in 1 .. N
    OBVIOUS
  <2> HIDE DEF S
  <2> QED BY <1>6, <2>1
<1>8. \A n \in 1 .. N : \A B \in S : step[<< n, B >>] = With(B, n)
  <2> HIDE DEF S
  <2> QED OBVIOUS
<1>9. {0} \in S
  BY <1>1
<1> HIDE DEF S, step, w
<1>10. PICK f \in [0 .. N -> S] :
          f[0] = {0} /\ \A n \in 1 .. N : f[n] = step[<< n, f[n - 1] >>]
  <2>1. \E f \in [0 .. N -> S] : Iterates(f, N, {0}, step)
    BY <1>1, <1>7, <1>9, Iteration, Zenon
  <2> QED BY <2>1 DEF Iterates
<1>11. ASSUME NEW n \in 0 .. N PROVE f[n] = Body(f, n)
  <2>1. CASE n = 0
    BY <1>3, <1>10, <2>1
  <2>2. CASE n # 0
    <3>1. n \in 1 .. N /\ n - 1 \in 0 .. N
      BY <1>1, <2>2
    <3>2. f[n - 1] \in S
      BY <3>1
    <3>3. f[n] = With(f[n - 1], n)
      BY <1>8, <1>10, <3>1, <3>2
    <3> QED BY <1>4, <2>2, <3>3
  <2> QED BY <2>1, <2>2
<1>12. f = [n \in 0 .. N |-> Body(f, n)]
  BY <1>11
<1>13. w = [n \in 0 .. N |-> Body(w, n)]
  BY <1>12 DEF w
<1>14. w[0] = {0}
  BY <1>1, <1>3, <1>13
<1>15. ASSUME NEW n \in 0 .. N - 1
       PROVE  \A x : x \in w[n + 1] <=> x \in w[n] \/ (x = n + 1 /\ \E b \in w[n] : EndsAt(t, b, n + 1))
  <2>1. n + 1 \in 0 .. N /\ n + 1 # 0 /\ (n + 1) - 1 = n
    BY <1>1
  <2>2. w[n + 1] = With(w[n], n + 1)
    BY <1>4, <1>13, <2>1
  <2> QED BY <1>5, <2>2
<1> DEFINE T == {n \in 0 .. N : /\ w[n] \subseteq 0 .. n
                                /\ \A j \in 0 .. n : \A x \in 0 .. j : x \in w[n] <=> x \in w[j]}
<1>16. 0 \in T
  <2>1. 0 \in 0 .. N /\ w[0] \subseteq 0 .. 0
    BY <1>1, <1>14
  <2>2. \A j \in 0 .. 0 : j = 0
    OBVIOUS
  <2> QED BY <2>1, <2>2
<1>17. \A n \in 0 .. N - 1 : n \in T => n + 1 \in T
  <2> SUFFICES ASSUME NEW n \in 0 .. N - 1, n \in T PROVE n + 1 \in T
    OBVIOUS
  <2>1. /\ w[n] \subseteq 0 .. n
        /\ \A j \in 0 .. n : \A x \in 0 .. j : x \in w[n] <=> x \in w[j]
    OBVIOUS
  <2>2. n \in Nat /\ n + 1 \in 0 .. N
    BY <1>1
  <2>3. w[n + 1] \subseteq 0 .. n + 1
    BY <1>15, <2>1, <2>2
  <2>4. ASSUME NEW j \in 0 .. n + 1, NEW x \in 0 .. j
        PROVE  x \in w[n + 1] <=> x \in w[j]
    <3>1. CASE j = n + 1
      BY <3>1
    <3>2. CASE j # n + 1
      <4>1. j \in 0 .. n /\ x # n + 1
        BY <2>2, <3>2
      <4> QED BY <1>15, <2>1, <4>1
    <3> QED BY <3>1, <3>2
  <2> QED BY <2>2, <2>3, <2>4
<1>18. \A n \in 0 .. N : n \in T
  <2>1. 0 \in Int /\ N \in Int
    BY <1>1
  <2> HIDE DEF T
  <2> QED BY <1>16, <1>17, <2>1, Climb
<1>19. /\ w[N] \subseteq 0 .. N
       /\ \A j \in 0 .. N : w[j] \subseteq 0 .. j
       /\ \A j \in 0 .. N : \A x \in 0 .. j : x \in w[N] <=> x \in w[j]
  <2>1. N \in 0 .. N
    BY <1>1
  <2> QED BY <1>18, <2>1
<1>20. 0 \in w[N]
  <2>1. 0 \in 0 .. 0 /\ 0 \in 0 .. N
    BY <1>1
  <2> QED BY <1>14, <1>19, <2>1
<1>21. ASSUME NEW n \in 1 .. N
       PROVE  n \in w[N] <=> \E b \in w[N] : b < n /\ EndsAt(t, b, n)
  <2>1. n - 1 \in 0 .. N - 1 /\ (n - 1) + 1 = n /\ n \in 0 .. N /\ n - 1 \in 0 .. N
        /\ n \in 0 .. n /\ n \notin 0 .. n - 1 /\ n \in Nat
    BY <1>1
  <2>2. n \in w[N] <=> n \in w[n]
    BY <1>19, <2>1
  <2>3. n \in w[n] <=> n \in w[n - 1] \/ \E b \in w[n - 1] : EndsAt(t, b, n)
    BY <1>15, <2>1
  <2>4. n \notin w[n - 1]
    BY <1>19, <2>1
  <2>5. \A b : b \in w[n - 1] <=> b \in w[N] /\ b < n
    <3>1. \A b \in w[n - 1] : b \in 0 .. n - 1
      BY <1>19, <2>1
    <3>2. \A b \in w[N] : b < n => b \in 0 .. n - 1
      BY <1>1, <1>19, <2>1
    <3>3. \A b \in 0 .. n - 1 : b < n /\ (b \in w[N] <=> b \in w[n - 1])
      BY <1>19, <2>1
    <3> QED BY <3>1, <3>2, <3>3
  <2> QED BY <2>2, <2>3, <2>4, <2>5
<1> QED BY <1>2, <1>19, <1>20, <1>21 DEF StartsOf, N

\* What comes later moves neither starts nor ends.
LEMMA EndsKept ==
    ASSUME NEW t \in Seq(Chars), NEW c \in Chars,
           NEW b \in Nat, NEW e \in Nat, b < e, e <= Len(t)
    PROVE  EndsAt(Append(t, c), b, e) <=> EndsAt(t, b, e)
<1>1. \A i \in 1 .. Len(t) : Append(t, c)[i] = t[i]
  OBVIOUS
<1>2. b + 1 \in 1 .. Len(t) /\ e \in 1 .. Len(t) /\ \A i \in b + 2 .. e - 1 : i \in 1 .. Len(t)
  OBVIOUS
<1>3. PICK u : u = Append(t, c)
  OBVIOUS
<1> QED BY <1>1, <1>2, <1>3 DEF EndsAt

LEMMA StartsKept ==
    ASSUME NEW t \in Seq(Chars), NEW c \in Chars,
           NEW S, StartsOf(t, S), NEW U, StartsOf(Append(t, c), U)
    PROVE  /\ \A m \in 0 .. Len(t) : m \in U <=> m \in S
           /\ Len(t) + 1 \in U <=> \E b \in S : EndsAt(Append(t, c), b, Len(t) + 1)
<1> DEFINE N == Len(t)
           u == Append(t, c)
           Bad == {m \in 0 .. N : ~(m \in U <=> m \in S)}
<1>1. N \in Nat /\ Len(u) = N + 1
  OBVIOUS
<1>2. /\ S \subseteq 0 .. N /\ 0 \in S
      /\ \A n \in 1 .. N : n \in S <=> \E b \in S : b < n /\ EndsAt(t, b, n)
  BY DEF StartsOf
<1>3. /\ U \subseteq 0 .. N + 1 /\ 0 \in U
      /\ \A n \in 1 .. N + 1 : n \in U <=> \E b \in U : b < n /\ EndsAt(u, b, n)
  BY <1>1 DEF StartsOf
<1> HIDE DEF N, u
<1>4. ASSUME NEW m \in Bad PROVE \E k \in Bad : k < m
  <2>1. m \in 1 .. N
    BY <1>1, <1>2, <1>3
  <2>2. \A b \in Nat : b < m => (EndsAt(u, b, m) <=> EndsAt(t, b, m))
    BY <2>1, EndsKept DEF N, u
  <2>3. m \in U <=> \E b \in U : b < m /\ EndsAt(u, b, m)
    BY <1>1, <1>3, <2>1
  <2>4. m \in S <=> \E b \in S : b < m /\ EndsAt(t, b, m)
    BY <1>2, <2>1
  <2>5. PICK b : b \in Nat /\ b < m /\ ~(b \in U <=> b \in S)
    <3>1. \A b \in U : b \in Nat
      BY <1>1, <1>3
    <3>2. \A b \in S : b \in Nat
      BY <1>1, <1>2
    <3> QED BY <2>2, <2>3, <2>4, <3>1, <3>2
  <2>6. b \in 0 .. N
    BY <1>1, <2>1, <2>5
  <2> QED BY <2>5, <2>6
<1>5. Bad = {}
  <2>1. Bad \in SUBSET Nat
    BY <1>1
  <2> HIDE DEF Bad
  <2> SUFFICES ASSUME Bad # {} PROVE FALSE
    OBVIOUS
  <2>2. PICK m \in Bad : \A k \in Bad : m <= k
    BY <2>1, Least
  <2>3. PICK k \in Bad : k < m
    BY <1>4
  <2>4. m \in Nat /\ k \in Nat /\ m <= k
    BY <2>1, <2>2
  <2> QED BY <2>3, <2>4
<1>6. \A m \in 0 .. N : m \in U <=> m \in S
  BY <1>5
<1>7. N + 1 \in U <=> \E b \in S : EndsAt(u, b, N + 1)
  <2>1. N + 1 \in U <=> \E b \in U : b < N + 1 /\ EndsAt(u, b, N + 1)
    <3>1. N + 1 \in 1 .. N + 1
      BY <1>1
    <3> QED BY <1>3, <3>1
  <2>2. \A b : b \in S <=> b \in U /\ b < N + 1
    <3>1. \A b \in S : b \in 0 .. N /\ b < N + 1
      BY <1>1, <1>2
    <3>2. \A b \in U : b < N + 1 => b \in 0 .. N
      BY <1>1, <1>3
    <3> QED BY <1>6, <3>1, <3>2
  <2> QED BY <2>1, <2>2
<1> QED BY <1>6, <1>7 DEF N, u

\* The command at u is the last that may have started; those before it have ended.
Parsed(t, u) ==
    /\ u \in Starts(t)
    /\ \A b \in Starts(t) :
          b = u \/ (b < u /\ \E e \in 1 .. Len(t) : b < e /\ EndsAt(t, b, e))

HasLast(t) == Commands(t) = {} \/ \E m \in Commands(t) : \A b \in Commands(t) : b <= m

LEMMA EndsAfter ==
    ASSUME NEW t, NEW b \in Nat, NEW e \in Int, EndsAt(t, b, e)
    PROVE  b < e
BY DEF EndsAt, Width

\* A command ends once.
LEMMA EndsOnce ==
    ASSUME NEW t, NEW b \in Nat, NEW e \in Int, NEW f \in Int,
           EndsAt(t, b, e), EndsAt(t, b, f)
    PROVE  e = f
<1>1. CASE t[b + 1] \notin MaskKeys
  BY <1>1 DEF EndsAt
<1>2. CASE t[b + 1] \in MaskKeys
  <2>1. /\ e \in b + 2 .. b + 1 + Width /\ f \in b + 2 .. b + 1 + Width
        /\ \A i \in b + 2 .. e - 1 : t[i] \in Bits
        /\ \A i \in b + 2 .. f - 1 : t[i] \in Bits
        /\ e = b + 1 + Width \/ t[e] \notin Bits
        /\ f = b + 1 + Width \/ t[f] \notin Bits
    BY <1>2 DEF EndsAt
  <2>2. Width = 5
    BY DEF Width
  <2>3. ~(e < f)
    <3> SUFFICES ASSUME e < f PROVE FALSE
      OBVIOUS
    <3>1. e \in b + 2 .. f - 1 /\ e # b + 1 + Width
      BY <2>1, <2>2
    <3> QED BY <2>1, <3>1
  <2>4. ~(f < e)
    <3> SUFFICES ASSUME f < e PROVE FALSE
      OBVIOUS
    <3>1. f \in b + 2 .. e - 1 /\ f # b + 1 + Width
      BY <2>1, <2>2
    <3> QED BY <2>1, <3>1
  <2> QED BY <2>3, <2>4
<1> QED BY <1>1, <1>2

\* A mask that is complete has ended with it.
LEMMA CompleteEnds ==
    ASSUME NEW t, NEW b \in Nat, Complete(t, b), t[b + 1] \in MaskKeys
    PROVE  EndsAt(t, b, b + 1 + Width)
<1>1. "M" \notin Patterns /\ "m" \notin Patterns /\ Width = 5
  BY DEF Patterns, Bits, Width
<1>2. \A i \in b + 2 .. b + 1 + Width : t[i] \in Bits
  BY <1>1 DEF Complete, MaskKeys
<1> QED BY <1>1, <1>2 DEF EndsAt

LEMMA Grown ==
    ASSUME NEW t \in Seq(Chars), NEW c \in Chars
    PROVE  /\ Append(t, c) \in Seq(Chars) /\ Len(Append(t, c)) = Len(t) + 1
           /\ \A i \in 1 .. Len(t) : Append(t, c)[i] = t[i]
           /\ Append(t, c)[Len(t) + 1] = c
OBVIOUS

\* A character that ends the last command starts the next one.
LEMMA ParsedGrows ==
    ASSUME NEW t \in Seq(Chars), NEW c \in Chars, NEW u, Parsed(t, u)
    PROVE  /\ u \in 0 .. Len(t)
           /\ EndsAt(Append(t, c), u, Len(t) + 1) => Parsed(Append(t, c), Len(t) + 1)
           /\ ~EndsAt(Append(t, c), u, Len(t) + 1) => Parsed(Append(t, c), u)
<1> DEFINE N == Len(t)
           v == Append(t, c)
           S == Starts(t)
           U == Starts(v)
<1>1. N \in Nat /\ v \in Seq(Chars) /\ Len(v) = N + 1
  BY Grown
<1>2. StartsOf(t, S) /\ StartsOf(v, U)
  BY <1>1, StartsAre
<1>3. /\ \A m \in 0 .. N : m \in U <=> m \in S
      /\ N + 1 \in U <=> \E b \in S : EndsAt(v, b, N + 1)
      /\ S \subseteq 0 .. N /\ U \subseteq 0 .. N + 1
  <2>1. S \subseteq 0 .. N
    BY <1>2 DEF StartsOf
  <2>2. U \subseteq 0 .. N + 1
    BY <1>1, <1>2 DEF StartsOf
  <2> QED BY <1>2, <2>1, <2>2, StartsKept
<1>4. /\ u \in S
      /\ \A b \in S : b = u \/ (b < u /\ \E e \in 1 .. N : b < e /\ EndsAt(t, b, e))
  BY DEF Parsed
<1>5. ASSUME NEW b \in S, b # u
      PROVE  /\ \E e \in 1 .. N : b < e /\ EndsAt(v, b, e)
             /\ ~EndsAt(v, b, N + 1)
  <2>1. PICK e \in 1 .. N : b < e /\ EndsAt(t, b, e)
    BY <1>4, <1>5
  <2>2. b \in Nat /\ e \in Nat /\ e <= N /\ N + 1 \in Int /\ e \in Int /\ e # N + 1
    BY <1>1, <1>3
  <2>3. EndsAt(v, b, e)
    BY <2>1, <2>2, EndsKept
  <2>4. ~EndsAt(v, b, N + 1)
    <3> HIDE DEF v, N
    <3> QED BY <2>2, <2>3, EndsOnce
  <2> QED BY <2>1, <2>3, <2>4
<1> HIDE DEF N, v, S, U
<1>6. u \in 0 .. N
  BY <1>3, <1>4
<1>7. ASSUME EndsAt(v, u, N + 1) PROVE Parsed(v, N + 1)
  <2>1. N + 1 \in U
    BY <1>3, <1>4, <1>7
  <2>2. ASSUME NEW b \in U, b # N + 1
        PROVE  b < N + 1 /\ \E e \in 1 .. N + 1 : b < e /\ EndsAt(v, b, e)
    <3>1. b \in 0 .. N /\ b \in S
      BY <1>1, <1>3, <2>2
    <3>2. CASE b = u
      <4>1. N + 1 \in 1 .. N + 1 /\ b < N + 1
        BY <1>1, <3>1
      <4> QED BY <1>7, <3>2, <4>1
    <3>3. CASE b # u
      <4>1. PICK e \in 1 .. N : b < e /\ EndsAt(v, b, e)
        BY <1>5, <3>1, <3>3
      <4>2. e \in 1 .. N + 1 /\ b < N + 1
        BY <1>1, <3>1
      <4> QED BY <4>1, <4>2
    <3> QED BY <3>2, <3>3
  <2> QED BY <1>1, <2>1, <2>2 DEF Parsed, U
<1>8. ASSUME ~EndsAt(v, u, N + 1) PROVE Parsed(v, u)
  <2>1. N + 1 \notin U
    BY <1>3, <1>5, <1>8
  <2>2. \A b : b \in U <=> b \in S
    <3>1. \A b \in U : b \in 0 .. N
      BY <1>1, <1>3, <2>1
    <3>2. \A b \in S : b \in 0 .. N
      BY <1>3
    <3> QED BY <1>3, <3>1, <3>2
  <2>3. ASSUME NEW b \in U, b # u
        PROVE  b < u /\ \E e \in 1 .. N + 1 : b < e /\ EndsAt(v, b, e)
    <3>1. PICK e \in 1 .. N : b < e /\ EndsAt(v, b, e)
      BY <1>5, <2>2, <2>3
    <3>2. e \in 1 .. N + 1 /\ b < u
      BY <1>1, <1>4, <2>2, <2>3
    <3> QED BY <3>1, <3>2
  <2> QED BY <1>1, <1>4, <2>2, <2>3 DEF Parsed, U
<1> QED BY <1>6, <1>7, <1>8 DEF N, v

\* A character completes no command but the last.
LEMMA CompleteKept ==
    ASSUME NEW t \in Seq(Chars), NEW c \in Chars, NEW u, Parsed(t, u),
           NEW b \in Starts(t), b # u
    PROVE  Complete(Append(t, c), b) <=> Complete(t, b)
<1> DEFINE N == Len(t)
<1>0. PICK v : v = Append(t, c)
  OBVIOUS
<1>1. v = Append(t, c) /\ Len(v) = N + 1 /\ N \in Nat /\ \A i \in 1 .. N : v[i] = t[i]
  BY <1>0, Grown
<1>2. PICK e \in 1 .. N : b < e /\ EndsAt(t, b, e)
  BY DEF Parsed
<1>3. b \in Nat /\ e \in Nat /\ b < N
  <2>1. b \in 0 .. N
    BY StartsAre DEF StartsOf
  <2> QED BY <1>1, <1>2, <2>1
<1> HIDE DEF N
<1>4. v[b + 1] = t[b + 1] /\ b < Len(v)
  BY <1>1, <1>3
<1>5. CASE t[b + 1] \notin MaskKeys
  BY <1>1, <1>3, <1>4, <1>5 DEF Complete, N
<1>6. CASE t[b + 1] \in MaskKeys
  <2>1. Width = 5 /\ t[b + 1] \notin Patterns
    BY <1>6 DEF Width, MaskKeys, Patterns, Bits
  <2>2. b + 1 + Width <= N => \A i \in b + 2 .. b + 1 + Width : v[i] = t[i]
    BY <1>1, <1>3, <2>1
  <2>3. Complete(t, b) => Complete(v, b)
    <3> SUFFICES ASSUME Complete(t, b) PROVE Complete(v, b)
      OBVIOUS
    <3>1. b + 1 + Width <= N /\ \A i \in b + 2 .. b + 1 + Width : t[i] \in Bits
      BY <2>1 DEF Complete, N
    <3>2. b + 1 + Width <= Len(v)
      BY <1>1, <1>3, <2>1, <3>1
    <3> QED BY <1>4, <1>6, <2>2, <3>1, <3>2 DEF Complete
  <2>4. Complete(v, b) => Complete(t, b)
    <3> SUFFICES ASSUME Complete(v, b) PROVE Complete(t, b)
      OBVIOUS
    <3>1. \A i \in b + 2 .. b + 1 + Width : v[i] \in Bits
      BY <1>4, <2>1 DEF Complete
    <3>2. EndsAt(v, b, b + 1 + Width)
      BY <1>3, <1>4, <1>6, CompleteEnds
    <3>3. EndsAt(v, b, e)
      BY <1>1, <1>2, <1>3, EndsKept DEF N
    <3>4. e = b + 1 + Width
      <4>1. e \in Int /\ b + 1 + Width \in Int
        BY <1>3, <2>1
      <4> QED BY <1>3, <3>2, <3>3, <4>1, EndsOnce
    <3>5. b + 1 + Width <= N
      BY <1>2, <1>3, <3>4
    <3> QED BY <1>3, <1>6, <2>2, <3>1, <3>5 DEF Complete, N
  <2> QED BY <1>1, <2>3, <2>4
<1> QED BY <1>5, <1>6

LEMMA MaxIs ==
    ASSUME NEW C \in SUBSET Nat, NEW m \in C, \A b \in C : b <= m
    PROVE  Max(C) = m
<1>1. \A x \in C : (\A y \in C : x >= y) => x = m
  OBVIOUS
<1>2. \A y \in C : m >= y
  OBVIOUS
<1> QED BY <1>1, <1>2 DEF Max

LEMMA MeaningIs ==
    ASSUME NEW t \in Seq(Chars), NEW m \in Commands(t), \A b \in Commands(t) : b <= m
    PROVE  Meaning(t) = Shown(t, m)
<1>1. Commands(t) \in SUBSET Nat
  BY StartsAre DEF StartsOf, Commands
<1> QED BY <1>1, MaxIs DEF Meaning

\* The text means what it meant, unless a character completes the last command.
LEMMA MeaningGrows ==
    ASSUME NEW t \in Seq(Chars), NEW c \in Chars, NEW u, Parsed(t, u),
           HasLast(t), ~Complete(t, u)
    PROVE  /\ HasLast(Append(t, c))
           /\ Meaning(Append(t, c)) =
                 IF Complete(Append(t, c), u) THEN Shown(Append(t, c), u) ELSE Meaning(t)
<1> DEFINE N == Len(t)
           S == Starts(t)
<1>0. PICK v : v = Append(t, c)
  OBVIOUS
<1>1. /\ v = Append(t, c) /\ v \in Seq(Chars) /\ Len(v) = N + 1 /\ N \in Nat
      /\ \A i \in 1 .. N : v[i] = t[i]
  BY <1>0, Grown
<1> DEFINE U == Starts(v)
<1>2. /\ \A m \in 0 .. N : m \in U <=> m \in S
      /\ S \subseteq 0 .. N /\ U \subseteq 0 .. N + 1 /\ u \in S
      /\ \A b \in S : b <= u
  <2>1. StartsOf(t, S) /\ StartsOf(v, U)
    BY <1>1, StartsAre
  <2>2. \A m \in 0 .. N : m \in U <=> m \in S
    BY <1>1, <2>1, StartsKept
  <2>3. S \subseteq 0 .. N
    BY <2>1 DEF StartsOf
  <2>4. U \subseteq 0 .. N + 1
    BY <1>1, <2>1 DEF StartsOf
  <2>5. u \in S /\ \A b \in S : b = u \/ b < u
    BY DEF Parsed
  <2>6. \A b \in S : b <= u
    BY <1>1, <2>3, <2>5
  <2> QED BY <2>2, <2>3, <2>4, <2>5, <2>6
<1>3. ~Complete(v, N + 1)
  BY <1>1 DEF Complete
<1>4. \A b \in S : b # u => (Complete(v, b) <=> Complete(t, b))
  BY <1>1, CompleteKept
<1> HIDE DEF N, S, U
<1>5. \A b : b \in Commands(v) <=> b \in Commands(t) \/ (b = u /\ Complete(v, u))
  <2>1. \A b : b \in Commands(v) <=> b \in U /\ Complete(v, b)
    BY DEF Commands, U
  <2>2. \A b : b \in Commands(t) <=> b \in S /\ Complete(t, b)
    BY DEF Commands, S
  <2>3. \A b \in U : b \in S \/ b = N + 1
    BY <1>1, <1>2
  <2>4. \A b \in S : b \in U
    BY <1>2
  <2> QED BY <1>2, <1>3, <1>4, <2>1, <2>2, <2>3, <2>4
<1>6. CASE Complete(v, u)
  <2>1. u \in Commands(v) /\ \A b \in Commands(v) : b <= u
    <3>1. \A b \in Commands(t) : b \in S
      BY DEF Commands, S
    <3>2. u <= u
      BY <1>2
    <3> QED BY <1>2, <1>5, <1>6, <3>1, <3>2
  <2>2. HasLast(v) /\ Meaning(v) = Shown(v, u)
    BY <1>1, <2>1, MeaningIs DEF HasLast
  <2> QED BY <1>1, <1>6, <2>2
<1>7. CASE ~Complete(v, u)
  <2>1. Commands(v) = Commands(t)
    BY <1>5, <1>7
  <2>2. HasLast(v)
    BY <2>1 DEF HasLast
  <2>3. CASE Commands(t) = {}
    BY <1>1, <1>7, <2>1, <2>2, <2>3 DEF Meaning
  <2>4. CASE Commands(t) # {}
    <3>1. PICK m \in Commands(t) : \A b \in Commands(t) : b <= m
      BY <2>4 DEF HasLast
    <3>2. Meaning(t) = Shown(t, m) /\ Meaning(v) = Shown(v, m)
      BY <1>1, <2>1, <3>1, MeaningIs
    <3>3. m \in Nat /\ m < N /\ Complete(t, m)
      BY <1>1, <1>2 DEF Commands, S, N, Complete
    <3>4. v[m + 1] = t[m + 1]
      BY <1>1, <3>3
    <3>5. Shown(v, m) = Shown(t, m)
      <4>1. CASE t[m + 1] \in Patterns
        BY <3>4, <4>1 DEF Shown
      <4>2. CASE t[m + 1] \notin Patterns
        <5>1. m + 1 + Width <= N /\ Width = 5
          BY <3>3, <4>2 DEF Complete, N, Width
        <5>2. \A i \in 1 .. Width : v[m + 1 + i] = t[m + 1 + i]
          BY <1>1, <3>3, <5>1
        <5> QED BY <3>4, <4>2, <5>2 DEF Shown
      <4> QED BY <4>1, <4>2
    <3> QED BY <1>1, <1>7, <2>2, <3>2, <3>5
  <2> QED BY <2>3, <2>4
<1> QED BY <1>6, <1>7
-----------------------------------------------------------------------------
\* Where the command starts that the sketch is in.
Pending == IF rawIndex = -1 THEN Len(text) ELSE Len(text) - 1 - rawIndex

\* The bits of it that came are in rawMask.
InMask ==
    rawIndex >= 0 => /\ text[Pending + 1] \in MaskKeys
                     /\ \A i \in 1 .. rawIndex : /\ text[Pending + 1 + i] \in Bits
                                                 /\ rawMask[i] = text[Pending + 1 + i]

TextInv ==
    /\ Parsed(text, Pending) /\ InMask
    /\ HasLast(text)
    /\ LedsShowTheLastCommand

\* The last command has not been completed.
LEMMA PendingIs ==
    ASSUME Inv, TextInv
    PROVE  /\ text \in Seq(Chars) /\ Len(text) \in Nat
           /\ Pending \in 0 .. Len(text)
           /\ rawIndex >= 0 => Pending < Len(text)
           /\ ~Complete(text, Pending)
<1>1. /\ text \in Seq(Chars) /\ rawIndex \in -1 .. 4 /\ Width = 5
  <2>1. text \in Seq(Chars \ Newlines) /\ rawIndex \in -1 .. Width - 1 /\ Width = 5
    BY CharFacts DEF Inv, TypeOK
  <2>2. text \in Seq(Chars)
    <3>1. Chars \ Newlines \subseteq Chars
      OBVIOUS
    <3> QED BY <2>1, <3>1
  <2> QED BY <2>1, <2>2
<1>2. Len(text) \in Nat
  BY <1>1
<1>3. PICK n \in Nat : n = Len(text)
  BY <1>2
<1>4. Pending \in 0 .. n
  <2>1. "newline" \in Chars
    BY CharFacts
  <2> QED BY <1>1, <1>3, <2>1, ParsedGrows DEF TextInv
<1>5. PICK u \in Nat : u = Pending
  BY <1>3, <1>4
<1>6. u = IF rawIndex = -1 THEN n ELSE n - 1 - rawIndex
  BY <1>3, <1>5 DEF Pending
<1>7. ~Complete(text, u)
  <2>1. CASE rawIndex = -1
    BY <1>3, <1>6, <2>1 DEF Complete
  <2>2. CASE rawIndex >= 0
    <3>1. text[u + 1] \in MaskKeys
      BY <1>5, <2>2 DEF TextInv, InMask
    <3>2. text[u + 1] \notin Patterns
      BY <3>1, CharFacts
    <3>3. u + 1 + Width > n
      BY <1>1, <1>6, <2>2
    <3> QED BY <1>1, <1>3, <3>2, <3>3 DEF Complete
  <2> QED BY <1>1, <2>1, <2>2
<1> QED BY <1>1, <1>2, <1>3, <1>4, <1>5, <1>6, <1>7

LEMMA TextStep ==
    ASSUME Inv, TextInv, NEW c \in Chars, Read(c),
           \/ SkipNewline(c) \/ ReadMaskBit(c) \/ RejectMask(c)
           \/ StartMask(c) \/ ApplyPattern(c) \/ InvalidInput(c)
    PROVE  TextInv'
<1>1. CASE SkipNewline(c)
  <2>1. UNCHANGED <<rawMask, rawIndex, leds, text>>
    BY <1>1 DEF SkipNewline, Read
  <2> QED BY <2>1 DEF TextInv, InMask, Pending, LedsShowTheLastCommand
<1>2. CASE c \notin Newlines
  <2> DEFINE t == text
             n == Len(t)
             v == Append(t, c)
             u == Pending
  <2>1. /\ t \in Seq(Chars) /\ n \in Nat /\ u \in 0 .. n /\ ~Complete(t, u)
        /\ Parsed(t, u) /\ HasLast(t) /\ leds = Meaning(t)
        /\ rawIndex \in -1 .. 4 /\ Width = 5 /\ rawMask \in Masks
    BY PendingIs, CharFacts DEF TextInv, LedsShowTheLastCommand, Inv, TypeOK
  <2>2. /\ v \in Seq(Chars) /\ Len(v) = n + 1 /\ v[n + 1] = c
        /\ \A i \in 1 .. n : v[i] = t[i]
    BY <2>1, Grown
  <2>3. /\ EndsAt(v, u, n + 1) => Parsed(v, n + 1)
        /\ ~EndsAt(v, u, n + 1) => Parsed(v, u)
    BY <2>1, ParsedGrows
  <2>4. /\ HasLast(v)
        /\ Complete(v, u) => Meaning(v) = Shown(v, u)
        /\ ~Complete(v, u) => Meaning(v) = leds
    BY <2>1, MeaningGrows
  <2>5. text' = v
    BY <1>2 DEF Read
  <2>6. u = IF rawIndex = -1 THEN n ELSE n - 1 - rawIndex
    BY DEF Pending
  <2>7. Pending' = IF rawIndex' = -1 THEN n + 1 ELSE n - rawIndex'
    <3>1. rawIndex' = -1 \/ rawIndex' # -1
      OBVIOUS
    <3>2. Pending' = IF rawIndex' = -1 THEN Len(text') ELSE Len(text') - 1 - rawIndex'
      BY DEF Pending
    <3>3. ReadMaskBit(c) => rawIndex' \in Int
      BY <2>1 DEF ReadMaskBit
    <3>4. rawIndex' \in Int
      BY <1>2, <2>1, <3>3
         DEF SkipNewline, RejectMask, StartMask, ApplyPattern, InvalidInput
    <3> HIDE DEF n, v
    <3> QED BY <2>1, <2>2, <2>5, <3>2, <3>4
  <2>8. rawIndex >= 0 =>
           /\ v[u + 1] \in MaskKeys /\ v[u + 1] \notin Patterns
           /\ \A i \in 1 .. rawIndex : v[u + 1 + i] \in Bits /\ rawMask[i] = v[u + 1 + i]
    <3> SUFFICES ASSUME rawIndex >= 0
                 PROVE  /\ v[u + 1] \in MaskKeys /\ v[u + 1] \notin Patterns
                        /\ \A i \in 1 .. rawIndex :
                              v[u + 1 + i] \in Bits /\ rawMask[i] = v[u + 1 + i]
      OBVIOUS
    <3>1. /\ t[u + 1] \in MaskKeys
          /\ \A i \in 1 .. rawIndex : t[u + 1 + i] \in Bits /\ rawMask[i] = t[u + 1 + i]
      BY DEF TextInv, InMask
    <3> HIDE DEF t, n, v, u
    <3>2. u + 1 \in 1 .. n /\ \A i \in 1 .. rawIndex : u + 1 + i \in 1 .. n
      BY <2>1, <2>6
    <3>3. v[u + 1] = t[u + 1] /\ \A i \in 1 .. rawIndex : v[u + 1 + i] = t[u + 1 + i]
      BY <2>2, <3>2
    <3>4. t[u + 1] \notin Patterns
      BY <3>1, CharFacts
    <3> QED BY <3>1, <3>3, <3>4
  <2> HIDE DEF t, n, v, u
  <2>9. ASSUME ~EndsAt(v, u, n + 1), Pending' = u, ~Complete(v, u), leds' = leds, InMask'
        PROVE  TextInv'
    <3>1. Parsed(text', Pending') /\ HasLast(text') /\ leds' = Meaning(text')
      BY <2>3, <2>4, <2>5, <2>9
    <3> QED BY <2>9, <3>1 DEF TextInv, LedsShowTheLastCommand
  <2>10. ASSUME EndsAt(v, u, n + 1), rawIndex' = -1,
                leds' = IF Complete(v, u) THEN Shown(v, u) ELSE leds
         PROVE  TextInv'
    <3>1. Pending' = n + 1 /\ InMask'
      BY <2>7, <2>10 DEF InMask
    <3>2. Parsed(text', Pending') /\ HasLast(text') /\ leds' = Meaning(text')
      BY <2>3, <2>4, <2>5, <2>10, <3>1
    <3> QED BY <3>1, <3>2 DEF TextInv, LedsShowTheLastCommand
  <2>11. CASE ReadMaskBit(c)
    <3>1. /\ rawIndex >= 0 /\ c \in Bits
          /\ rawMask' = [rawMask EXCEPT ![rawIndex + 1] = c]
          /\ IF rawIndex + 1 < Width
             THEN rawIndex' = rawIndex + 1 /\ leds' = leds
             ELSE rawIndex' = -1 /\ leds' = rawMask'
      BY <2>11 DEF ReadMaskBit
    <3>2. /\ u + 1 + (rawIndex + 1) = n + 1 /\ u + 2 + rawIndex = n + 1
          /\ rawIndex + 1 \in 1 .. Width
      BY <2>1, <2>6, <3>1
    <3>3. rawMask' \in [1 .. Width -> Bits] /\ rawMask'[rawIndex + 1] = c
          /\ \A i \in 1 .. rawIndex : rawMask'[i] = rawMask[i]
      BY <2>1, <3>1, <3>2 DEF Masks
    <3>4. \A i \in 1 .. rawIndex + 1 : v[u + 1 + i] \in Bits /\ rawMask'[i] = v[u + 1 + i]
      <4> SUFFICES ASSUME NEW i \in 1 .. rawIndex + 1
                   PROVE  v[u + 1 + i] \in Bits /\ rawMask'[i] = v[u + 1 + i]
        OBVIOUS
      <4>1. CASE i = rawIndex + 1
        BY <2>2, <3>1, <3>2, <3>3, <4>1
      <4>2. CASE i # rawIndex + 1
        <5>1. i \in 1 .. rawIndex
          BY <2>1, <4>2
        <5> QED BY <2>8, <3>1, <3>3, <5>1
      <4> QED BY <4>1, <4>2
    <3>5. CASE rawIndex + 1 < Width
      <4>1. rawIndex' = rawIndex + 1 /\ leds' = leds /\ rawIndex' # -1
        BY <2>1, <3>1, <3>5
      <4>2. Pending' = u
        BY <2>1, <2>6, <2>7, <3>1, <4>1
      <4>3. ~EndsAt(v, u, n + 1)
        <5>1. n + 1 # u + 1 + Width
          BY <2>1, <3>2, <3>5
        <5> QED BY <2>2, <2>8, <3>1, <5>1 DEF EndsAt
      <4>4. ~Complete(v, u)
        <5>1. ~(u + 1 + Width <= Len(v))
          BY <2>1, <2>2, <3>2, <3>5
        <5> QED BY <2>8, <3>1, <5>1 DEF Complete
      <4>5. InMask'
        BY <2>5, <2>8, <3>1, <3>4, <4>1, <4>2 DEF InMask
      <4> QED BY <2>9, <4>1, <4>2, <4>3, <4>4, <4>5
    <3>6. CASE rawIndex + 1 = Width
      <4>1. rawIndex' = -1 /\ leds' = rawMask'
        BY <2>1, <3>1, <3>6
      <4>2. /\ n + 1 = u + 1 + Width
            /\ \A i \in u + 2 .. u + 1 + Width : v[i] \in Bits
        <5>1. n + 1 = u + 1 + Width
          BY <3>2, <3>6
        <5>2. ASSUME NEW i \in u + 2 .. u + 1 + Width PROVE v[i] \in Bits
          <6>1. i - (u + 1) \in 1 .. rawIndex + 1 /\ u + 1 + (i - (u + 1)) = i
            BY <2>1, <3>6
          <6> QED BY <3>4, <6>1
        <5> QED BY <5>1, <5>2
      <4>3. EndsAt(v, u, n + 1)
        <5>1. n + 1 \in u + 2 .. u + 1 + Width /\ n + 1 = u + 1 + Width
              /\ \A i \in u + 2 .. (n + 1) - 1 : i \in u + 2 .. u + 1 + Width
          BY <2>1, <4>2
        <5> QED BY <2>8, <3>1, <4>2, <5>1 DEF EndsAt
      <4>4. Complete(v, u)
        <5>1. u < Len(v) /\ u + 1 + Width <= Len(v)
          BY <2>1, <2>2, <4>2
        <5> QED BY <2>8, <3>1, <4>2, <5>1 DEF Complete
      <4>5. leds' = Shown(v, u)
        <5>1. \A i \in 1 .. Width : rawMask'[i] = v[u + 1 + i]
          BY <3>4, <3>6
        <5>2. Shown(v, u) = [i \in 1 .. Width |-> v[u + 1 + i]]
          BY <2>8, <3>1 DEF Shown
        <5>3. rawMask' = [i \in 1 .. Width |-> rawMask'[i]]
          BY <3>3
        <5> QED BY <4>1, <5>1, <5>2, <5>3
      <4> QED BY <2>10, <4>1, <4>3, <4>4, <4>5
    <3> QED BY <2>1, <3>2, <3>5, <3>6
  <2>12. CASE RejectMask(c)
    <3>1. rawIndex >= 0 /\ c \notin Bits /\ rawIndex' = -1 /\ leds' = leds
      BY <1>2, <2>12 DEF RejectMask
    <3>2. u + 2 + rawIndex = n + 1 /\ n + 1 \in u + 2 .. u + 1 + Width
      BY <2>1, <2>6, <3>1
    <3>3. EndsAt(v, u, n + 1)
      <4>1. ASSUME NEW i \in u + 2 .. (n + 1) - 1 PROVE v[i] \in Bits
        <5>1. i - (u + 1) \in 1 .. rawIndex /\ u + 1 + (i - (u + 1)) = i
          BY <2>1, <3>2
        <5> QED BY <2>8, <3>1, <5>1
      <4> QED BY <2>2, <2>8, <3>1, <3>2, <4>1 DEF EndsAt
    <3>4. ~Complete(v, u)
      BY <2>2, <2>8, <3>1, <3>2 DEF Complete
    <3> QED BY <2>10, <3>1, <3>3, <3>4
  <2>13. CASE StartMask(c)
    <3>1. rawIndex = -1 /\ c \in MaskKeys /\ rawIndex' = 0 /\ leds' = leds
      BY <2>13 DEF StartMask
    <3>2. u = n /\ Pending' = u
      BY <2>1, <2>6, <2>7, <3>1
    <3>3. v[u + 1] = c /\ c \notin Patterns
      BY <2>2, <3>1, <3>2, CharFacts
    <3>4. ~EndsAt(v, u, n + 1)
      BY <2>1, <3>1, <3>2, <3>3 DEF EndsAt
    <3>5. ~Complete(v, u)
      <4>1. ~(u + 1 + Width <= Len(v))
        BY <2>1, <2>2, <3>2
      <4> QED BY <3>3, <4>1 DEF Complete
    <3>6. InMask'
      BY <2>5, <3>1, <3>2, <3>3 DEF InMask
    <3> QED BY <2>9, <3>1, <3>2, <3>4, <3>5, <3>6
  <2>14. CASE ApplyPattern(c) \/ InvalidInput(c)
    <3>1. /\ rawIndex = -1 /\ rawIndex' = -1 /\ c \notin MaskKeys
          /\ leds' = IF c \in Patterns THEN PatternMask[c] ELSE leds
      BY <2>14, CharFacts DEF ApplyPattern, InvalidInput, Others, MaskKeys
    <3>2. u = n /\ v[u + 1] = c
      BY <2>2, <2>6, <3>1
    <3>3. EndsAt(v, u, n + 1)
      BY <3>1, <3>2 DEF EndsAt
    <3>4. Complete(v, u) <=> c \in Patterns
      BY <2>1, <2>2, <3>1, <3>2 DEF Complete
    <3>5. c \in Patterns => Shown(v, u) = PatternMask[c]
      BY <3>2 DEF Shown
    <3> QED BY <2>10, <3>1, <3>3, <3>4, <3>5
  <2>15. ~SkipNewline(c)
    BY <1>2 DEF SkipNewline
  <2> QED BY <2>11, <2>12, <2>13, <2>14, <2>15
<1> QED BY <1>1, <1>2 DEF SkipNewline, ReadMaskBit, RejectMask, StartMask, ApplyPattern,
                          InvalidInput, Bits, MaskKeys, Newlines, Patterns, Others

LEMMA InitTextInv == ASSUME Init PROVE TextInv
<1>1. text = <<>> /\ rawIndex = -1 /\ leds = Off /\ text \in Seq(Chars) /\ Len(text) = 0
  BY DEF Init
<1>2. StartsOf(text, Starts(text))
  BY <1>1, StartsAre
<1>3. Starts(text) = {0}
  BY <1>1, <1>2 DEF StartsOf
<1>4. Commands(text) = {}
  BY <1>1, <1>3 DEF Commands, Complete
<1>5. Parsed(text, 0) /\ Pending = 0 /\ InMask
  BY <1>1, <1>3 DEF Parsed, Pending, InMask
<1>6. HasLast(text) /\ LedsShowTheLastCommand
  BY <1>1, <1>4 DEF HasLast, LedsShowTheLastCommand, Meaning
<1> QED BY <1>5, <1>6 DEF TextInv

\* The types of the variables.
THEOREM TypeCorrect == Spec => []TypeOK
<1>1. Init => Inv BY InitInv
<1>2. Inv /\ [Next]_vars => Inv' BY StepInv
<1>3. Inv => TypeOK BY DEF Inv
<1> QED BY <1>1, <1>2, <1>3, PTL DEF Spec

\* A pattern that is sent twice is shown, 0 and 1 at the latest when they are
\* sent six times, whatever was sent before.
THEOREM RepeatedIsShown == Spec => []RepeatedPatternIsShown
<1>1. Init => Inv BY InitInv
<1>2. Inv /\ [Next]_vars => Inv' BY StepInv
<1>3. Inv => RepeatedPatternIsShown BY DEF Inv
<1> QED BY <1>1, <1>2, <1>3, PTL DEF Spec

\* For inputs of any length: whatever was cut short, spoilt or unknown before, the
\* LEDs show the last command that came whole.
THEOREM LastCommandIsShown == Spec => []LedsShowTheLastCommand
<1>1. Init => Inv /\ TextInv
  BY InitInv, InitTextInv
<1>2. (Inv /\ TextInv) /\ [Next]_vars => (Inv /\ TextInv)'
  <2> SUFFICES ASSUME Inv, TextInv, [Next]_vars PROVE Inv' /\ TextInv'
    OBVIOUS
  <2>1. Inv'
    BY StepInv
  <2>2. CASE UNCHANGED vars
    BY <2>1, <2>2 DEF vars, TextInv, InMask, Pending, LedsShowTheLastCommand
  <2>3. CASE Next
    <3>1. TextInv'
      BY <2>3, NextReads, TextStep
    <3> QED BY <2>1, <3>1
  <2> QED BY <2>2, <2>3
<1>3. TextInv => LedsShowTheLastCommand
  BY DEF TextInv
<1> QED BY <1>1, <1>2, <1>3, PTL DEF Spec
=============================================================================
