---------------------------- MODULE LedController ----------------------------
(***************************************************************************)
(* The sketch led_pattern_controller.ino: five LEDs driven by characters   *)
(* from the serial line.  A digit shows a pattern, M and five bits a mask. *)
(* The loop takes one character per turn, so a turn is one action; any     *)
(* character may be missing from what the host sent, hence any may come.   *)
(***************************************************************************)
EXTENDS Integers, FiniteSetsExt, SequencesExt

CONSTANTS
    Alphabet,    \* the characters that arrive
    MaxInput     \* bound: how many of them

Bits     == {"0", "1"}
Patterns == Bits \cup {"2", "3", "4", "5", "6"}
MaskKeys == {"M", "m"}
Newlines == {"newline", "return"}
Others   == {"other"}
Chars    == Patterns \cup MaskKeys \cup Newlines \cup Others

ASSUME LedAssumption == Alphabet \subseteq Chars /\ MaxInput \in Nat

VARIABLES
    rawMask,     \* the bits of a mask being read, and those of older ones
    rawIndex,    \* how many bits of it are there; -1 outside a mask
    leds,        \* the five output pins
    turns,       \* how many characters were read
    text,        \* history: those that are no ends of lines
    streak       \* history: the last character and how often it came in a row

vars == <<rawMask, rawIndex, leds, turns, text, streak>>

Width == 5
Masks == [1 .. Width -> Bits]
Off   == <<"0", "0", "0", "0", "0">>

\* What applyPatternCommand shows for a digit.
PatternMask ==
    [c \in Patterns |->
        CASE c = "0" -> Off
          [] c = "1" -> <<"1", "1", "1", "1", "1">>
          [] c = "2" -> <<"1", "0", "1", "0", "1">>
          [] c = "3" -> <<"0", "1", "0", "1", "0">>
          [] c = "4" -> <<"1", "1", "0", "0", "0">>
          [] c = "5" -> <<"1", "0", "1", "0", "0">>
          [] c = "6" -> <<"1", "0", "0", "1", "0">>]

Init ==
    /\ rawMask = Off /\ rawIndex = -1
    /\ leds = Off
    /\ turns = 0 /\ text = <<>>
    /\ streak = [char |-> "newline", times |-> 0]

-----------------------------------------------------------------------------
(* loop.                                                                   *)

\* Every turn reads one character.  A streak counts to one past a full mask.
Read(c) ==
    /\ turns < MaxInput
    /\ turns' = turns + 1
    /\ text' = IF c \in Newlines THEN text ELSE Append(text, c)
    /\ streak' = IF c \in Newlines THEN streak
                 ELSE [char  |-> c,
                       times |-> IF c # streak.char THEN 1
                                 ELSE Min({streak.times + 1, Width + 1})]

\* Ends of lines are skipped, also inside a mask.
SkipNewline(c) ==
    /\ c \in Newlines
    /\ Read(c)
    /\ UNCHANGED <<rawMask, rawIndex, leds>>

\* readRawMaskBit: a bit is stored and the fifth shows the mask ...
ReadMaskBitOneLess(c) ==                                           \* mutant
    /\ rawIndex >= 0 /\ c \in Bits
    /\ Read(c)
    /\ rawMask' = [rawMask EXCEPT ![rawIndex + 1] = c]
    /\ IF rawIndex + 1 < Width - 1
       THEN rawIndex' = rawIndex + 1 /\ UNCHANGED leds
       ELSE rawIndex' = -1 /\ leds' = rawMask'
ReadMaskBit(c) ==
    /\ rawIndex >= 0 /\ c \in Bits
    /\ Read(c)
    /\ rawMask' = [rawMask EXCEPT ![rawIndex + 1] = c]
    /\ IF rawIndex + 1 < Width
       THEN rawIndex' = rawIndex + 1 /\ UNCHANGED leds
       ELSE rawIndex' = -1 /\ leds' = rawMask'

\* ... and any other character gives the mask up and is lost with it.
IgnoreNonBit(c) ==                                                 \* mutant
    /\ rawIndex >= 0 /\ c \notin Bits \cup Newlines
    /\ Read(c)
    /\ UNCHANGED <<rawMask, rawIndex, leds>>
RejectMask(c) ==
    /\ rawIndex >= 0 /\ c \notin Bits \cup Newlines
    /\ Read(c)
    /\ rawIndex' = -1
    /\ UNCHANGED <<rawMask, leds>>

StartMask(c) ==
    /\ rawIndex = -1 /\ c \in MaskKeys
    /\ Read(c)
    /\ rawIndex' = 0
    /\ UNCHANGED <<rawMask, leds>>

\* applyPatternCommand, setLeds.
ApplyPattern(c) ==
    /\ rawIndex = -1 /\ c \in Patterns
    /\ Read(c)
    /\ leds' = PatternMask[c]
    /\ UNCHANGED <<rawMask, rawIndex>>

InvalidInput(c) ==
    /\ rawIndex = -1 /\ c \in Others
    /\ Read(c)
    /\ UNCHANGED <<rawMask, rawIndex, leds>>

Next ==
    \E c \in Alphabet :
        \/ SkipNewline(c) \/ ReadMaskBit(c) \/ RejectMask(c)
        \/ StartMask(c) \/ ApplyPattern(c) \/ InvalidInput(c)

Spec == Init /\ [][Next]_vars

-----------------------------------------------------------------------------
(* What setup() tells the host: "0" ... "6" are patterns, "Mxxxxx" is a    *)
(* mask.  The reference cuts the input into commands without looking at    *)
(* the state of the sketch.                                                *)

\* The command that starts after place b of the text t ends at place e.  A mask
\* takes five bits, or the bits up to the character that spoils it and that
\* character.
EndsAt(t, b, e) ==
    IF t[b + 1] \notin MaskKeys
    THEN e = b + 1
    ELSE /\ e \in b + 2 .. b + 1 + Width
         /\ \A i \in b + 2 .. e - 1 : t[i] \in Bits
         /\ e = b + 1 + Width \/ t[e] \notin Bits

\* The places of the text at which a command starts or may start: in starts[n],
\* those up to n.
Starts(t) ==
    LET starts[n \in 0 .. Len(t)] ==
            IF n = 0 THEN {0}
            ELSE LET before == starts[n - 1]
                 IN  before \cup {e \in {n} : \E b \in before : EndsAt(t, b, e)}
    IN  starts[Len(t)]

\* The commands among them that are complete and mean something.
Complete(t, b) ==
    /\ b < Len(t)
    /\ \/ t[b + 1] \in Patterns
       \/ /\ t[b + 1] \in MaskKeys /\ b + 1 + Width <= Len(t)
          /\ \A i \in b + 2 .. b + 1 + Width : t[i] \in Bits

Commands(t) == {b \in Starts(t) : Complete(t, b)}

Shown(t, b) ==
    IF t[b + 1] \in Patterns THEN PatternMask[t[b + 1]]
    ELSE [i \in 1 .. Width |-> t[b + 1 + i]]

Meaning(t) ==
    LET commands == Commands(t)
    IN  IF commands = {} THEN Off ELSE Shown(t, Max(commands))

-----------------------------------------------------------------------------
(* Properties.                                                             *)

\* The variables have their types.
TypeOK ==
    /\ rawMask \in Masks /\ leds \in Masks
    /\ rawIndex \in -1 .. Width - 1
    /\ turns \in Nat /\ text \in Seq(Chars \ Newlines)
    /\ streak \in [char : Chars, times : 0 .. Width + 1]

\* The LEDs show the last complete command of the input, whatever came before
\* it, between it and after it; bits of an older or unfinished mask never show.
LedsShowTheLastCommand == leds = Meaning(text)

\* An unfinished mask swallows commands, but not for long: the host that
\* sends a pattern twice sees it, and for the patterns 0 and 1, which are also
\* bits, at the latest when it sends them six times.
RepeatedPatternIsShown ==
    streak.char \in Patterns /\ streak.times >= (IF streak.char \in Bits THEN Width + 1 ELSE 2)
        => leds = PatternMask[streak.char]
=============================================================================
