------------------------------- MODULE Wiegand -------------------------------
(***************************************************************************)
(* The Wiegand reader (application/io/wiegand/Wiegand.cpp): two interrupt  *)
(* handlers shift the bits of a key or a card into data while a timer of   *)
(* the task, on the other core, looks every 25 ms whether the line has     *)
(* been silent and then parses what is there.  No lock protects bit_count, *)
(* data and last_data; every access is a step of its own.                  *)
(*                                                                         *)
(* Time is the flag silent: more than 25 ms have passed since last_data.   *)
(***************************************************************************)
EXTENDS Integers, Sequences, FiniteSets

CONSTANTS
    Lines             \* what a reader sends: sequences of frames, the bits of
                      \* each and the number that they carry, if any

VARIABLES
    line,             \* the frames the reader sends
    shown,            \* the number of frames it has begun to send
    sent,             \* the number of bits of the current frame on the wire
    struck,           \* a pulse has come since parse() began
    isr,              \* the interrupt handler: "idle" or the next thing it does
    enabled,          \* the pins whose interrupt is enabled, 0 for D0, 1 for D1
    bit_count, data, silent,
    parser,           \* where Wiegand::parse() is
    count,            \* the value of bit_count that parse() decides on
    signalled,        \* the numbers sent to key_queue and number_queue
    overlapped        \* history: the reader and parse() did not take turns

readerVars == <<line, shown, sent, struck>>
bitVars == <<bit_count, data>>
vars == <<readerVars, isr, enabled, bitVars, silent, parser, count, signalled, overlapped>>

-----------------------------------------------------------------------------
(* The frames.  data is std::bitset<34>; the oldest bit is the first.      *)

Zeroes == [i \in 1..34 |-> 0]

Init ==
    /\ line \in Lines
    /\ shown = 0 /\ sent = 0 /\ struck = FALSE
    /\ isr = "idle"
    /\ enabled = {0, 1}
    /\ bit_count = 0 /\ data = Zeroes
    /\ silent = FALSE
    /\ parser = "idle" /\ count = 0
    /\ signalled = <<>>
    /\ overlapped = FALSE

Shift(d, b) == Append(Tail(d), b)

\* The n lowest bits.
Low(d, n) == SubSeq(d, 35 - n, 34)

\* A number, as the set of the powers of two that it is the sum of.
Number(bits) == {Len(bits) - i : i \in {j \in DOMAIN bits : bits[j] = 1}}

Ones(d) == Cardinality({i \in DOMAIN d : d[i] = 1})

\* Mutant of ParityHolds: the result of the lower half is not taken along.
UpperParityHolds(d, n) == Ones(SubSeq(Low(d, 2 * n), 1, n)) % 2 = 0

\* Even parity over the upper half of n bits, odd parity over the lower half.
ParityHolds(d, n) ==
    /\ Ones(SubSeq(Low(d, 2 * n), 1, n)) % 2 = 0
    /\ Ones(Low(d, n)) % 2 = 1

\* A key of 8 bits: low == ~high, in the 64 bits of to_ullong().
NibblesAgree(d) ==
    LET Value(s) == LET v[i \in 0..Len(s)] == IF i = 0 THEN 0 ELSE 2 * v[i - 1] + s[i] IN v[Len(s)]
    IN  Value(Low(d, 4)) = -(16 * Value(SubSeq(Low(d, 8), 1, 4))) - 1

\* id: the data bits of the two halves, as numbers, one or the other.
Overlay(d, n) == Number(SubSeq(Low(d, 2 * n), 2, n)) \cup Number(SubSeq(Low(d, n), 1, n - 1))

\* What the evaluation in parse() sends for n bits: at most one number.
Evaluate(n, d) ==
    CASE n = 4 -> <<Number(Low(d, 4))>>
      [] n = 8 -> IF NibblesAgree(d) THEN <<Number(Low(d, 4))>> ELSE <<>>
      [] n = 26 -> IF ParityHolds(d, 13) THEN <<Overlay(d, 13)>> ELSE <<>>
      [] n = 34 -> IF ParityHolds(d, 17) THEN <<Overlay(d, 17)>> ELSE <<>>
      [] OTHER -> <<>>

-----------------------------------------------------------------------------
(* The reader and the interrupts.                                          *)

Bits == line[shown].bits
BetweenFrames == sent = IF shown = 0 THEN 0 ELSE Len(Bits)

\* A key is pressed or a card is shown.
StartFrame ==
    /\ BetweenFrames /\ isr = "idle" /\ shown < Len(line)
    /\ shown' = shown + 1 /\ sent' = 0
    /\ overlapped' = (overlapped \/ bit_count > 0 \/ parser # "idle")
    /\ UNCHANGED <<line, struck, isr, enabled, bitVars, silent, parser, count, signalled>>

\* A negative edge on D0 or D1; while its interrupt is disabled it is lost.
\* Two edges are a millisecond or more apart, parse() takes less.
Pulse ==
    /\ ~BetweenFrames /\ isr = "idle" /\ ~struck
    /\ struck' = (parser # "idle")
    /\ sent' = sent + 1
    /\ isr' = IF Bits[sent + 1] \in enabled THEN "count" ELSE "idle"
    /\ UNCHANGED <<line, shown, enabled, bitVars, silent, parser, count, signalled, overlapped>>

\* zero() and one(): ++bit_count, then data <<= 1 with the bit, then last_data.
Count ==
    /\ isr = "count" /\ isr' = "shift"
    /\ bit_count' = (bit_count + 1) % 256
    /\ UNCHANGED <<readerVars, enabled, data, silent, parser, count, signalled, overlapped>>

ShiftIn ==
    /\ isr = "shift" /\ isr' = "stamp"
    /\ data' = Shift(data, Bits[sent])
    /\ UNCHANGED <<readerVars, enabled, bit_count, silent, parser, count, signalled, overlapped>>

Stamp ==
    /\ isr = "stamp" /\ isr' = "idle"
    /\ silent' = FALSE
    /\ UNCHANGED <<readerVars, enabled, bitVars, parser, count, signalled, overlapped>>

\* 25 ms have passed since last_data: this only happens between two frames.
Silence ==
    /\ BetweenFrames /\ isr = "idle" /\ ~silent
    /\ silent' = TRUE
    /\ UNCHANGED <<readerVars, isr, enabled, bitVars, parser, count, signalled, overlapped>>

Reader == StartFrame \/ Pulse \/ Count \/ ShiftIn \/ Stamp

-----------------------------------------------------------------------------
(* Wiegand::parse(), on the task.                                          *)

At(place, next) ==
    /\ parser = place /\ parser' = next
    /\ struck' = (struck /\ next # "idle")
    /\ UNCHANGED <<line, shown, sent, isr, silent>>

\* The timer expires.  bit_count may be that of a first bit whose handler has
\* not stored last_data yet.
Check ==
    /\ bit_count > 0 /\ silent
    /\ overlapped' = (overlapped \/ ~BetweenFrames \/ isr # "idle")
    /\ At("idle", "disable0")
    /\ UNCHANGED <<enabled, bitVars, count, signalled>>

Disable0 == enabled' = enabled \ {0} /\ At("disable0", "disable1") /\ UNCHANGED <<bitVars, count, signalled, overlapped>>
Disable1 == enabled' = enabled \ {1} /\ At("disable1", "length") /\ UNCHANGED <<bitVars, count, signalled, overlapped>>

ReadLength ==
    /\ count' = bit_count
    /\ At("length", "evaluate")
    /\ UNCHANGED <<enabled, bitVars, signalled, overlapped>>

Report ==
    /\ signalled' = signalled \o Evaluate(count, data)
    /\ At("evaluate", "clear_count")
    /\ UNCHANGED <<enabled, bitVars, count, overlapped>>

\* clear_bits()
ClearCount ==
    /\ bit_count' = 0
    /\ At("clear_count", "clear_data")
    /\ UNCHANGED <<enabled, data, count, signalled, overlapped>>

ClearData ==
    /\ data' = Zeroes
    /\ At("clear_data", "enable0")
    /\ UNCHANGED <<enabled, bit_count, count, signalled, overlapped>>

Enable0 == enabled' = enabled \cup {0} /\ At("enable0", "enable1") /\ UNCHANGED <<bitVars, count, signalled, overlapped>>
Enable1 == enabled' = enabled \cup {1} /\ At("enable1", "idle") /\ UNCHANGED <<bitVars, count, signalled, overlapped>>

Parse ==
    \/ Check \/ Disable0 \/ Disable1 \/ ReadLength \/ Report
    \/ ClearCount \/ ClearData \/ Enable0 \/ Enable1

Next == Reader \/ Silence \/ Parse

Spec == Init /\ [][Next]_vars

\* The timer keeps ticking, a handler that was entered returns, a frame that
\* was begun is sent to its end, and time passes.
Fairness == WF_vars(Parse) /\ WF_vars(Pulse \/ Count \/ ShiftIn \/ Stamp) /\ WF_vars(Silence)

-----------------------------------------------------------------------------
(* Properties.                                                             *)

\* The frames that are to be reported among the first n.  By the comments in
\* parse() a key of 8 bits is one of them; but the code compares its low nibble
\* with a complement of 64 bits, which never agrees.
Reportable(n) == SelectSeq(SubSeq(line, 1, n), LAMBDA f : f.carries # <<>> /\ Len(f.bits) # 8)

\* By the comments a card has upper and lower data bits; but the number that the
\* code reports has the upper ones laid over the lower ones.
UpperIsZero(f) == \A i \in 2..(Len(f.bits) \div 2) : f.bits[i] = 0

\* One number for each of these frames, in order; keys of 4 bits and cards
\* without upper data bits with the number that they carry.
Reported(frames) ==
    /\ Len(signalled) = Len(frames)
    /\ \A i \in DOMAIN frames :
         Len(frames[i].bits) = 4 \/ UpperIsZero(frames[i]) => <<signalled[i]>> = frames[i].carries

\* As long as the reader and parse() take turns, nothing is reported but what
\* the frames carry: a damaged or cut frame is dropped, and none shifts the
\* ones that follow.
OnlyWhatIsShown ==
    ~overlapped => Reported(Reportable(shown)) \/ (shown > 0 /\ Reported(Reportable(shown - 1)))

\* And a frame that was parsed has been reported.
AllThatIsShown ==
    (~overlapped /\ BetweenFrames /\ isr = "idle" /\ bit_count = 0) => Reported(Reportable(shown))

\* Whatever overlapped, no bit of a frame that was mistreated stays behind to
\* shift the next one, and no pin is left disabled.
Resynchronizes == <>[](bit_count = 0 /\ enabled = {0, 1})

\* Cards and keys are read as they are shown, with the two exceptions above, and
\* whatever overlapped is got over.
CardsRead == [](OnlyWhatIsShown /\ AllThatIsShown) /\ Resynchronizes
=============================================================================
