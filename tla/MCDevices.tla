----------------------------- MODULE MCDevices ------------------------------
(* The devices, each on its own: the Wiegand reader, the I2C bus, displays   *)
(* on an SPI bus, and the chips.                                             *)
EXTENDS HumiditySensors, LcdSpi, TLC

CONSTANTS t1, t2, d1, d2, NoThread

VARIABLES part,
          line, shown, sent, struck, isr, enabled, bit_count, data, silent, parser, count,
          reported, overlapped,
          i2cGuard, initialized, installed, device, timeout, saved, pointer, i2cOp, calls,
          moving, ok, got, garbled, made, faults, unset

wiegandVars == <<line, shown, sent, struck, isr, enabled, bit_count, data, silent, parser,
                 count, reported, overlapped>>
i2cVars == <<i2cGuard, initialized, installed, device, timeout, saved, pointer, i2cOp, calls,
             moving, ok, got, garbled, made, faults, unset>>
MCvars == <<part, wiegandVars, i2cVars, lcdVars, vars>>

-----------------------------------------------------------------------------
(* Frames: a number as the bits the reader sends, cards of 26 and 34 bits,   *)
(* each with one bit damaged or cut short, and keys.                         *)

Word(n, w) == [i \in 1..w |-> (n \div 2^(w - i)) % 2]
OnesOf(u) == Len(SelectSeq(u, LAMBDA b : b = 1))
Powers(b) == {Len(b) - i : i \in {j \in DOMAIN b : b[j] = 1}}
Card(u, l) ==
    [bits |-> <<OnesOf(u) % 2>> \o u \o l \o <<(OnesOf(l) + 1) % 2>>, carries |-> <<Powers(u \o l)>>]
Card26 == Card(Word(2740, 12), Word(1367, 12))
Card34 == Card(Word(4660, 16), Word(22136, 16))
Short26 == Card(Word(0, 12), Word(2871, 12))
Short34 == Card(Word(0, 16), Word(40413, 16))
Damaged(f, i) == [bits |-> [f.bits EXCEPT ![i] = 1 - @], carries |-> <<>>]
Cut(f, n) == [bits |-> SubSeq(f.bits, 1, n), carries |-> <<>>]
Key(k) == [bits |-> Word(k, 4), carries |-> <<Powers(Word(k, 4))>>]
\* The low nibble is the key, the high one its complement.
EightBits == [bits |-> <<1, 0, 1, 0, 0, 1, 0, 1>>, carries |-> <<Powers(Word(5, 4))>>]
MCLines ==
    {<<Damaged(Card26, i)>> : i \in 1..26} \cup {<<Damaged(Card34, i)>> : i \in 1..34}
    \cup {<<Key(1), Key(2), Key(4)>>, <<Card34>>, <<Short34>>, <<Cut(Card26, 7), Short26>>,
          <<Card26>>, <<EightBits, Key(9)>>}

W == INSTANCE Wiegand WITH Lines <- MCLines, signalled <- reported
I == INSTANCE I2CBus
       WITH Threads <- {t1, t2}, Registers <- {"a", "b"}, MaxCalls <- 2, MaxFaults <- 2,
            guard <- i2cGuard, op <- i2cOp
MCMaxOps == [d \in {d1, d2} |-> IF d = d1 THEN 2 ELSE 1]

-----------------------------------------------------------------------------
(* The chips have their variables in common.                                 *)

Time(s, m, h, d, mo, y) ==
    [seconds |-> s, minutes |-> m, hours24 |-> h, days |-> d, weekdays |-> 6, months |-> mo, years |-> y]
Settings ==
    {[mode |-> m, humidity |-> h, pressure |-> 5 - h, temperature |-> h, standby |-> 7 * (f % 2),
      filter |-> f, spi |-> f % 2] : m \in {1, 3}, h \in {0, 5}, f \in {3, 4}}

MCInputs ==
    {[level |-> l, gpio |-> [pin \in 0..3 |-> IF pin = 2 THEN 2049 ELSE l]] : l \in {2047, 4095}}

Axp == INSTANCE AxpPMU
         WITH Regs <- {"r1", "r2"}, Bits <- {0, 1}, Inputs <- MCInputs,
              MaxCalls <- 2, MaxFaults <- 1
Rtc == INSTANCE PCF8563
         WITH Times <- {Time(58, 59, 19, 29, 1, 2000), Time(9, 9, 23, 31, 11, 2099),
                        Time(60, 61, 24, 29, 1, 1999), Time(59, 59, 9, 31, 3, 2024)},
              Alarms <- {[minute |-> 60, hour24 |-> 7, day |-> 30, weekday |-> 1, on |-> TRUE]},
              MaxCalls <- 2, MaxTicks <- 2
Ads == INSTANCE ADS1115
         WITH Configs <- {[mux |-> m, rate |-> r, comp |-> 0, start |-> FALSE] : m \in {0, 4}, r \in {0, 7}},
              Muxes <- {0, 5}, Thresholds <- {1, 2}
Mcp == INSTANCE MCP23017 WITH MaxFaults <- 2
Bme == INSTANCE BME280
         WITH Levels <- {65537, 1048575}

MCWords == [status |-> Word(32784, 16), temperature |-> Word(48879, 16), humidity |-> Word(26214, 16)]
\* Up to three bits anywhere, and any burst that spans eight bits.
MCFlips ==
    {{i, j, k} : i, j, k \in 1..24} \cup UNION {SUBSET (i..(i + 7)) : i \in 1..17}
MCDhtBytes == <<45, 3, 21, 134>>

-----------------------------------------------------------------------------
(* A part that is not looked at can take no step.                            *)

WiegandRests ==
    /\ line = <<>> /\ shown = 0 /\ sent = 0 /\ struck = FALSE /\ isr = "idle" /\ enabled = {0, 1}
    /\ bit_count = 0 /\ data = W!Zeroes /\ silent = TRUE /\ parser = "idle" /\ count = 0
    /\ reported = <<>> /\ overlapped = FALSE
BusesRest == I!Init /\ pointer = "a" /\ LcdInit
ChipsRest == chip = 0 /\ object = 0 /\ task = 0 /\ log = 0
FairPartsRest == WiegandRests /\ BusesRest

MCInit ==
    \/ part = "wiegand" /\ W!Init /\ BusesRest /\ ChipsRest
    \/ part = "i2c" /\ I!Init /\ LcdInit /\ WiegandRests /\ ChipsRest
    \/ part = "lcd" /\ BusesRest /\ WiegandRests /\ ChipsRest
    \/ part = "axp" /\ Axp!Init /\ object = 0 /\ FairPartsRest
    \/ part = "rtc" /\ Rtc!Init /\ object = 0 /\ FairPartsRest
    \/ part = "hum" /\ Init /\ FairPartsRest
    \/ part = "ads" /\ Ads!Init /\ FairPartsRest
    \/ part = "mcp" /\ Mcp!Init /\ object = 0 /\ FairPartsRest
    \/ part = "bme" /\ Bme!Init /\ FairPartsRest

ChipNext ==
    \/ part = "axp" /\ Axp!Next /\ UNCHANGED object
    \/ part = "rtc" /\ Rtc!Next /\ UNCHANGED object
    \/ part = "hum" /\ Next
    \/ part = "ads" /\ Ads!Next
    \/ part = "mcp" /\ Mcp!Next /\ UNCHANGED object
    \/ part = "bme" /\ Bme!Next

\* Bound: displays are followed until a task is impatient or a transaction is
\* refused; after an operation was interleaved those under way end, and no
\* other one begins.
MCLcdNext ==
    /\ ~impatient /\ refused = 0
    /\ LcdNext
    /\ interleaved => /\ UNCHANGED displayLife
                      /\ \A d \in Displays : lcdOp[d] = "idle" => lcdOp'[d] = "idle"

MCNext ==
    /\ UNCHANGED part
    /\ \/ part = "wiegand" /\ W!Next /\ UNCHANGED <<i2cVars, lcdVars, vars>>
       \/ part = "i2c" /\ I!Next /\ UNCHANGED <<wiegandVars, lcdVars, vars>>
       \/ part = "lcd" /\ MCLcdNext /\ UNCHANGED <<wiegandVars, i2cVars, vars>>
       \/ ChipNext /\ UNCHANGED <<wiegandVars, i2cVars, lcdVars>>

\* The fairness of a part that rests asks for no step.
MCSpec == MCInit /\ [][MCNext]_MCvars /\ W!Fairness /\ I!Fairness

-----------------------------------------------------------------------------
(* Properties of the parts, see there.                                       *)

\* Of Wiegand and I2CBus.
CardsRead == W!CardsRead
BusIsShared == I!BusIsShared

\* Settings reach the chips as they were asked for and only these change, though
\* transactions fail and tasks share the chip; where two tasks change or read the
\* same register at once, each module says what is left out: of AxpPMU, PCF8563,
\* ADS1115, MCP23017 and BME280.
SettingsAsAsked ==
    /\ part = "axp" => Axp!OnlyNamedBitsChange
    /\ part = "rtc" => Rtc!EnablesKept
    /\ part = "ads" => Ads!ConfigurationAsAsked
    /\ part = "mcp" => Mcp!KnownStateReached /\ Mcp!ArgumentsArrive
    /\ part = "bme" => Bme!ConfigurationReadBack

\* A reading that is handed out is one that the chip has made, of what was asked
\* for: of AxpPMU, PCF8563, HumiditySensors and BME280.
ReadingsTrue ==
    /\ part = "axp" => Axp!ReadingsInRange
    /\ part = "rtc" => Rtc!KeepsTheTime
    /\ part = "hum" => NoDamagePasses /\ AnswersTheQuestion
    /\ part = "bme" => Bme!MeasuresWithItsTrimming
=============================================================================
