--------------------------- MODULE RegisterBlocks ---------------------------
(* reading.py: how the registers of the polled sensors are grouped into Modbus
   reads, and how the words of a read become readings.

   A sensor is a record [key, address, count, value_type, options] (the fields of
   MeterSensorDescription the two functions use; a sensor without options has
   the empty function).  A word is 0 .. 65535.  A reading is tagged with what it
   is: a number (before "scale" and rounding, which change no identity of it), a
   float as its two words, the digits of a BCD or HEX register as the words they
   print, or the label of an option. *)
EXTENDS Integers, Sequences, FiniteSets, SequencesExt, TLC

CONSTANT MaxRegistersPerRead      \* MAX_REGISTERS_PER_READ, 120 in const.py
ASSUME LimitAssumption == MaxRegistersPerRead \in Nat \ {0, 1}

WordBase == 65536
NoOptions == <<>>

End(x) == x.address + x.count

(* A block is [address, count, sensors], the sensors in address order.  Every
   register type in the tables is HOLDING, so the type is left out. *)
NewBlock(s) == [address |-> s.address, count |-> s.count, sensors |-> <<s>>]

Extended(b, s) ==
    [b EXCEPT !.count = (IF End(b) >= End(s) THEN End(b) ELSE End(s)) - b.address,
              !.sensors = Append(@, s)]

\* Wrong on purpose: the limit is compared with the end of the block only.
FitsOneMore(b, s) ==
    s.address <= End(b) /\ End(b) - b.address <= MaxRegistersPerRead

Fits(b, s) ==
    s.address <= End(b) /\ End(s) - b.address <= MaxRegistersPerRead

Grouped(blocks, s) ==
    LET n == Len(blocks)
    IN  IF n > 0 /\ Fits(blocks[n], s)
        THEN [blocks EXCEPT ![n] = Extended(@, s)]
        ELSE Append(blocks, NewBlock(s))

\* The next sensor in address order.  Some sensors of a GROW meter are two names
\* of one register; which of them is first changes nothing but the order in a block.
FirstOf(sensors) == CHOOSE s \in sensors : \A t \in sensors : s.address <= t.address

BuildRegisterBlocks(sensors) ==
    LET after[n \in 0 .. Cardinality(sensors)] ==
          IF n = 0 THEN [blocks |-> <<>>, left |-> sensors]
          ELSE LET before == after[n - 1]
                   s == FirstOf(before.left)
               IN  [blocks |-> Grouped(before.blocks, s), left |-> before.left \ {s}]
    IN  after[Cardinality(sensors)].blocks

(* What the grouping promises: every sensor is read by exactly one block, a
   block reads nothing but registers of its own sensors, within the limit. *)
RegistersOf(x) == x.address .. End(x) - 1

CoversExactly(blocks, sensors) ==
    /\ \A s \in sensors :
          Cardinality({i \in DOMAIN blocks : s \in Range(blocks[i].sensors)}) = 1
    /\ \A i \in DOMAIN blocks :
          /\ Range(blocks[i].sensors) \subseteq sensors
          /\ blocks[i].count <= MaxRegistersPerRead
          /\ RegistersOf(blocks[i]) =
                UNION {RegistersOf(s) : s \in Range(blocks[i].sensors)}

-----------------------------------------------------------------------------
\* The registers of sensor s in the words read for block b.
\* Wrong on purpose: every sensor before s is taken to have one register.
SliceByPosition(b, s, words) ==
    LET offset == Cardinality({t \in Range(b.sensors) : t.address < s.address})
    IN  SubSeq(words, offset + 1, offset + s.count)

Slice(b, s, words) ==
    LET offset == s.address - b.address
    IN  SubSeq(words, offset + 1, offset + s.count)

Signed(n, base) == IF 2 * n >= base THEN n - base ELSE n

Raw(s, words) ==
    CASE s.value_type = "uint16" -> words[1]
      [] s.value_type = "int16"  -> Signed(words[1], WordBase)
      [] s.value_type = "uint32" -> words[1] * WordBase + words[2]
      [] s.value_type = "int32"  -> Signed(words[1], WordBase) * WordBase + words[2]

DecodeSensorValue(s, words) ==
    IF s.value_type \in {"bcd16", "hex16", "bcd32", "hex32"} THEN [digits |-> words]
    ELSE IF s.value_type = "float32" THEN [float |-> words]
    ELSE LET value == Raw(s, words)
         IN  IF s.options = NoOptions THEN [num |-> value]
             ELSE IF value \in DOMAIN s.options THEN [label |-> s.options[value]]
             ELSE [label |-> ToString(value)]
=============================================================================
