------------------------------ MODULE Formats -------------------------------
(***************************************************************************)
(* What becomes of a block: the words the SPI has received, converted to   *)
(* a line of CSV, to a packet and to raw data, and the time stamp in it.   *)
(* PingPong, StreamFifo and StreamUdp say when a block is formatted; here  *)
(* it is the arithmetic, in the widths of its variables, against what a    *)
(* receiver makes of it.  The program is asked for one of the formats; the *)
(* three are put side by side here, as made of the same block.             *)
(*                                                                         *)
(* A word is received low byte first, and the ADC sends the upper byte of  *)
(* its sample first: word = upper + 256 * lower.  A line of CSV is the     *)
(* sequence of its values before they are scaled to volts and printed.     *)
(***************************************************************************)
EXTENDS Integers, Sequences, Functions

CONSTANTS
  Bytes,      \* bytes the ADC may send
  NSamp,      \* samples in a block
  FirstNums,  \* numbers of the first call: main counts from 0
  ClockMod,   \* values of the microsecond clock: 2^32
  Gaps,       \* how far apart blocks may be
  MaxCalls    \* bound: blocks formatted

ASSUME BytesAssumption == Bytes \subseteq 0..255
ASSUME NSampAssumption == NSamp \in 1..1024
ASSUME ClockAssumption ==
  /\ ClockMod \in Nat \ {0} /\ Gaps \subseteq Nat \ {0}
  /\ FirstNums \subseteq Nat /\ MaxCalls \in Nat

VARIABLES
  calls, num,  \* num: of the next call
  samples,     \* the block, as the ADC has sent it: <<upper, lower>>
  csv, packet, raw,    \* what the functions make of it
  now, first,  \* the time of this block and of the first, without wrap
  usec_start,  \* 0: not set
  usec         \* the time printed with data_format FMT_USEC

vars == <<calls, num, samples, csv, packet, raw, now, first, usec_start, usec>>

-----------------------------------------------------------------------------
uint16(x) == x % 65536
int16(x)  == ((x + 32768) % 65536) - 32768
byte(x)   == x % 256

(* C's division and remainder, which round to 0.                           *)
Quot(v) == IF v >= 0 THEN v \div 256 ELSE -((-v) \div 256)
Rem(v)  == v - 256 * Quot(v)

(* The word in rx_buff.                                                    *)
Received(s) == s[1] + 256 * s[2]

(* ADC_RAW_VAL: an int, of which nothing cuts off the upper part           *)
ADC_RAW_VAL(d) == uint16(d) * 256 + uint16(d) \div 256

Csv(block) == [x \in 1..NSamp |-> ADC_RAW_VAL(Received(block[x]))]

(* The bytes at 2*x and 2*x+1, for the pair of each x                      *)
Laid(pairs) ==
  [k \in 1..(2 * Len(pairs)) |->
    IF k % 2 = 1 THEN pairs[(k + 1) \div 2][1] ELSE pairs[k \div 2][2]]

(* adc_stream_packet                                                       *)
LittleEndian(w) == <<byte(w), byte(w \div 256)>>

(* Mutant: the two bytes of a word are not changed over.                   *)
DataUnswapped(block) ==
  [x \in 1..NSamp |-> uint16(Received(block[x]))]

(* v is a uint16_t: here the upper part is cut off                         *)
Data(block) ==
  [x \in 1..NSamp |-> uint16(ADC_RAW_VAL(Received(block[x])))]

(* The sum of all words before it, not only of those from the serial       *)
(* number on, as the comment at line 721 has it.                           *)
Checksum(data) ==
  uint16(-1 + 2 * (NSamp + 5) + uint16(num) + SumFunction(data))

(* What follows the header.                                                *)
Words(block) ==
  LET data == Data(block)
  IN  <<2 * (NSamp + 5), uint16(num)>> \o data \o <<Checksum(data)>>

Packet(block) ==
  LET words == Words(block)
  IN  <<255, 127, 0, 128>>
      \o Laid([x \in 1..Len(words) |-> LittleEndian(words[x])])

(* adc_stream_raw, which no mode of main uses                              *)
Centred(s) == int16(int16(ADC_RAW_VAL(Received(s))) - 250)

Raw(block) ==
  Laid([x \in 1..NSamp |->
         <<byte(Rem(Centred(block[x]))), byte(Quot(Centred(block[x])))>>])

-----------------------------------------------------------------------------
Init ==
  /\ calls = 0 /\ num \in FirstNums
  /\ samples = <<>> /\ csv = <<>> /\ packet = <<>> /\ raw = <<>>
  /\ now \in 0..(ClockMod - 1) /\ first = 0
  /\ usec_start = 0 /\ usec = 0

Elapsed(stamp, start) == (stamp - start) % ClockMod

(* Mutant: the start is taken anew when the clock wraps.                   *)
StartAnew(stamp) ==
  IF usec_start = 0 \/ stamp < usec_start THEN stamp ELSE usec_start

(* if (usec_start == 0) usec_start = usec                                  *)
StartOf(stamp) == IF usec_start = 0 THEN stamp ELSE usec_start

(* The next block arrives and is formatted; main counts the call.          *)
Format(gap, block) ==
  /\ calls < MaxCalls
  /\ now' = now + gap
  /\ first' = IF calls = 0 THEN now' ELSE first
  /\ usec_start' = StartOf(now' % ClockMod)
  /\ usec' = Elapsed(now' % ClockMod, usec_start')
  /\ samples' = block
  /\ csv' = Csv(block) /\ packet' = Packet(block) /\ raw' = Raw(block)
  /\ calls' = calls + 1 /\ num' = num + 1

Blocks == [1..NSamp -> Bytes \X Bytes]
Next == \E gap \in Gaps, block \in Blocks : Format(gap, block)
Spec == Init /\ [][Next]_vars
-----------------------------------------------------------------------------
(* Properties.  Value is the sample itself; Word is what a receiver reads  *)
(* at two bytes of a packet or of raw data.                                *)

Value(x)       == 256 * samples[x][1] + samples[x][2]
Word(bytes, k) == bytes[2 * k - 1] + 256 * bytes[2 * k]

PacketDecodes ==
  /\ Len(packet) = 2 * NSamp + 10
  /\ <<Word(packet, 1), Word(packet, 2)>> = <<32767, 32768>>
  /\ Word(packet, 3) = Len(packet)
  /\ Word(packet, 4) = (num - 1) % 65536
  /\ \A x \in 1..NSamp : Word(packet, 4 + x) = Value(x)

(* The checksum is the sum of the words from one of them on.               *)
AddsFrom(w) ==
  Word(packet, NSamp + 5)
    = SumFunction([k \in 1..(NSamp + 5 - w) |-> Word(packet, w - 1 + k)])
        % 65536

RawDecodes ==
  \A x \in 1..NSamp :
    LET v == int16(Value(x) - 250)
    IN  int16(Word(raw, x)) = IF v < 0 /\ v % 256 # 0 THEN v + 256 ELSE v

CsvDecodes ==
  \A x \in 1..NSamp : csv[x] = Value(x) + 65536 * samples[x][2]

(* A receiver gets the samples back: from a packet all of it, and the      *)
(* checksum of the packet whole is right; from raw data the sample less    *)
(* the offset, except that a negative one has an upper byte that is one    *)
(* too high (-1 becomes 255) unless its lower byte is 0; from CSV, the     *)
(* sample plus a multiple of full scale, which is its own lower byte.      *)
(* (AsCommented is what the comments promise of CSV and of the checksum.)  *)
Decodes ==
  calls > 0 => PacketDecodes /\ AddsFrom(1) /\ RawDecodes /\ CsvDecodes

(* The time printed is the time since the first block, up to wraps of the  *)
(* clock, also those in between; unless the first time stamp happened to   *)
(* be 0, which is taken for not set.                                       *)
TimeFromFirst ==
  calls > 0 /\ first % ClockMod # 0 => usec = (now - first) % ClockMod

-----------------------------------------------------------------------------
(* The inductive invariant: the time printed, and the last block.          *)
FormatsOK ==
  /\ calls \in Nat /\ num \in Nat /\ now \in Nat /\ first \in Nat

ClockInv ==
  /\ calls = 0 => usec_start = 0
  /\ calls > 0 /\ first % ClockMod # 0 => usec_start = first % ClockMod

FormatsInv == FormatsOK /\ ClockInv /\ TimeFromFirst /\ Decodes

-----------------------------------------------------------------------------
(* What a receiver can read in the comments: "Definitions for 2 bytes per  *)
(* ADC sample (all 16-bit)", so that a value in a line of CSV is less than *)
(* full scale, and "checksum (starting from serial number)" of a packet.   *)
AsCommented ==
  calls > 0 => (\A x \in 1..NSamp : csv[x] < 65536) /\ AddsFrom(4)
=============================================================================
