------------------------------ MODULE DhtFrame ------------------------------
(***************************************************************************)
(* One transaction with the DHT11 sensor (dht.c): five bytes as forty high *)
(* pulses, a long one for a 1, and what the driver makes of them.          *)
(***************************************************************************)
EXTENDS Integers, Sequences

\* The sensor (external): integral and fractional humidity and temperature, and a
\* checksum, the most significant bit first; 26 us is a 0 and 70 us a 1.
FrameOf(m) == <<m.rh, 0, m.t, 0, (m.rh + m.t) % 256>>

Weight == <<128, 64, 32, 16, 8, 4, 2, 1>>

Bit(byte, n) == (byte \div Weight[n]) % 2

PulsesOf(bytes) ==
  [i \in 1..40 |-> IF Bit(bytes[1 + ((i - 1) \div 8)], 1 + ((i - 1) % 8)) = 1 THEN 70 ELSE 26]

\* Noise that turns pulse i round; i = 0 is none.
Disturbed(pulses, i) ==
  [j \in 1..40 |-> IF j = i THEN 96 - pulses[j] ELSE pulses[j]]

Threshold == 50  \* DHT_ONE_THRESHOLD_US

\* out[byte] <<= 1, and 1 or'ed in for a pulse above the threshold.
ShiftIn(byte, width) == ((2 * byte) % 256) + (IF width > Threshold THEN 1 ELSE 0)

\* Byte k, from its eight pulses.
ByteOf(pulses, k) ==
  LET shifted[n \in 0..8] ==
        IF n = 0 THEN 0 ELSE ShiftIn(shifted[n - 1], pulses[8 * (k - 1) + n])
  IN  shifted[8]

\* Variant: the checksum is not compared.
RawBytesUnchecked(pulses) ==
  [ok |-> TRUE, out |-> [k \in 1..5 |-> ByteOf(pulses, k)]]

\* dht_read_raw_bytes: the bytes, and whether the checksum agrees.
RawBytes(pulses) ==
  LET out == [k \in 1..5 |-> ByteOf(pulses, k)]
  IN  [ok |-> (out[1] + out[2] + out[3] + out[4]) % 256 = out[5], out |-> out]

Within(x, lo, hi) == IF x \in lo..hi THEN x ELSE 0

\* dht_hw_read after a good transaction: what lies out of the sensor's range becomes 0.
Reading(out) == [rh |-> Within(out[1], 20, 90), t |-> Within(out[3], 0, 50)]
=============================================================================
