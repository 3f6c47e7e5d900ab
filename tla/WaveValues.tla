---------------------------- MODULE WaveValues ----------------------------
(* What a read of a waveform returns, translated from
   src/src/wave_vpi/wellen_impl/src/lib.rs and, on top of it,
   src/libverilua/src/vpi_access/value_getters.rs.

   A value is the sequence of its bits, the most significant one first; 2 is X
   and 3 is Z.  Bytes of ByteBits and words of WordBytes bytes stand for the
   8-bit bytes and 32-bit words of the code: only how many of them a width
   needs, and whether it fills them, matters.  Hexadecimal digits are numbers,
   XDigit and ZDigit; a simulator may put Spaces in front of them.         *)
EXTENDS Naturals, Sequences, SequencesExt

CONSTANTS
    ByteBits,      \* 8 in the code
    WordBytes      \* 4 in the code

ASSUME WidthAssumption == ByteBits \in Nat \ {0} /\ WordBytes \in Nat \ {0}

WordBits == ByteBits * WordBytes
XDigit == 16
ZDigit == 17
Space == 18

\* The number that a sequence of digits, most significant first, stands for
Digits(base, s) ==
    LET upto[i \in 0 .. Len(s)] ==
          IF i = 0 THEN 0 ELSE upto[i - 1] * base + s[i]
    IN  upto[Len(s)]

\* s with the fewest zeros in front that make its length a multiple of n
PadFront(s, n) == [i \in 1 .. (n - (Len(s) % n)) % n |-> 0] \o s

\* Chunk number i of n digits
Chunk(s, n, i) == SubSeq(s, (i - 1) * n + 1, i * n)

Number(bits) == Digits(2, bits)

TwoState(bits) == \A i \in DOMAIN bits : bits[i] \in {0, 1}

\* wellen's be_bytes(): the bytes of a two-state value
be_bytes(bits) ==
    LET p == PadFront(bits, ByteBits)
    IN  [i \in 1 .. Len(p) \div ByteBits |-> Number(Chunk(p, ByteBits, i))]

Word(bytes) == Digits(2 ^ ByteBits, bytes)

\* Mutant: the short word is taken from the end of the bytes.
MutPadBack(bytes) ==
    [i \in 1 .. (Len(bytes) + WordBytes - 1) \div WordBytes |->
       Word(SubSeq(bytes, (i - 1) * WordBytes + 1,
                   IF i * WordBytes < Len(bytes) THEN i * WordBytes
                   ELSE Len(bytes)))]

\* A short word comes first.
bytes_to_u32s_be(bytes) ==
    LET first == Len(bytes) - WordBytes * (Len(bytes) \div WordBytes)
        rest == SubSeq(bytes, first + 1, Len(bytes))
        aligned == [i \in 1 .. Len(rest) \div WordBytes |->
                      Word(Chunk(rest, WordBytes, i))]
    IN  IF first = 0 THEN aligned
        ELSE <<Word(SubSeq(bytes, 1, first))>> \o aligned

bytes_last_u32_be(bytes) ==
    IF Len(bytes) >= WordBytes
    THEN Word(SubSeq(bytes, Len(bytes) - WordBytes + 1, Len(bytes)))
    ELSE Word(bytes)

\* One digit for four bits: X wins over Z, and Z over a number.
bit_string_to_hex_with_xz(bits) ==
    LET p == PadFront(bits, 4)
        Digit(c) == IF \E i \in 1 .. 4 : c[i] = 2 THEN XDigit
                    ELSE IF \E i \in 1 .. 4 : c[i] = 3 THEN ZDigit
                    ELSE Number(c)
    IN  [i \in 1 .. Len(p) \div 4 |-> Digit(Chunk(p, 4, i))]

\* The vpiHexStrVal branch for two-state values: the digit of the bits that do
\* not fill one, then a digit for every four bits
HexOfTwoState(bits) ==
    LET first == Len(bits) % 4
        rest == SubSeq(bits, first + 1, Len(bits))
        full == [i \in 1 .. Len(rest) \div 4 |-> Number(Chunk(rest, 4, i))]
    IN  IF first = 0 THEN full
        ELSE <<Number(SubSeq(bits, 1, first))>> \o full

\* binary_search: the index of time, or the one before its insertion point
find_nearest_time_index(table, time) ==
    LET Before == {i \in DOMAIN table : table[i] <= time}
    IN  IF Before = {} THEN 1 ELSE CHOOSE i \in Before : \A j \in Before : j <= i

\* wellen's get_offset(): the last change at or before a time index, 0 for none
get_offset(signal, idx) ==
    LET Before == {i \in DOMAIN signal : signal[i].idx <= idx}
    IN  IF Before = {} THEN 0 ELSE CHOOSE i \in Before : \A j \in Before : j <= i

wellen_get_int_value(signal, idx) ==
    LET off == get_offset(signal, idx)
    IN  IF off = 0 \/ ~ TwoState(signal[off].bits) THEN 0
        ELSE bytes_last_u32_be(be_bytes(signal[off].bits))

\* The integer and the decimal string are the last word; a vector has its
\* least significant word first.
TwoStateValue(bits, format) ==
    LET words == bytes_to_u32s_be(be_bytes(bits))
    IN  CASE format = "bin" -> bits
          [] format = "hex" -> HexOfTwoState(bits)
          [] format = "vector" -> Reverse(words)
          [] format \in {"int", "dec"} -> words[Len(words)]

\* Numbers are 0 as soon as one bit is unknown; the decimal string is "x".
FourStateValue(bits, format) ==
    LET hex == bit_string_to_hex_with_xz(bits)
        vec_len == (Len(bits) + WordBits - 1) \div WordBits
    IN  CASE format = "bin" -> bits
          [] format = "hex" -> hex
          [] format = "vector" -> [i \in 1 .. vec_len |-> 0]
          [] format = "int" -> 0
          [] format = "dec" ->
               IF \E i \in DOMAIN hex : hex[i] \in {XDigit, ZDigit}
               THEN XDigit ELSE Number(bits)

\* A signal without a value at a time index may only be read at the first one:
\* wellen_vpi_get_value_from_index and wellen_get_value_str assert it.
read_asserts(signal, idx) == get_offset(signal, idx) = 0 /\ idx # 1

\* wellen_vpi_get(vpiSize)
vpi_size(signal) == Len(signal[1].bits)

\* The value of every format before the first change: a vector has one word
\* whatever the width of the signal.
NoValueYet(format) ==
    IF format \in {"vector", "hex", "bin"} THEN <<0>> ELSE 0

wellen_vpi_get_value_from_index(signal, idx, format) ==
    LET off == get_offset(signal, idx)
        bits == signal[off].bits
    IN  IF off = 0 THEN NoValueYet(format)
        ELSE IF TwoState(bits) THEN TwoStateValue(bits, format)
        ELSE FourStateValue(bits, format)

wellen_vpi_get_value(signal, table, time, format) ==
    wellen_vpi_get_value_from_index(
        signal, find_nearest_time_index(table, time), format)

\* wellen_get_value_str: what a value change is detected by
wellen_get_value_str(signal, idx) ==
    LET off == get_offset(signal, idx)
    IN  IF off = 0 THEN <<0>> ELSE signal[off].bits

----------------------------------------------------------------------------
(* What libverilua makes of the values and strings of a simulator           *)

\* ComplexHandle::new
beat_num(width) == (width + WordBits - 1) \div WordBits

\* Word i of a vector; beyond is what the memory behind it holds.
WordAt(vector, i, beyond) == IF i \in DOMAIN vector THEN vector[i] ELSE beyond

\* On a handle of beats words
vpiml_get_value64(vector, beats, beyond) ==
    (IF beats > 1 THEN WordAt(vector, 2, beyond) * 2 ^ WordBits ELSE 0) + vector[1]

\* The first entry is the number of words.
vpiml_get_value_multi(vector, len, beyond) ==
    <<len>> \o [i \in 1 .. len |-> WordAt(vector, i, beyond)]

normalize_value_str(raw, trim_leading_space, x_as_zero) ==
    LET first == SelectInSeq(raw, LAMBDA c : c # Space)
        s == IF ~ trim_leading_space THEN raw
             ELSE IF first = 0 THEN <<>> ELSE SubSeq(raw, first, Len(raw))
    IN  [i \in DOMAIN s |-> IF x_as_zero /\ s[i] = XDigit THEN 0 ELSE s[i]]

\* vpiml_get_value_{hex,bin,oct}_str.  A waveform's strings are handed on.
vpiml_get_value_hex_str(build, resolve_x_as_zero, raw) ==
    CASE build = "vcs" -> normalize_value_str(raw, TRUE, FALSE)
      [] build = "iverilog" /\ resolve_x_as_zero ->
           normalize_value_str(raw, TRUE, TRUE)
      [] OTHER -> raw

\* On Verilator the decimal string is made from the hexadecimal one.
vpiml_get_value_dec_str(hex) ==
    LET s == normalize_value_str(hex, TRUE, FALSE)
    IN  Digits(16, [i \in DOMAIN s |->
                      IF s[i] \in {XDigit, ZDigit} THEN 0 ELSE s[i]])
============================================================================
