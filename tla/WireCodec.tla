----------------------------- MODULE WireCodec -----------------------------
(***************************************************************************)
(* The samples of a packet: writeSamples of src/src/core/WirePacket.cpp on *)
(* one side, decode and int24 of src/web/app.js on the other.  A sample is *)
(* a fraction [num, den], so that rounding is exact; a byte of an integer  *)
(* format is its value.  The four bytes of a float are opaque, each is     *)
(* known by the float it is of and its place.                              *)
(***************************************************************************)
EXTENDS Integers, Sequences

Formats == {"pcm16", "pcm24", "float32"}

Scale(format) == IF format = "pcm16" THEN 32767 ELSE 8388607

\* The width of a sample on the wire
bytesPerSample(format) ==
    CASE format = "pcm16" -> 2
      [] format = "pcm24" -> 3
      [] format = "float32" -> 4

\* Mutant: an over is scaled as it is and wraps.
ClampNothing(x) == x
\* std::clamp to [-1, 1]
Clamp(x) ==
    CASE x.num > x.den -> [num |-> x.den, den |-> x.den]
      [] x.num < -x.den -> [num |-> -x.den, den |-> x.den]
      [] OTHER -> x

\* std::lround of x times scale: the nearest integer, and of two the one
\* farther from zero
LRound(x, scale) ==
    IF x.num >= 0 THEN (2 * x.num * scale + x.den) \div (2 * x.den)
    ELSE -((-2 * x.num * scale + x.den) \div (2 * x.den))

\* The low bytes of v, two's complement when it is negative
writeLittleEndian(v, width) == [i \in 1 .. width |-> (v \div 256 ^ (i - 1)) % 256]

writeSample(x, format) ==
    IF format = "float32" THEN [i \in 1 .. 4 |-> [float |-> x, place |-> i]]
    ELSE writeLittleEndian(LRound(Clamp(x), Scale(format)), bytesPerSample(format))

\* One frame, interleaved: a sample for each channel
writeFrame(frame, format) ==
    IF Len(frame) = 1 THEN writeSample(frame[1], format)
    ELSE writeSample(frame[1], format) \o writeSample(frame[2], format)

-----------------------------------------------------------------------------
(* The receiver.  An offset is counted from the first byte of the payload.   *)

\* DataView.getInt16, little-endian
getInt16(bytes, offset) ==
    LET value == bytes[offset + 1] + 256 * bytes[offset + 2]
    IN  IF value >= 32768 THEN value - 65536 ELSE value

int24(bytes, offset) ==
    LET value == bytes[offset + 1] + 256 * bytes[offset + 2] + 65536 * bytes[offset + 3]
    IN  IF value >= 8388608 THEN value - 16777216 ELSE value

\* Whole floats only: the payload begins at a multiple of four bytes.
float32(bytes, offset) ==
    IF \A i \in 1 .. 4 : bytes[offset + i] = [float |-> bytes[offset + 1].float, place |-> i]
    THEN bytes[offset + 1].float
    ELSE [num |-> 0, den |-> 1]

decodeSample(bytes, offset, format) ==
    CASE format = "pcm16" -> [num |-> getInt16(bytes, offset), den |-> 32767]
      [] format = "pcm24" -> [num |-> int24(bytes, offset), den |-> 8388607]
      [] format = "float32" -> float32(bytes, offset)

\* Left and right; a mono sample goes to both.
decode(bytes, format, channels) ==
    <<decodeSample(bytes, 0, format),
      decodeSample(bytes, IF channels > 1 THEN bytesPerSample(format) ELSE 0, format)>>

-----------------------------------------------------------------------------
(* What a listener may expect of a sample *)

Distance(a, b) ==
    LET d == a.num * b.den - b.num * a.den IN IF d < 0 THEN -d ELSE d

\* y is x to within half a step of the scale, once x is inside [-1, 1]; a float
\* is x, overs included.
Faithful(x, y, format) ==
    IF format = "float32" THEN y = x
    ELSE /\ y.den = Scale(format)
         /\ 2 * Distance(Clamp(x), y) <= x.den
         /\ x.num > 0 => y.num >= 0
         /\ x.num < 0 => y.num <= 0
=============================================================================
