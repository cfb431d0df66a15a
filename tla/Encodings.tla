----------------------------- MODULE Encodings -----------------------------
(* Two encodings: the frames of stringmux (packetizer.go), which put the name  *)
(* of a stream in front of a packet, and the base-N numbers of basen, which    *)
(* spell identifiers. Bytes and the largest length of a name are small.        *)
EXTENDS Naturals, Sequences, SequencesExt

CONSTANTS ByteMod,         \* 2^8
          StringMuxByte,   \* the first byte of a frame
          MaxLenStreamID,  \* the largest length one byte can hold
          Error

Bytes == 0..(ByteMod - 1)

-----------------------------------------------------------------------------
(* stringmux.Marshal and Unmarshal                                            *)

Marshal_NoLimit(streamID, data) ==
  <<StringMuxByte, Len(streamID) % (MaxLenStreamID + 1)>> \o streamID \o data

Marshal(streamID, data) ==
  IF Len(streamID) > MaxLenStreamID THEN Error
  ELSE <<StringMuxByte, Len(streamID) % (MaxLenStreamID + 1)>> \o streamID \o data

Unmarshal(data) ==
  IF Len(data) < 2 THEN Error
  ELSE IF data[1] # StringMuxByte \/ Len(data) < 2 + data[2] THEN Error
  ELSE [streamID |-> SubSeq(data, 3, 2 + data[2]), data |-> SubSeq(data, 3 + data[2], Len(data))]

-----------------------------------------------------------------------------
(* BaseNEncoder.Encode and BaseNDecoder.Decode; a character is its place in    *)
(* the alphabet, and a place that is not in the alphabet is another character. *)

\* big.Int.SetBytes and Bytes: the most significant byte first, without zeros
\* in front.
SetBytes(data) == FoldLeft(LAMBDA n, byte : n * ByteMod + byte, 0, data)

RECURSIVE ToBytes(_)
ToBytes(n) == IF n = 0 THEN <<>> ELSE Append(ToBytes(n \div ByteMod), n % ByteMod)

RECURSIVE Digits(_, _)
Digits(n, base) == IF n = 0 THEN <<>> ELSE <<n % base>> \o Digits(n \div base, base)

\* The least significant digit first.
Encode(data, base) == Digits(SetBytes(data), base)

\* base^i for the character at place i, counted from zero.
Decode(text, base) ==
  IF \E i \in DOMAIN text : text[i] >= base THEN Error
  ELSE ToBytes(FoldRight(LAMBDA char, n : char + base * n, text, 0))

-----------------------------------------------------------------------------
(* A frame that Marshal makes is taken apart into what it was made of, also    *)
(* when the name is empty or has the largest length.                           *)
FrameRoundTrip(streamID, data) ==
  LET frame == Marshal(streamID, data)
  IN frame # Error => Unmarshal(frame) = [streamID |-> streamID, data |-> data]

(* Unmarshal accepts nothing but frames that Marshal makes.                   *)
OnlyFrames(bytes) ==
  LET parts == Unmarshal(bytes)
  IN parts # Error => Marshal(parts.streamID, parts.data) = bytes

(* Decode gives back the bytes that Encode has spelled, but for zeros in       *)
(* front, which no digit stands for.                                           *)
NumberRoundTrip(data, base) ==
  LET decoded == Decode(Encode(data, base), base)
      zeros == Len(data) - Len(decoded)
  IN /\ zeros \in 0..Len(data)
     /\ data = [i \in 1..zeros |-> 0] \o decoded
=============================================================================
