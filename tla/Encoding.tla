------------------------------ MODULE Encoding ------------------------------
(***************************************************************************)
(* How ByteArray (src/socket/bytearray.cpp) turns integers into bytes and  *)
(* back: fixed width in either byte order, variable length ("varint"), and *)
(* the zigzag code that makes small negative numbers small.                *)
(*                                                                         *)
(* The widths are parameters: integers have Width bits, a varint's byte    *)
(* holds Group of them below its flag (32 or 64, and 7, in the code).      *)
(* Bytes of fixed-width integers are digits to the base Digit, Digits of   *)
(* them to an integer.                                                     *)
(***************************************************************************)
EXTENDS Integers, Sequences, SequencesExt

CONSTANTS Width, Group, Digit, Digits,
          NoInteger   \* before any is given

VARIABLE integer   \* the integer given to a write

ASSUME WidthAssumption == {Width, Group, Digits} \subseteq Nat \ {0} /\ Digit \in Nat \ {0, 1}

\* the powers of a base, as a function of the exponent
Power(base) == LET power[n \in Nat] == IF n = 0 THEN 1 ELSE base * power[n - 1] IN power

\* term[1] + ... + term[Len(term)]
Total(term) ==
    LET sum[n \in 0 .. Len(term)] == IF n = 0 THEN 0 ELSE sum[n - 1] + term[n]
    IN  sum[Len(term)]

Modulus == Power(2)[Width]
HalfModulus == Power(2)[Width - 1]

Unsigned == 0 .. Modulus - 1
Signed == -HalfModulus .. HalfModulus - 1

AsUnsigned(i) == i % Modulus
AsSigned(u) == IF u < HalfModulus THEN u ELSE u - Modulus
Wrapped(i) == AsSigned(AsUnsigned(i))   \* signed overflow, as the builds for two's complement do it

-----------------------------------------------------------------------------
(* Zigzag.                                                                 *)

EncodeNoOne(v) == AsUnsigned(IF v < 0 THEN Wrapped(-v) * 2 ELSE v * 2)   \* mutant of EncodeZigzag: no - 1

\* EncodeZigzag, whose result is passed on as an unsigned integer
EncodeZigzag(v) ==
    AsUnsigned(IF v < 0 THEN Wrapped(Wrapped(-v) * 2) - 1 ELSE v * 2)

\* DecodeZigzag: (v >> 1) ^ -(v & 1), where the second is all zeros or all ones
DecodeZigzag(u) == AsSigned(IF u % 2 = 0 THEN u \div 2 ELSE Modulus - 1 - u \div 2)

-----------------------------------------------------------------------------
(* Varints.                                                                *)

Flag == Power(2)[Group]                       \* 0x80
Groups == (Width + Group - 1) \div Group      \* turns of the loop for (i = 0; i < Width; i += Group)

\* writeUint32, writeUint64
Varint[v \in Nat] ==
    IF v < Flag THEN <<v>> ELSE <<(v % Flag) + Flag>> \o Varint[v \div Flag]

\* readUint32, readUint64 from the bytes s: the loop ends with the first byte below the
\* flag, or after all its turns
BytesRead(s) ==
    CHOOSE k \in 1 .. Groups : (k = Groups \/ s[k] < Flag) /\ \A i \in 1 .. k - 1 : s[i] >= Flag

\* what turn k adds to the result
Part(s, k) == ((s[k] % Flag) * Power(2)[Group * (k - 1)]) % Modulus

ReadVarint(s) == Total([k \in 1 .. BytesRead(s) |-> Part(s, k)])

-----------------------------------------------------------------------------
(* Fixed width.                                                            *)

Fixed == 0 .. Power(Digit)[Digits] - 1
Orders == {"little", "big"}
Machine == "little"   \* THIS_BYTE_ORDER

\* an integer in the machine's memory, and back
Memory(v) == [k \in 1 .. Digits |-> (v \div Power(Digit)[k - 1]) % Digit]
FromMemory(s) == Total([k \in 1 .. Digits |-> s[k] * Power(Digit)[k - 1]])

\* byteswap
Byteswap(v) == FromMemory(Reverse(Memory(v)))

\* writeFint16 ... writeFuint64 with m_endian = order, and the reads
WriteFixed(v, order) == Memory(IF order # Machine THEN Byteswap(v) ELSE v)
ReadFixed(s, order) ==
    IF order = Machine THEN FromMemory(s) ELSE Byteswap(FromMemory(s))

-----------------------------------------------------------------------------
(* One integer after the other.                                            *)

Given == Unsigned \cup Signed \cup Fixed

InitInteger == integer = NoInteger
NextInteger == integer' \in Given

-----------------------------------------------------------------------------
(* Properties.                                                             *)

\* What was written is read back: every unsigned and signed integer through its
\* varint, which fits writeUint32's tmp and is read to its end and no further,
\* whatever byte follows it.
VarintsReadBack ==
    /\ integer \in Unsigned => \A follow \in {0, Flag} :
         /\ Len(Varint[integer]) <= Groups
         /\ ReadVarint(Varint[integer] \o <<follow>>) = integer
         /\ BytesRead(Varint[integer] \o <<follow>>) = Len(Varint[integer])
    /\ integer \in Signed =>
         DecodeZigzag(ReadVarint(Varint[EncodeZigzag(integer)] \o <<0>>)) = integer

\* A fixed-width integer is read back with the byte order it was written in,
\* and the big-endian order puts the most significant byte first.
FixedReadBack == integer \in Fixed =>
    /\ \A order \in Orders : ReadFixed(WriteFixed(integer, order), order) = integer
    /\ \A k \in 1 .. Digits : WriteFixed(integer, "big")[k] = (integer \div Power(Digit)[Digits - k]) % Digit

\* Integers are read back as they were written, varints and fixed widths alike.
ReadBack == VarintsReadBack /\ FixedReadBack
=============================================================================
