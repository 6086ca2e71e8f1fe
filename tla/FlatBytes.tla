------------------------------ MODULE FlatBytes ------------------------------
(***************************************************************************)
(* What a byte array promises (src/socket/bytearray.h), without blocks: a  *)
(* sequence of bytes and a position in it.  Bytes are written and read at  *)
(* the position, which moves on.                                           *)
(***************************************************************************)
EXTENDS Integers, Sequences

CONSTANT Data   \* the sequences of bytes a call may write

VARIABLES bytes, position, got   \* got: what the last operation returned

Init == bytes = <<>> /\ position = 0 /\ got = <<>>

Larger(a, b) == IF a > b THEN a ELSE b

\* bytes with data written at the position
Overwritten(data) ==
    [i \in 1 .. Larger(Len(bytes), position + Len(data)) |->
        IF position < i /\ i <= position + Len(data) THEN data[i - position] ELSE bytes[i]]

Write(data) ==
    /\ bytes' = Overwritten(data)
    /\ position' = position + Len(data)
    /\ got' = <<>>

Read(n) ==
    /\ n <= Len(bytes) - position
    /\ got' = SubSeq(bytes, position + 1, position + n)
    /\ position' = position + n
    /\ UNCHANGED bytes

\* everything from the position on, which stays
Look ==
    /\ got' = SubSeq(bytes, position + 1, Len(bytes))
    /\ UNCHANGED <<bytes, position>>

\* a position behind the end makes the array longer, by anything
Seek ==
    /\ got' = <<>>
    /\ Len(bytes') = Larger(Len(bytes), position')
    /\ SubSeq(bytes', 1, Len(bytes)) = bytes

Clear == Init'

Next ==
    \/ \E data \in Data : Write(data)
    \/ \E n \in 0 .. Len(bytes) : Read(n)
    \/ Look \/ Seek \/ Clear

Spec == Init /\ [][Next]_<<bytes, position, got>>
=============================================================================
