------------------------------ MODULE ByteArray ------------------------------
(***************************************************************************)
(* ByteArray (src/socket/bytearray.cpp): bytes in a list of blocks of      *)
(* m_baseSize, with a position and the block m_cur that should hold it,    *)
(* and the stream reads and writes over it (src/stream/stream.cpp).        *)
(*                                                                         *)
(* The blocks are one sequence, block k being its k-th piece of Base       *)
(* bytes; m_cur is the number of a block.  The loops over blocks copy to   *)
(* or from consecutive places, starting in m_cur at the offset             *)
(* m_position % m_baseSize, whether or not m_cur is the block of that      *)
(* position.                                                               *)
(***************************************************************************)
EXTENDS Integers, Sequences, SequencesExt

CONSTANTS
    Base,        \* m_baseSize
    Bytes,       \* values of a byte
    Junk,        \* the value of a byte nobody has written
    MaxBlocks,   \* bound: blocks
    MaxData      \* bound: bytes given to one call

ASSUME BytesAssumption == Base \in Nat \ {0} /\ Junk \notin Bytes /\ {MaxBlocks, MaxData} \subseteq Nat

VARIABLES
    store,      \* the contents of all blocks; its length is m_capacity
    size,       \* m_size
    position,   \* m_position
    cur,        \* m_cur: a block's number, or Null
    got,        \* what the last operation returned
    broken      \* a null pointer was followed, or a length reckoned wrongly

vars == <<store, size, position, cur, got, broken>>

Null == 0
Datas == BoundedSeq(Bytes, MaxData)
Junks(n) == [i \in 1 .. n |-> Junk]
Blocks == Len(store) \div Base
ReadSize == size - position

Init ==
    /\ store = Junks(Base) /\ size = 0 /\ position = 0
    /\ cur = 1 /\ got = <<>> /\ broken = FALSE

\* the block that holds position p; none is behind the last
BlockOf(p, s) == IF p = Len(s) THEN Null ELSE p \div Base + 1

\* addCapacity(n): the blocks, and m_cur, which is set when no place was left
MoreBlocks(n) == (n - (Len(store) - position) + Base - 1) \div Base
Grown(n) == IF Len(store) - position >= n THEN store ELSE store \o Junks(MoreBlocks(n) * Base)
CurKept(n) == cur   \* mutant of CurGrown: m_cur is not set
CurGrown(n) == IF Len(store) = position /\ n > 0 THEN Blocks + 1 ELSE cur

\* where in the blocks a copy starts, with m_cur = c
Start(c) == (c - 1) * Base + (position % Base)

\* the blocks s with data copied to them from m_cur = c on
Copied(s, c, data) ==
    [i \in DOMAIN s |-> IF Start(c) < i /\ i <= Start(c) + Len(data) THEN data[i - Start(c)] ELSE s[i]]

\* what a copy of n bytes from m_cur on reads
Here(n) == SubSeq(store, Start(cur) + 1, Start(cur) + n)

\* m_cur after write(): the block of the last byte, be it full or not
LastBlock(c, n) == c + ((position % Base) + n - 1) \div Base

\* m_cur after read(): the block after it when it was read to its end
NextBlock(n) ==
    LET k == cur + ((position % Base) + n) \div Base IN IF k > Blocks THEN Null ELSE k

Fits(n) == Len(Grown(n)) <= MaxBlocks * Base

-----------------------------------------------------------------------------
\* ByteArray::write
Write(data) ==
    /\ ~broken /\ data # <<>> /\ Fits(Len(data))
    /\ LET c == CurGrown(Len(data)) IN
         /\ store' = Copied(Grown(Len(data)), c, data)
         /\ cur' = LastBlock(c, Len(data))
    /\ position' = position + Len(data)
    /\ size' = Max({size, position'})
    /\ got' = <<>>
    /\ UNCHANGED broken

\* ByteArray::read, which throws when there are fewer bytes and looks into m_cur
\* even when none is asked for
Read(n) ==
    /\ ~broken /\ n <= ReadSize /\ n <= MaxData
    /\ IF cur = Null
         THEN broken' = TRUE /\ UNCHANGED <<position, cur, got>>
         ELSE /\ got' = Here(n)
              /\ position' = position + n
              /\ cur' = NextBlock(n)
              /\ UNCHANGED broken
    /\ UNCHANGED <<store, size>>

\* toString and toHexString: the rest, the position stays
WholeRest ==
    /\ ~broken
    /\ got' = IF ReadSize = 0 THEN <<>> ELSE Here(ReadSize)
    /\ UNCHANGED <<store, size, position, cur, broken>>

\* writeToFile: each block's length is reckoned from what is left less the offset, which
\* is wrong where less than a block is left and the position is not at a block's start
WriteToFile ==
    /\ ~broken
    /\ IF position % Base = 0 \/ ReadSize >= Base \/ ReadSize = 0
         THEN got' = (IF ReadSize = 0 THEN <<>> ELSE Here(ReadSize)) /\ UNCHANGED broken
         ELSE broken' = TRUE /\ UNCHANGED got
    /\ UNCHANGED <<store, size, position, cur>>

\* setPosition(v) with blocks s: the size follows, m_cur is looked for from the root
Seek(v, s) ==
    /\ position' = v /\ size' = Max({size, v})
    /\ cur' = BlockOf(v, s)

SetPosition(v) ==
    /\ ~broken /\ v <= Len(store) /\ Seek(v, store)
    /\ got' = <<>>
    /\ UNCHANGED <<store, broken>>

ClearKeepsCur ==   \* mutant of Clear: m_cur stays
    /\ ~broken
    /\ store' = SubSeq(store, 1, Base) /\ size' = 0 /\ position' = 0 /\ got' = <<>>
    /\ UNCHANGED <<cur, broken>>

\* ByteArray::clear keeps the first block
Clear ==
    /\ ~broken
    /\ store' = SubSeq(store, 1, Base) /\ size' = 0 /\ position' = 0 /\ cur' = 1
    /\ got' = <<>>
    /\ UNCHANGED broken

-----------------------------------------------------------------------------
(* SocketStream: the socket reads into, or writes from, the blocks.        *)

\* getWriteBuffers(length): places for length bytes, which receive data
Filled(length, data) == Copied(Grown(length), CurGrown(length), data)

\* SocketStream::read(ba, length), length > 0: getWriteBuffers(length), recv of data,
\* or nothing, then setPosition
Receive(length, data) ==
    /\ ~broken /\ Len(data) <= length /\ Fits(length)
    /\ store' = Filled(length, data)
    /\ IF data = <<>> THEN cur' = CurGrown(length) /\ UNCHANGED <<size, position>>
                      ELSE Seek(position + Len(data), store')
    /\ got' = <<>>
    /\ UNCHANGED broken

\* getReadBuffers(length), of which n bytes are sent
Gathered(n) == Here(n)

\* SocketStream::write(ba, length): getReadBuffers(length), send of n bytes, setPosition
Send(n) ==
    /\ ~broken /\ 0 < n /\ n <= ReadSize /\ n <= MaxData
    /\ got' = Gathered(n)
    /\ Seek(position + n, store)
    /\ UNCHANGED <<store, broken>>

Dead == broken /\ UNCHANGED vars

Next ==
    \/ \E data \in Datas : Write(data)
    \/ \E length \in 1 .. MaxData, data \in Datas : Receive(length, data)
    \/ \E n \in 0 .. MaxData : Read(n) \/ Send(n)
    \/ \E v \in 0 .. Len(store) : SetPosition(v)
    \/ WholeRest \/ WriteToFile \/ Clear \/ Dead

Spec == Init /\ [][Next]_vars

-----------------------------------------------------------------------------
(* Properties.                                                             *)

\* Every variable stays in its type, and position, size and capacity in order.
TypeOK ==
    /\ store \in Seq(Bytes \cup {Junk}) /\ Len(store) % Base = 0 /\ 0 < Blocks
    /\ position \in Nat /\ size \in Nat /\ position <= size /\ size <= Len(store)
    /\ cur \in {Null} \cup 1 .. Blocks
    /\ got \in Seq(Bytes \cup {Junk}) /\ broken \in BOOLEAN

\* m_cur is the block of m_position; the end of the last block may also count as its own
InPlace == cur = BlockOf(position, store) \/ (position = Len(store) /\ cur = Blocks)

\* The copying loops never leave the blocks: m_cur is never in front of the block
\* of the position, and null only when no place is left, whatever mixture of
\* calls came before.  (Behind it m_cur may be: see InPlace and write.)
NeverAhead ==
    /\ cur = Null => position = Len(store)
    /\ cur # Null => cur <= position \div Base + 1

\* The blocks are kept: no copy leaves them, and position, size and capacity are in order.
BlocksKept == TypeOK /\ NeverAhead

Flat == INSTANCE FlatBytes WITH Data <- Datas, bytes <- SubSeq(store, 1, size)

\* Each operation that starts with m_cur in place does to the bytes what it would
\* do to a flat sequence: blocks and their borders do not show.
FlatSteps == [][InPlace /\ ~broken' => UNCHANGED <<SubSeq(store, 1, size), position, got>> \/ Flat!Next]_vars
=============================================================================
