------------------------------- MODULE Buffer -------------------------------
(***************************************************************************)
(* The Buffer of the standard library (src/src/stdlib/buffer.c): a growing *)
(* array of bytes with a position to read at and one to write at.          *)
(*                                                                         *)
(* Positions and capacities are uint32_t: sums of them wrap at Word.  The  *)
(* calls that answer with a fact about the buffer (capacity, is_empty,     *)
(* to_string) are left out.  The bits of a Float are an unsigned number.   *)
(***************************************************************************)
EXTENDS Integers, Sequences, FiniteSets

CONSTANTS Base, Newline, BufferTexts, IntWidths, FloatWidths, IntSize,
          BytesAsked,      \* see ByteQueue
          Word,            \* 2^32: where positions wrap
          InitialCapacity, \* INITIAL_BUFFER_CAPACITY
          MinGrowth,       \* 8
          Junk,            \* a byte nobody has written
          Huge             \* may a position and a count add up to 2^32?

Byte == 0 .. Base-1

ASSUME BaseAssumption == Base \in Nat \ {0} /\ Base % 2 = 0 /\ Newline \in Byte
ASSUME JunkAssumption == Junk \notin Byte
ASSUME BufferSizesAssumption ==
    /\ Word \in Nat
    /\ InitialCapacity \in 1 .. Word-1
    /\ MinGrowth \in 1 .. Word-1
    /\ IntWidths \subseteq Nat \ {0} /\ FloatWidths \subseteq Nat /\ IntSize \in Nat
    /\ BufferTexts \subseteq Seq(Byte)
    /\ BytesAsked \subseteq Int

VARIABLES data,      \* buffer->data, indexed from 0
          capacity, readPos, writePos,
          reply      \* of the last call, and what it was asked to do

bufferVars == <<data, capacity, readPos, writePos, reply>>

\* Base^n
Power[n \in Nat] == IF n = 0 THEN 1 ELSE Base * Power[n-1]

Words(n) == 0 .. Power[n] - 1
Ints(n) == -(Power[n] \div 2) .. (Power[n] \div 2) - 1

Readable == writePos - readPos

\* the next n bytes
Ahead(n) == [i \in 1 .. n |-> data[readPos + i - 1]]

BufferInit ==
    /\ data = [i \in 0 .. InitialCapacity-1 |-> Junk]
    /\ capacity = InitialCapacity
    /\ readPos = 0
    /\ writePos = 0
    /\ reply = <<"ok">>

RefuseCall(reason) == reply' = reason /\ UNCHANGED <<data, capacity, readPos, writePos>>

-----------------------------------------------------------------------------
(***************************************************************************)
(* Writing.                                                                *)
(***************************************************************************)
\* grow_buffer doubles until required fits
GrownCapacity(required) ==
    LET grown[c \in Nat \ {0}] == IF c >= required THEN c ELSE grown[2 * c]
    IN  grown[IF capacity < MinGrowth THEN MinGrowth ELSE capacity]

\* mutant: one byte more than there is counts as enough
CapacityForLate(n) ==
    LET required == (writePos + n) % Word
    IN  IF required <= capacity + 1 THEN capacity ELSE GrownCapacity(required)

\* ensure_write_capacity
CapacityForBytes(n) ==
    LET required == (writePos + n) % Word
    IN  IF required <= capacity THEN capacity ELSE GrownCapacity(required)

\* what is in the memory of size cap that replaces the array
MovedBytes(cap) ==
    [i \in 0 .. cap-1 |-> IF i < capacity THEN data[i] ELSE Junk]

\* a capacity of Word or more is refused
WriteBytes(bytes, call) ==
    LET n == Len(bytes)
        cap == CapacityForBytes(n)
        At(i) == i - writePos + 1
    IN  /\ Huge \/ writePos + n < Word
        /\ \/ cap >= Word /\ RefuseCall(<<"full">>)
           \/ /\ cap < Word
              /\ capacity' = cap
              /\ data' = [i \in 0 .. cap-1 |->
                            IF At(i) \in 1 .. n THEN bytes[At(i)] ELSE MovedBytes(cap)[i]]
              /\ writePos' = (writePos + n) % Word
              /\ reply' = call
              /\ UNCHANGED readPos

\* mutant: the order is right for two bytes only
BytesOfPair(v, n, big) ==
    [i \in 1 .. n |-> LET k == IF big /\ n = 2 THEN n - i ELSE i - 1
                      IN  (v \div Power[k]) % Base]

\* (v >> 8*k) & 0xFF: the n lowest bytes, in the order asked for
BytesOf(v, n, big) ==
    [i \in 1 .. n |-> LET k == IF big THEN n - i ELSE i - 1
                      IN  (v \div Power[k]) % Base]

WriteInt(v, n, big) == WriteBytes(BytesOf(v, n, big), <<"put number", v, n, big>>)

WriteByte(v) == WriteInt(v, 1, FALSE)

WriteFloat(bits, n, big) ==
    WriteBytes(BytesOf(bits, n, big), <<"put number", bits, n, big>>)

WriteString(text) == WriteBytes(text, <<"put", text>>)

\* itself, or another buffer with text in it
WriteBuffer ==
    \E bytes \in BufferTexts \cup {Ahead(Readable)} : WriteBytes(bytes, <<"put", bytes>>)

-----------------------------------------------------------------------------
(***************************************************************************)
(* Reading.                                                                *)
(***************************************************************************)
Advance(n) == /\ readPos' = readPos + n
              /\ UNCHANGED <<data, capacity, writePos>>

\* Each byte is shifted to its place: k is the number of bytes below it.
Unsigned(bytes, big) ==
    LET n == Len(bytes)
        sum[k \in 0 .. n] ==
            IF k = 0 THEN 0
            ELSE sum[k-1] + bytes[IF big THEN n + 1 - k ELSE k] * Power[k-1]
    IN  sum[n]

\* (int16_t) or (int32_t) of it
Signed(bytes, big) ==
    LET v == Unsigned(bytes, big)
        all == Power[Len(bytes)]
    IN  IF v < all \div 2 THEN v ELSE v - all

ReadNumber(n, big, number) ==
    \/ Readable < n /\ RefuseCall(<<"short", n>>)
    \/ /\ Readable >= n
       /\ reply' = <<"number", number, n, big>>
       /\ Advance(n)

ReadInt(n, big) == ReadNumber(n, big, Signed(Ahead(n), big))

ReadFloat(n, big) == ReadNumber(n, big, Unsigned(Ahead(n), big))

ReadByte == ReadFloat(1, FALSE)

ReadString(n) ==
    \/ n < 0 /\ RefuseCall(<<"negative">>)
    \/ n > Readable /\ RefuseCall(<<"short", n>>)
    \/ n \in 0 .. Readable /\ reply' = <<"string", Ahead(n)>> /\ Advance(n)

ReadAllBytes ==
    \/ Readable = 0 /\ RefuseCall(<<"short", 1>>)
    \/ Readable > 0 /\ reply' = <<"all", Ahead(Readable)>> /\ Advance(Readable)

\* the newline is consumed and not part of the answer
ReadTextLine ==
    LET Breaks == {i \in readPos .. writePos - 1 : data[i] = Newline}
    IN  \/ Readable = 0 /\ RefuseCall(<<"short", 1>>)
        \/ /\ Readable > 0 /\ Breaks = {}
           /\ reply' = <<"line", Ahead(Readable)>>
           /\ Advance(Readable)
        \/ \E end \in Breaks :
              /\ \A i \in Breaks : end <= i
              /\ reply' = <<"line", Ahead(end - readPos)>>
              /\ Advance(end + 1 - readPos)

PeekByte ==
    RefuseCall(<<"next", IF Readable = 0 THEN -1 ELSE data[readPos]>>)

SkipBytes(n) ==
    \/ n < 0 /\ RefuseCall(<<"negative">>)
    \/ n > Readable /\ RefuseCall(<<"short", n>>)
    \/ n \in 0 .. Readable /\ reply' = <<"skipped", n>> /\ Advance(n)

-----------------------------------------------------------------------------
ClearBuffer ==
    /\ readPos' = 0
    /\ writePos' = 0
    /\ reply' = <<"cleared">>
    /\ UNCHANGED <<data, capacity>>

\* a clone, of the same capacity; it takes the place of the original
Clone ==
    /\ data' = [i \in 0 .. capacity-1 |-> IF i < writePos THEN data[i] ELSE Junk]
    /\ reply' = <<"kept">>
    /\ UNCHANGED <<capacity, readPos, writePos>>

Compact ==
    /\ data' = [i \in 0 .. capacity-1 |->
                  IF i < Readable THEN data[readPos + i] ELSE data[i]]
    /\ readPos' = 0
    /\ writePos' = Readable
    /\ reply' = <<"kept">>
    /\ UNCHANGED capacity

BufferNext ==
    \/ \E v \in Ints(IntSize) : WriteByte(v)
    \/ \E n \in IntWidths, v \in Ints(IntSize), big \in BOOLEAN : WriteInt(v, n, big)
    \/ \E n \in FloatWidths : \E bits \in Words(n), big \in BOOLEAN :
          WriteFloat(bits, n, big)
    \/ \E text \in BufferTexts : WriteString(text)
    \/ WriteBuffer
    \/ \E n \in IntWidths, big \in BOOLEAN : ReadInt(n, big)
    \/ \E n \in FloatWidths, big \in BOOLEAN : ReadFloat(n, big)
    \/ \E n \in BytesAsked : ReadString(n) \/ SkipBytes(n)
    \/ ReadByte \/ ReadAllBytes \/ ReadTextLine \/ PeekByte
    \/ ClearBuffer \/ Clone \/ Compact

BufferSpec == BufferInit /\ [][BufferNext]_bufferVars

-----------------------------------------------------------------------------
(***************************************************************************)
(* The type invariant: nothing is read or written outside the array.       *)
(***************************************************************************)
BufferIsSound ==
    /\ capacity \in 1 .. Word-1
    /\ readPos \in 0 .. writePos
    /\ writePos \in 0 .. capacity
    /\ data \in [0 .. capacity-1 -> Byte \cup {Junk}]

(***************************************************************************)
(* A buffer is a queue of bytes: positions, growth and compaction do not   *)
(* show, and a number comes out of the bytes it went in as.                *)
(***************************************************************************)
Queue == INSTANCE ByteQueue WITH
    Texts <- BufferTexts, Asked <- BytesAsked, queue <- Ahead(Readable), answer <- reply

BuffersAreQueues == Queue!Spec
=============================================================================
