----------------------------- MODULE ByteQueue -----------------------------
(***************************************************************************)
(* What a Buffer of the standard library promises: it is a queue of bytes. *)
(* Numbers are put in as their bytes, in either order, and come out as the *)
(* number those bytes are the bytes of.                                    *)
(***************************************************************************)
EXTENDS Integers, Sequences

CONSTANTS Base,        \* 256: how many bytes there are
          Newline,     \* the byte that ends a line
          Texts,       \* strings, sequences of bytes
          IntWidths,   \* the numbers of bytes an Int, and
          FloatWidths, \* the bits of a Float, can be written with
          IntSize,     \* the bytes of an Int
          Asked        \* how many bytes a call may ask for

VARIABLES queue,  \* the bytes in the buffer
          answer  \* of the last call, and what it was asked to do

vars == <<queue, answer>>

Byte == 0 .. Base-1

\* Base^n
Power[n \in Nat] == IF n = 0 THEN 1 ELSE Base * Power[n-1]

\* the numbers of n bytes, unsigned and in two's complement
Words(n) == 0 .. Power[n] - 1
Ints(n) == -(Power[n] \div 2) .. (Power[n] \div 2) - 1

Number[digits \in Seq(Byte)] ==
    IF digits = <<>> THEN 0
    ELSE digits[Len(digits)] + Base * Number[SubSeq(digits, 1, Len(digits) - 1)]

\* bytes are those of v, the most significant one first if big
AreBytesOf(bytes, v, big) ==
    LET n == Len(bytes)
        digits == IF big THEN bytes ELSE [i \in 1 .. n |-> bytes[n + 1 - i]]
    IN  Number[digits] = v % Power[n]

Init == queue = <<>> /\ answer = <<"ok">>

Put(bytes) == answer' = <<"put", bytes>> /\ queue' = queue \o bytes

PutNumber(v, n, big) ==
    /\ answer' = <<"put number", v, n, big>>
    /\ \E bytes \in [1 .. n -> Byte] : /\ AreBytesOf(bytes, v, big)
                                       /\ queue' = queue \o bytes

First(n) == SubSeq(queue, 1, n)

Consume(n) == queue' = SubSeq(queue, n+1, Len(queue))

Take(n, call) == answer' = <<call, First(n)>> /\ Consume(n)

TakeNumber(v, n, big) == /\ answer' = <<"number", v, n, big>>
                         /\ n <= Len(queue)
                         /\ AreBytesOf(First(n), v, big)
                         /\ Consume(n)

TakeLine ==
    LET Breaks == {i \in DOMAIN queue : queue[i] = Newline}
    IN  \/ Breaks = {} /\ queue # <<>> /\ Take(Len(queue), "line")
        \/ \E i \in Breaks : /\ \A j \in Breaks : i <= j
                             /\ answer' = <<"line", First(i-1)>>
                             /\ Consume(i)

Skip(n) == answer' = <<"skipped", n>> /\ Consume(n)

Peek == /\ answer' = <<"next", IF queue = <<>> THEN -1 ELSE Head(queue)>>
        /\ UNCHANGED queue

Empty == answer' = <<"cleared">> /\ queue' = <<>>

\* making a copy that takes its place, or compacting it, changes nothing
Keep == answer' = <<"kept">> /\ UNCHANGED queue

Refuse(reason) == answer' = reason /\ UNCHANGED queue

Next ==
    \/ Put(queue) \/ \E t \in Texts : Put(t)
    \/ \E n \in IntWidths \cup {1}, v \in Ints(IntSize), big \in BOOLEAN :
          PutNumber(v, n, big)
    \/ \E n \in FloatWidths : \E v \in Words(n), big \in BOOLEAN :
          PutNumber(v, n, big)
    \/ \E n \in IntWidths : \E v \in Ints(n), big \in BOOLEAN :
          TakeNumber(v, n, big)
    \/ \E n \in FloatWidths \cup {1} : \E v \in Words(n), big \in BOOLEAN :
          TakeNumber(v, n, big)
    \/ \E n \in 0 .. Len(queue) : Take(n, "string") \/ Skip(n)
    \/ queue # <<>> /\ Take(Len(queue), "all")
    \/ TakeLine \/ Peek \/ Empty \/ Keep
    \/ Refuse(<<"full">>) \/ Refuse(<<"negative">>)
    \* only who asks for more than there is is told so
    \/ \E n \in Asked \cup IntWidths \cup FloatWidths \cup {1} :
          n > Len(queue) /\ Refuse(<<"short", n>>)

Spec == Init /\ [][Next]_vars
=============================================================================
