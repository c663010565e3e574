------------------------------- MODULE Buffer -------------------------------
(***************************************************************************)
(* net/Buffer.h and Buffer.cc: a vector of bytes with a reader and a writer*)
(* index.  The readable bytes lie between the two, space to prepend before *)
(* the reader index and space to write after the writer index.             *)
(*                                                                         *)
(* Indices count from 0 as in the code; byte i of the vector is element    *)
(* i + 1 of the sequence.  The assertions on the arguments of retrieve,    *)
(* unwrite, prepend and hasWritten are obligations of the caller and guard *)
(* the actions; the others are properties.                                 *)
(***************************************************************************)
EXTENDS Integers, Sequences, FiniteSets

CONSTANTS Byte, Zero,      \* bytes, and the one resize fills with
          kCheapPrepend,
          kInitialSize,    \* of the buffer that shrink starts from
          InitialSize,     \* the constructor's argument
          ExtraSize,       \* sizeof extrabuf in readFd
          Data,            \* the byte strings callers write, prepend or send
          Ints,            \* the integers they write, each with its number of bytes
          CR, LF,
          Counts,          \* the lengths callers retrieve, unwrite or reserve
          MaxSize          \* bound: no growth beyond this size

ASSUME SizeAssumption == /\ kCheapPrepend \in Nat /\ kInitialSize \in Nat
                         /\ InitialSize \in Nat /\ ExtraSize \in Nat /\ MaxSize \in Nat
ASSUME DataAssumption == /\ Zero \in Byte /\ \A d \in Data : d \in Seq(Byte)
                         /\ Counts \subseteq Nat /\ CR \in Byte /\ LF \in Byte

\* Integers are numbers to this base; its powers.
Base == Cardinality(Byte)
Power[n \in Nat] == IF n = 0 THEN 1 ELSE Base * Power[n - 1]

ASSUME IntAssumption ==
    /\ IsFiniteSet(Byte) /\ Byte = 0..(Base - 1)
    /\ \A x \in Ints : /\ x.size \in Nat /\ x.value \in Int
                      /\ 2 * x.value \in -Power[x.size]..(Power[x.size] - 1)

VARIABLE buf   \* the members buffer_, readerIndex_ and writerIndex_

New(size) == [buffer_ |-> [i \in 1..(kCheapPrepend + size) |-> Zero],
              readerIndex_ |-> kCheapPrepend, writerIndex_ |-> kCheapPrepend]

readableBytes(b) == b.writerIndex_ - b.readerIndex_
writableBytes(b) == Len(b.buffer_) - b.writerIndex_
prependableBytes(b) == b.readerIndex_

\* The readable bytes, peek() to beginWrite().
Content(b) == SubSeq(b.buffer_, b.readerIndex_ + 1, b.writerIndex_)

\* std::copy of data to the bytes from index pos on.
copy(mem, pos, data) ==
    [i \in 1..Len(mem) |-> IF i \in (pos + 1)..(pos + Len(data)) THEN data[i - pos]
                           ELSE mem[i]]

\* vector::resize to a larger size.
resize(mem, size) == [i \in 1..size |-> IF i <= Len(mem) THEN mem[i] ELSE Zero]

\* Grow at the end, or move the readable bytes to the front.
mustGrow(b, len) == writableBytes(b) + prependableBytes(b) < len + kCheapPrepend

\* Faulty variant: the indices move and the bytes do not.
makeSpaceNoMove(b, len) ==
    IF mustGrow(b, len)
    THEN [b EXCEPT !.buffer_ = resize(@, b.writerIndex_ + len)]
    ELSE [b EXCEPT !.readerIndex_ = kCheapPrepend,
                   !.writerIndex_ = kCheapPrepend + readableBytes(b)]

makeSpace(b, len) ==
    IF mustGrow(b, len)
    THEN [b EXCEPT !.buffer_ = resize(@, b.writerIndex_ + len)]
    ELSE [buffer_ |-> copy(b.buffer_, kCheapPrepend, Content(b)),
          readerIndex_ |-> kCheapPrepend,
          writerIndex_ |-> kCheapPrepend + readableBytes(b)]

ensureWritable(b, len) == IF writableBytes(b) < len THEN makeSpace(b, len) ELSE b

\* Bytes written at beginWrite() and announced with hasWritten.
written(b, data) == [b EXCEPT !.buffer_ = copy(@, b.writerIndex_, data),
                              !.writerIndex_ = @ + Len(data)]

appended(b, data) == written(ensureWritable(b, Len(data)), data)

-----------------------------------------------------------------------------
(* Integers in network order, and searching *)

\* The bytes of an integer in the memory of a little-endian host, in two's
\* complement.
memory(x) == [i \in 1..x.size |-> (x.value \div Power[i - 1]) % Base]

\* The integer of that many bytes which has these bytes in memory.
valueOf(mem) == CHOOSE v \in -Power[Len(mem)]..Power[Len(mem)] :
                   /\ 2 * v \in -Power[Len(mem)]..(Power[Len(mem)] - 1)
                   /\ memory([value |-> v, size |-> Len(mem)]) = mem

\* Swapping the bytes: hostToNetwork and networkToHost are the same.
swapped(mem) == [i \in 1..Len(mem) |-> mem[Len(mem) + 1 - i]]

hostToNetwork(x) == swapped(memory(x))

peekInt(b, size) == valueOf(swapped(SubSeq(b.buffer_, b.readerIndex_ + 1, b.readerIndex_ + size)))

\* findCRLF and findEOL look from start to beginWrite(); the index of the first
\* match, -1 for NULL.
first(found) == IF found = {} THEN -1 ELSE CHOOSE i \in found : \A j \in found : i <= j

findCRLF(b, start) == first({i \in start..(b.writerIndex_ - 2) :
                               b.buffer_[i + 1] = CR /\ b.buffer_[i + 2] = LF})
findEOL(b, start) == first({i \in start..(b.writerIndex_ - 1) : b.buffer_[i + 1] = LF})

-----------------------------------------------------------------------------
Init == buf = New(InitialSize)

Fits(b) == Len(b.buffer_) <= MaxSize

append(data) == /\ Fits(appended(buf, data))
                /\ buf' = appended(buf, data)

ensureWritableBytes(len) == /\ Fits(ensureWritable(buf, len))
                            /\ buf' = ensureWritable(buf, len)

hasWritten(data) == /\ Len(data) <= writableBytes(buf)
                    /\ buf' = written(buf, data)

\* Faulty variant: it takes bytes back from the wrong end.
unwriteFront(len) == /\ len <= readableBytes(buf)
                     /\ buf' = [buf EXCEPT !.readerIndex_ = @ + len]

unwrite(len) == /\ len <= readableBytes(buf)
                /\ buf' = [buf EXCEPT !.writerIndex_ = @ - len]

retrieveAll == buf' = [buf EXCEPT !.readerIndex_ = kCheapPrepend,
                                  !.writerIndex_ = kCheapPrepend]

retrieve(len) == /\ len <= readableBytes(buf)
                 /\ \/ /\ len < readableBytes(buf)
                       /\ buf' = [buf EXCEPT !.readerIndex_ = @ + len]
                    \/ /\ len = readableBytes(buf)
                       /\ retrieveAll

prepend(data) ==
    /\ Len(data) <= prependableBytes(buf)
    /\ buf' = [buf EXCEPT !.buffer_ = copy(@, buf.readerIndex_ - Len(data), data),
                          !.readerIndex_ = @ - Len(data)]

appendInt(x) == append(hostToNetwork(x))
prependInt(x) == prepend(hostToNetwork(x))

\* A new buffer of the default size takes the readable bytes over.
shrink(reserve) ==
    LET other == appended(ensureWritable(New(kInitialSize), readableBytes(buf) + reserve),
                          Content(buf))
    IN  Fits(other) /\ buf' = other

\* readv fills the writable bytes first and the rest goes to extrabuf, which
\* takes part only when the writable bytes are fewer than its own.
readLimit == writableBytes(buf) + (IF writableBytes(buf) < ExtraSize THEN ExtraSize ELSE 0)

readFd(data) ==
    /\ Len(data) <= readLimit
    /\ LET direct == IF Len(data) <= writableBytes(buf) THEN Len(data) ELSE writableBytes(buf)
           start == written(buf, SubSeq(data, 1, direct))
           extra == SubSeq(data, direct + 1, Len(data))
       IN  \/ /\ Len(data) <= writableBytes(buf)
              /\ buf' = start
           \/ /\ Len(data) > writableBytes(buf)
              /\ Fits(appended(start, extra))
              /\ buf' = appended(start, extra)

Next == \/ \E data \in Data : append(data) \/ hasWritten(data) \/ prepend(data)
                                \/ readFd(data)
        \/ \E x \in Ints : appendInt(x) \/ prependInt(x)
        \/ \E n \in Counts : retrieve(n) \/ unwrite(n) \/ ensureWritableBytes(n)
                                \/ shrink(n)
        \/ retrieveAll

Spec == Init /\ [][Next]_buf
-----------------------------------------------------------------------------
\* The members are what they should be, and the picture at the head of
\* Buffer.h holds: 0 <= readerIndex <= writerIndex <= size.
TypeOK == /\ buf.buffer_ \in Seq(Byte)
          /\ buf.readerIndex_ \in Nat /\ buf.writerIndex_ \in Nat
          /\ buf.readerIndex_ <= buf.writerIndex_
          /\ buf.writerIndex_ <= Len(buf.buffer_)

Queue == INSTANCE ByteQueue WITH content <- Content(buf),
                                 Data <- Data \cup {hostToNetwork(x) : x \in Ints}

\* Moving, growing, reading in two pieces, shrinking and prepending never
\* change, lose or repeat a readable byte: the buffer is a queue of bytes.
ContentSpec == Queue!Spec

\* What the bytes of an integer are on the wire: the most significant first.
BigEndian(x) == [i \in 1..x.size |-> (x.value \div Power[x.size - i]) % Base]

\* What a search for a string should find: its first place in the readable
\* bytes, counted from the reader index.
Place(b, str) == first({k \in 0..(readableBytes(b) - Len(str)) :
                           SubSeq(Content(b), k + 1, k + Len(str)) = str})
Found(b, i) == IF i = -1 THEN -1 ELSE i - b.readerIndex_

\* Each operation does to the queue what its name says, with exactly the bytes
\* it was given, integers with the most significant first; making room and
\* shrinking do nothing to it.
DoesAsNamed ==
    /\ \A data \in Data :
          /\ append(data) \/ hasWritten(data) \/ readFd(data) => Queue!Write(data)
          /\ prepend(data) => Queue!Prepend(data)
    /\ \A x \in Ints : /\ appendInt(x) => Queue!Write(BigEndian(x))
                       /\ prependInt(x) => Queue!Prepend(BigEndian(x))
    /\ \A n \in Counts :
          /\ retrieve(n) => Queue!Retrieve(n)
          /\ unwrite(n) => Queue!Unwrite(n)
          /\ ensureWritableBytes(n) \/ shrink(n) => UNCHANGED Content(buf)
          /\ ensureWritableBytes(n) => writableBytes(buf') >= n

\* The searches see every readable byte and none of the stale ones behind the
\* writer index.
SearchesSeeContent ==
    /\ Found(buf, findCRLF(buf, buf.readerIndex_)) = Place(buf, <<CR, LF>>)
    /\ Found(buf, findEOL(buf, buf.readerIndex_)) = Place(buf, <<LF>>)

\* peekInt and readInt give back the integer that was written, negative ones too.
IntegersComeBack ==
    \A x \in Ints : /\ appendInt(x) /\ readableBytes(buf) = 0 => peekInt(buf', x.size) = x.value
                    /\ prependInt(x) => peekInt(buf', x.size) = x.value

\* Every operation of Buffer.h takes, returns and finds exactly what it should.
OperationsExact == [][DoesAsNamed /\ IntegersComeBack /\ SearchesSeeContent']_buf
=============================================================================
