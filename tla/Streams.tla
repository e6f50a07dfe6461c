--------------------------------- MODULE Streams ---------------------------------
(***************************************************************************)
(* The two seekable input streams: over memory (cciMemoryInputStream) and  *)
(* over a file (cciFileInputStream, on the C library). One client opens    *)
(* both on the same data, whose bytes are their positions, and makes every *)
(* call on both. Offsets are unsigned, modulo Wrap.                        *)
(*                                                                         *)
(* ReadSegments, which only the memory stream has, hands its consumer the  *)
(* bytes; the consumer may call the stream again before it returns. What   *)
(* it takes the client reads from the file.                                *)
(***************************************************************************)
EXTENDS Integers, Sequences, SequencesExt

CONSTANTS
  Length,        \* of the data, below Wrap
  Wrap           \* 2^32 in the code

(* The buffer's length is an unsigned of the same width.                    *)
ASSUME Widths == Length \in Nat /\ Wrap \in Nat /\ Length < Wrap

VARIABLES
  open,          \* mBuffer, and mFile
  mLength, mOffset, mLeft,
  mFile,         \* the position in the file
  consumer,      \* the amount it was given, and what is wanted still
  got,           \* bytes the memory stream delivered since Init or a Seek
  from,          \* where that was
  reentered,     \* the consumer has called the stream that called it
  apart          \* a call that the two take for different things was made

streams == <<open, mLength, mOffset, mLeft, mFile, consumer, got, from, reentered, apart>>

Nobody == [amount |-> 0, wanted |-> 0]
Up(n) == n % Wrap
Smaller(a, b) == IF a < b THEN a ELSE b
Bytes(at, n) == [i \in 1..n |-> at + i]

StreamsInit ==
  /\ open = FALSE /\ mLength = 0 /\ mOffset = 0 /\ mLeft = 0 /\ mFile = 0
  /\ consumer = Nobody /\ got = <<>> /\ from = 0 /\ reentered = FALSE /\ apart = FALSE

Calls == reentered' = (reentered \/ consumer # Nobody)
Starts(at) == got' = <<>> /\ from' = at

-----------------------------------------------------------------------------
(* Init does not set mOffset: Close did.                                    *)
InitStreams ==
  /\ ~open /\ open' = TRUE /\ mLength' = Length /\ mLeft' = Length /\ mFile' = 0
  /\ Starts(mOffset) /\ apart' = FALSE /\ Calls /\ UNCHANGED <<mOffset, consumer>>

Close_KeepsOffset ==
  /\ open /\ open' = FALSE /\ mLength' = 0 /\ mLeft' = 0
  /\ Starts(0) /\ Calls /\ UNCHANGED <<mOffset, mFile, consumer, apart>>
Close ==
  /\ open /\ open' = FALSE /\ mLength' = 0 /\ mOffset' = 0 /\ mLeft' = 0
  /\ Starts(0) /\ Calls /\ UNCHANGED <<mFile, consumer, apart>>

(* The memory stream counts from its end backwards, and lets an offset from *)
(* where it is wrap; the C library does neither.                            *)
InMemory(whence, offset) ==
  CASE whence = "SET" -> offset
    [] whence = "CUR" -> Up(offset + mOffset)
    [] whence = "END" -> Up(mLength - offset)
InFile(whence, offset) ==
  CASE whence = "SET" -> offset
    [] whence = "CUR" -> mFile + offset
    [] whence = "END" -> Length + offset
Seek(whence, offset) ==
  LET at == InMemory(whence, offset)
  IN /\ open /\ InFile(whence, offset) < Wrap + Length
     /\ IF at <= mLength THEN mOffset' = at /\ mLeft' = Up(mLength - at) /\ Starts(at)
        ELSE UNCHANGED <<mOffset, mLeft, got, from>>
     /\ mFile' = InFile(whence, offset)
     /\ apart' = (apart \/ InFile(whence, offset) > Length)
     /\ Calls /\ UNCHANGED <<open, mLength, consumer>>

SetEOF ==
  /\ open /\ mLeft' = 0 /\ mOffset' = mLength /\ mFile' = Length
  /\ Starts(mLength) /\ Calls /\ UNCHANGED <<open, mLength, consumer, apart>>

(* Whoever is told too much could read for ever: it may exceed the data once.   *)
Bounded == Len(got) <= Length

Passed(n) == mOffset' = Up(mOffset + n) /\ mLeft' = Up(mLeft - n)
FilePassed(n) ==
  mFile' = mFile + Smaller(n, IF mFile < Length THEN Length - mFile ELSE 0)

Read(count) ==
  LET n == Smaller(mLeft, count)
  IN /\ open /\ Bounded /\ Passed(n) /\ got' = got \o Bytes(mOffset, n) /\ FilePassed(count)
     /\ Calls /\ UNCHANGED <<open, mLength, consumer, from, apart>>

(* Without a buffer, the file stream seeks, past the end too.               *)
Skip(count) ==
  LET n == Smaller(mLeft, count)
  IN /\ open /\ Bounded /\ mFile + count < Wrap + Length
     /\ Passed(n) /\ got' = got \o Bytes(mOffset, n) /\ mFile' = mFile + count
     /\ apart' = (apart \/ mFile + count > Length)
     /\ Calls /\ UNCHANGED <<open, mLength, consumer, from>>

(* The loop of ReadSegments: the consumer is given what is left of what is  *)
(* wanted, ...                                                              *)
Offer(left, wanted) ==
  LET amount == Smaller(left, wanted)
  IN consumer' = IF amount = 0 THEN Nobody ELSE [amount |-> amount, wanted |-> wanted]
ReadSegments(count) ==
  /\ open /\ consumer = Nobody /\ Offer(mLeft, count)
  /\ UNCHANGED <<open, mLength, mOffset, mLeft, mFile, got, from, reentered, apart>>

(* ... takes some and is given the next, or refuses.                        *)
Segment_WholeAmount(took) ==
  /\ consumer # Nobody /\ took \in 1..consumer.amount /\ Bounded
  /\ Passed(consumer.amount) /\ got' = got \o Bytes(mOffset, took) /\ FilePassed(took)
  /\ Offer(mLeft', consumer.wanted - took)
  /\ UNCHANGED <<open, mLength, from, reentered, apart>>
Segment(took) ==
  /\ consumer # Nobody /\ took \in 1..consumer.amount /\ Bounded
  /\ Passed(took) /\ got' = got \o Bytes(mOffset, took) /\ FilePassed(took)
  /\ Offer(mLeft', consumer.wanted - took)
  /\ UNCHANGED <<open, mLength, from, reentered, apart>>
Refused ==
  /\ consumer # Nobody /\ consumer' = Nobody
  /\ UNCHANGED <<open, mLength, mOffset, mLeft, mFile, got, from, reentered, apart>>

StreamsNext ==
  \/ InitStreams \/ Close \/ SetEOF \/ Refused
  \/ \E n \in 0..Length : Read(n) \/ Skip(n) \/ ReadSegments(n) \/ Segment(n)
  \/ \E whence \in {"SET", "CUR", "END"}, n \in 0..Wrap - 1 : Seek(whence, n)

StreamsSpec == StreamsInit /\ [][StreamsNext]_streams
-----------------------------------------------------------------------------
(* A stream that is read in any way gives every byte from where it was set, *)
(* in order and once, and never more than there is, and both streams stand  *)
(* at the same byte: unless a consumer calls back into the stream, which    *)
(* ReadSegments does not notice, or (for the file) the client went past the *)
(* end or backwards.                                                        *)
StreamsGiveTheData ==
  ~reentered =>
    /\ mOffset + mLeft = mLength /\ mLength = IF open THEN Length ELSE 0
    /\ got = Bytes(from, Len(got)) /\ from + Len(got) = mOffset
    /\ open /\ ~apart => mFile = mOffset
=============================================================================
