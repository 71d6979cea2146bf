------------------------------- MODULE Buffer -------------------------------
(***************************************************************************)
(* The byte buffer of a connection (src/src/include/buffer.h): a vector    *)
(* with a reader and a writer index.  What has been read is skipped, and   *)
(* the room before it is used again when the end of the vector is reached. *)
(***************************************************************************)
EXTENDS Naturals, Sequences

CONSTANTS Byte,          \* what a buffer holds
          Zero,          \* the value of a byte nobody has written
          InitialSize    \* the size of a new buffer's vector

ASSUME BufferAssumption == Zero \in Byte /\ InitialSize \in Nat

(* A Buffer object: m_buffer, m_readerIndex and m_writerIndex. *)
Buffers ==
    {b \in [data : Seq(Byte), reader : Nat, writer : Nat] :
        b.reader <= b.writer /\ b.writer <= Len(b.data)}

NewBuffer == [data |-> [i \in 1 .. InitialSize |-> Zero], reader |-> 0, writer |-> 0]

ReadableBytes(b) == b.writer - b.reader
WritableBytes(b) == Len(b.data) - b.writer

(* The bytes from Peek on. *)
Readable(b) == SubSeq(b.data, b.reader + 1, b.writer)

RetrieveAll(b) == [data |-> b.data, reader |-> 0, writer |-> 0]

Retrieve(b, len) ==
    IF len < ReadableBytes(b) THEN [b EXCEPT !.reader = @ + len] ELSE RetrieveAll(b)

(* resize *)
Grown(b, len) ==
    [b EXCEPT !.data = [i \in 1 .. b.writer + len |->
                           IF i <= Len(b.data) THEN b.data[i] ELSE Zero]]

(* The readable bytes are moved to the front. *)
Compacted(b) ==
    [data   |-> [i \in 1 .. Len(b.data) |->
                    IF i <= ReadableBytes(b) THEN b.data[b.reader + i] ELSE b.data[i]],
     reader |-> 0,
     writer |-> ReadableBytes(b)]

(* Mutant: the readable bytes are not moved. *)
MakeSpaceUnmoved(b, len) ==
    IF WritableBytes(b) + b.reader < len
    THEN Grown(b, len)
    ELSE [b EXCEPT !.reader = 0, !.writer = ReadableBytes(b)]

MakeSpace(b, len) ==
    IF WritableBytes(b) + b.reader < len THEN Grown(b, len) ELSE Compacted(b)

(* std::copy to BeginWrite. *)
Written(b, d) ==
    [data   |-> [i \in 1 .. Len(b.data) |->
                    IF i \in b.writer + 1 .. b.writer + Len(d)
                    THEN d[i - b.writer] ELSE b.data[i]],
     reader |-> b.reader,
     writer |-> b.writer + Len(d)]

AppendBytes(b, d) ==
    Written(IF WritableBytes(b) < Len(d) THEN MakeSpace(b, Len(d)) ELSE b, d)
=============================================================================
