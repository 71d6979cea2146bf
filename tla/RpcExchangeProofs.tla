------------------------- MODULE RpcExchangeProofs -------------------------
(***************************************************************************)
(* Proofs about RpcExchange, for any calls and connections and for every   *)
(* way to take the messages apart; before that about Buffer, its queue of  *)
(* bytes, for every size of the vector and position of the two indices,    *)
(* and at the end about Wire, the bytes of its messages.                   *)
(***************************************************************************)
EXTENDS RpcExchange, Wire, SequenceTheorems, NaturalsInduction, WellFoundedInduction, TLAPS

-----------------------------------------------------------------------------
(* Buffer.                                                                  *)

LEMMA FromFunction ==
    ASSUME NEW S, NEW n \in Nat, NEW f \in [1 .. n -> S]
    PROVE  f \in Seq(S) /\ Len(f) = n
  BY SeqDef

LEMMA Parts ==
    ASSUME NEW b \in Buffers
    PROVE  /\ b.data \in Seq(Byte) /\ Len(b.data) \in Nat
           /\ b.reader \in Nat /\ b.writer \in Nat
           /\ b.reader <= b.writer /\ b.writer <= Len(b.data)
           /\ b = [data |-> b.data, reader |-> b.reader, writer |-> b.writer]
           /\ \A i \in 1 .. Len(b.data) : b.data[i] \in Byte
<1>1. /\ b.data \in Seq(Byte) /\ b.reader \in Nat /\ b.writer \in Nat
      /\ b.reader <= b.writer /\ b.writer <= Len(b.data)
      /\ b = [data |-> b.data, reader |-> b.reader, writer |-> b.writer]
  BY DEF Buffers
<1>2. Len(b.data) \in Nat
  BY <1>1, LenProperties
<1>3. \A i \in 1 .. Len(b.data) : b.data[i] \in Byte
  BY <1>1, ElementOfSeq
<1> QED
  BY <1>1, <1>2, <1>3

(* The readable bytes, one by one. *)
LEMMA ReadableParts ==
    ASSUME NEW b \in Buffers
    PROVE  /\ Readable(b) \in Seq(Byte)
           /\ Len(Readable(b)) = ReadableBytes(b)
           /\ ReadableBytes(b) \in Nat
           /\ \A i \in 1 .. ReadableBytes(b) : Readable(b)[i] = b.data[b.reader + i]
<1> DEFINE m == b.reader + 1
           n == b.writer
<1>1. m \in Int /\ n \in Int /\ \A i \in m .. n : b.data[i] \in Byte
  BY Parts
<1> HIDE DEF m, n
<1>2. /\ SubSeq(b.data, m, n) \in Seq(Byte)
      /\ Len(SubSeq(b.data, m, n)) = IF m <= n THEN n - m + 1 ELSE 0
      /\ \A i \in 1 .. n - m + 1 : SubSeq(b.data, m, n)[i] = b.data[m + i - 1]
  BY <1>1, SubSeqProperties
<1>3. n - m + 1 = ReadableBytes(b) /\ ReadableBytes(b) \in Nat
  BY Parts DEF m, n, ReadableBytes
<1>4. Readable(b) = SubSeq(b.data, m, n)
  BY DEF Readable, m, n
<1>5. Len(SubSeq(b.data, m, n)) = ReadableBytes(b)
  BY <1>1, <1>2, <1>3
<1>6. \A i \in 1 .. ReadableBytes(b) : SubSeq(b.data, m, n)[i] = b.data[b.reader + i]
  BY <1>2, <1>3, Parts, SMTT(30) DEF m
<1> QED
  BY <1>2, <1>3, <1>4, <1>5, <1>6

(* Two buffers with the same readable bytes, seen by index. *)
LEMMA SameReadable ==
    ASSUME NEW b \in Buffers, NEW s \in Seq(Byte),
           ReadableBytes(b) = Len(s),
           \A i \in 1 .. Len(s) : b.data[b.reader + i] = s[i]
    PROVE  Readable(b) = s
  BY ReadableParts, SeqEqual

(* A vector built from a function on 1 .. n. *)
LEMMA Built ==
    ASSUME NEW n \in Nat, NEW f \in [1 .. n -> Byte],
           NEW r \in Nat, NEW w \in Nat, r <= w, w <= n
    PROVE  /\ [data |-> f, reader |-> r, writer |-> w] \in Buffers
           /\ Len(f) = n
<1>1. f \in Seq(Byte) /\ Len(f) = n
  BY FromFunction
<1> QED
  BY <1>1 DEF Buffers

-----------------------------------------------------------------------------
(* MakeSpace makes room for len bytes and keeps what can be read. *)
LEMMA SpaceMade ==
    ASSUME NEW b \in Buffers, NEW len \in Nat, WritableBytes(b) < len
    PROVE  /\ MakeSpace(b, len) \in Buffers
           /\ WritableBytes(MakeSpace(b, len)) >= len
           /\ Readable(MakeSpace(b, len)) = Readable(b)
<1>1. CASE WritableBytes(b) + b.reader < len
  <2> DEFINE n == b.writer + len
             f == [i \in 1 .. n |-> IF i <= Len(b.data) THEN b.data[i] ELSE Zero]
             g == [data |-> f, reader |-> b.reader, writer |-> b.writer]
  <2>1. n \in Nat /\ Len(b.data) < n
    BY Parts DEF WritableBytes
  <2>2. f \in [1 .. n -> Byte]
    BY Parts, BufferAssumption
  <2>3. MakeSpace(b, len) = g
    BY <1>1, Parts, SMTT(30) DEF MakeSpace, Grown
  <2>4. \A i \in 1 .. Len(b.data) : f[i] = b.data[i]
    BY <2>1, Parts
  <2> HIDE DEF f, n
  <2>5. g \in Buffers /\ Len(f) = n
    BY <2>1, <2>2, Parts, Built
  <2>6. WritableBytes(g) >= len
    BY <2>5, Parts DEF WritableBytes, n
  <2>7. ReadableBytes(g) = ReadableBytes(b)
    BY DEF ReadableBytes
  <2>8. \A i \in 1 .. ReadableBytes(b) : g.data[g.reader + i] = Readable(b)[i]
    <3> SUFFICES ASSUME NEW i \in 1 .. ReadableBytes(b)
                 PROVE  f[b.reader + i] = Readable(b)[i]
      OBVIOUS
    <3>1. b.reader + i \in 1 .. Len(b.data)
      BY Parts DEF ReadableBytes
    <3>2. Readable(b)[i] = b.data[b.reader + i]
      BY ReadableParts
    <3> QED
      BY <3>1, <3>2, <2>4
  <2>9. Readable(g) = Readable(b)
    <3>1. ReadableBytes(g) = Len(Readable(b)) /\ Readable(b) \in Seq(Byte)
      BY <2>7, ReadableParts
    <3>2. \A i \in 1 .. Len(Readable(b)) : g.data[g.reader + i] = Readable(b)[i]
      BY <2>8, ReadableParts
    <3> HIDE DEF g
    <3> QED
      BY <3>1, <3>2, <2>5, SameReadable
  <2> QED
    BY <2>3, <2>5, <2>6, <2>9
<1>2. CASE ~(WritableBytes(b) + b.reader < len)
  <2> DEFINE n == Len(b.data)
             k == ReadableBytes(b)
             f == [i \in 1 .. n |-> IF i <= k THEN b.data[b.reader + i] ELSE b.data[i]]
             g == [data |-> f, reader |-> 0, writer |-> k]
  <2>1. n \in Nat /\ k \in Nat /\ k <= n /\ b.reader + k = b.writer
    BY Parts DEF ReadableBytes
  <2>2. f \in [1 .. n -> Byte]
    BY <2>1, Parts
  <2>3. MakeSpace(b, len) = g
    BY <1>2 DEF MakeSpace, Compacted
  <2>4. \A i \in 1 .. k : f[i] = b.data[b.reader + i]
    BY <2>1
  <2> HIDE DEF f
  <2>5. g \in Buffers /\ Len(f) = n
    BY <2>1, <2>2, Built
  <2>6. WritableBytes(g) >= len
    BY <1>2, <2>1, <2>5, Parts DEF WritableBytes
  <2>7. Readable(g) = Readable(b)
    <3>1. ReadableBytes(g) = Len(Readable(b)) /\ Readable(b) \in Seq(Byte)
      BY <2>1, ReadableParts DEF ReadableBytes
    <3>2. \A i \in 1 .. Len(Readable(b)) : g.data[g.reader + i] = Readable(b)[i]
      BY <2>1, <2>4, ReadableParts
    <3> HIDE DEF g
    <3> QED
      BY <3>1, <3>2, <2>5, SameReadable
  <2> QED
    BY <2>3, <2>5, <2>6, <2>7
<1> QED
  BY <1>1, <1>2

LEMMA RoomWritten ==
    ASSUME NEW b \in Buffers, NEW d \in Seq(Byte), WritableBytes(b) >= Len(d)
    PROVE  /\ Written(b, d) \in Buffers
           /\ Readable(Written(b, d)) = Readable(b) \o d
<1> DEFINE n == Len(b.data)
           w == b.writer + Len(d)
           f == [i \in 1 .. n |-> IF i \in b.writer + 1 .. w
                                  THEN d[i - b.writer] ELSE b.data[i]]
           g == [data |-> f, reader |-> b.reader, writer |-> w]
<1>1. Len(d) \in Nat /\ \A i \in 1 .. Len(d) : d[i] \in Byte
  BY LenProperties, ElementOfSeq
<1>2. n \in Nat /\ w \in Nat /\ b.reader <= w /\ w <= n
  BY <1>1, Parts DEF WritableBytes
<1>3. f \in [1 .. n -> Byte]
  BY <1>1, <1>2, Parts
<1>4. Written(b, d) = g
  BY Parts DEF Written
<1>5. /\ \A i \in 1 .. b.writer : f[i] = b.data[i]
      /\ \A i \in b.writer + 1 .. w : f[i] = d[i - b.writer]
  <2>1. /\ \A i \in 1 .. b.writer : i \in 1 .. n /\ i \notin b.writer + 1 .. w
        /\ \A i \in b.writer + 1 .. w : i \in 1 .. n
    <3>1. b.writer \in Nat /\ b.writer <= n
      BY Parts
    <3> HIDE DEF n, w
    <3> QED
      BY <1>2, <3>1
  <2> QED
    BY <2>1
<1> HIDE DEF f
<1>6. g \in Buffers
  BY <1>2, <1>3, Parts, Built
<1>7. Readable(g) = Readable(b) \o d
  <2>1. /\ Readable(b) \o d \in Seq(Byte)
        /\ Len(Readable(b) \o d) = ReadableBytes(b) + Len(d)
        /\ \A i \in 1 .. ReadableBytes(b) + Len(d) :
              (Readable(b) \o d)[i] = IF i <= ReadableBytes(b) THEN Readable(b)[i]
                                      ELSE d[i - ReadableBytes(b)]
    <3> DEFINE s == Readable(b)
    <3>1. s \in Seq(Byte) /\ Len(s) = ReadableBytes(b)
      BY ReadableParts
    <3> HIDE DEF s
    <3>2. /\ s \o d \in Seq(Byte)
          /\ Len(s \o d) = Len(s) + Len(d)
          /\ \A i \in 1 .. Len(s) + Len(d) :
                (s \o d)[i] = IF i <= Len(s) THEN s[i] ELSE d[i - Len(s)]
      BY <3>1, ConcatProperties
    <3>3. /\ s \o d \in Seq(Byte)
          /\ Len(s \o d) = ReadableBytes(b) + Len(d)
          /\ \A i \in 1 .. ReadableBytes(b) + Len(d) :
                (s \o d)[i] = IF i <= ReadableBytes(b) THEN s[i]
                              ELSE d[i - ReadableBytes(b)]
      BY <3>1, <3>2, Zenon
    <3> QED
      BY <3>3 DEF s
  <2>2. ReadableBytes(g) = ReadableBytes(b) + Len(d)
    BY <1>1, Parts DEF ReadableBytes
  <2>3. ASSUME NEW i \in 1 .. ReadableBytes(b) + Len(d)
        PROVE  g.data[g.reader + i] = (Readable(b) \o d)[i]
    <3>1. ReadableBytes(b) \in Nat /\ b.reader + ReadableBytes(b) = b.writer
      BY Parts DEF ReadableBytes
    <3>2. CASE i <= ReadableBytes(b)
      <4>1. (Readable(b) \o d)[i] = b.data[b.reader + i]
        BY <2>1, <3>1, <3>2, <1>1, ReadableParts
      <4>2. b.reader + i \in 1 .. b.writer
        BY <3>1, <3>2, <1>1, Parts
      <4>3. f[b.reader + i] = b.data[b.reader + i]
        BY <4>2, <1>5
      <4> QED
        BY <4>1, <4>3
    <3>3. CASE ReadableBytes(b) < i
      <4>1. (Readable(b) \o d)[i] = d[i - ReadableBytes(b)]
        BY <2>1, <3>1, <3>3, <1>1
      <4> DEFINE j == b.reader + i
      <4>2. j \in b.writer + 1 .. w /\ j - b.writer = i - ReadableBytes(b)
        BY <3>1, <3>3, <1>1, Parts
      <4> HIDE DEF j, w
      <4>3. f[j] = d[j - b.writer]
        BY <4>2, <1>5
      <4>4. f[b.reader + i] = d[i - ReadableBytes(b)]
        BY <4>2, <4>3, Zenon DEF j
      <4> QED
        BY <4>1, <4>4
    <3>4. i <= ReadableBytes(b) \/ ReadableBytes(b) < i
      BY <3>1, <1>1
    <3> HIDE DEF g
    <3> QED
      BY <3>1, <3>2, <3>3, <3>4
  <2> HIDE DEF g
  <2>4. /\ Readable(b) \o d \in Seq(Byte)
        /\ ReadableBytes(g) = Len(Readable(b) \o d)
        /\ \A i \in 1 .. Len(Readable(b) \o d) :
              g.data[g.reader + i] = (Readable(b) \o d)[i]
    BY <2>1, <2>2, <2>3
  <2> QED
    BY <2>4, <1>6, SameReadable
<1> QED
  BY <1>4, <1>6, <1>7

-----------------------------------------------------------------------------
(* Append (buffer.h:54) adds the bytes at the end of what can be read,     *)
(* whether it finds room, moves the bytes or enlarges the vector.          *)
THEOREM AppendIsFifo ==
    ASSUME NEW b \in Buffers, NEW d \in Seq(Byte)
    PROVE  /\ AppendBytes(b, d) \in Buffers
           /\ Readable(AppendBytes(b, d)) = Readable(b) \o d
<1> DEFINE r == IF WritableBytes(b) < Len(d) THEN MakeSpace(b, Len(d)) ELSE b
<1>1. Len(d) \in Nat /\ WritableBytes(b) \in Int
  BY Parts, LenProperties DEF WritableBytes
<1>2. r \in Buffers /\ WritableBytes(r) >= Len(d) /\ Readable(r) = Readable(b)
  <2>1. CASE WritableBytes(b) < Len(d)
    BY <2>1, <1>1, SpaceMade
  <2>2. CASE ~(WritableBytes(b) < Len(d))
    BY <2>2, <1>1
  <2> QED
    BY <2>1, <2>2
<1>3. AppendBytes(b, d) = Written(r, d)
  BY DEF AppendBytes
<1> HIDE DEF r
<1>4. Written(r, d) \in Buffers /\ Readable(Written(r, d)) = Readable(r) \o d
  BY <1>2, RoomWritten
<1> QED
  BY <1>2, <1>3, <1>4

(* Retrieve (buffer.h:26) takes len bytes from the front, and resets the   *)
(* two indices when nothing is left.                                       *)
THEOREM RetrieveIsFifo ==
    ASSUME NEW b \in Buffers, NEW len \in 0 .. ReadableBytes(b)
    PROVE  /\ Retrieve(b, len) \in Buffers
           /\ Readable(Retrieve(b, len)) = SubSeq(Readable(b), len + 1, ReadableBytes(b))
<1> DEFINE s == Readable(b)
           k == ReadableBytes(b)
<1>1. k \in Nat /\ len \in Nat /\ len <= k /\ b.reader + k = b.writer
  BY Parts DEF ReadableBytes
<1>2. s \in Seq(Byte) /\ Len(s) = k /\ \A i \in 1 .. k : s[i] = b.data[b.reader + i]
  BY ReadableParts
<1> HIDE DEF s
<1>3. /\ SubSeq(s, len + 1, k) \in Seq(Byte)
      /\ Len(SubSeq(s, len + 1, k)) = k - len
      /\ \A i \in 1 .. k - len : SubSeq(s, len + 1, k)[i] = b.data[b.reader + (len + i)]
  <2>1. len + 1 \in Int /\ k \in Int /\ \A i \in len + 1 .. k : s[i] \in Byte
    BY <1>1, <1>2, ElementOfSeq
  <2>2. /\ SubSeq(s, len + 1, k) \in Seq(Byte)
        /\ Len(SubSeq(s, len + 1, k)) = IF len + 1 <= k THEN k - (len + 1) + 1 ELSE 0
        /\ \A i \in 1 .. k - (len + 1) + 1 : SubSeq(s, len + 1, k)[i] = s[(len + 1) + i - 1]
    BY <2>1, SubSeqProperties
  <2> HIDE DEF k
  <2>3. Len(SubSeq(s, len + 1, k)) = k - len
    BY <2>2, <1>1
  <2>4. ASSUME NEW i \in 1 .. k - len
        PROVE  SubSeq(s, len + 1, k)[i] = b.data[b.reader + (len + i)]
    <3>1. (len + 1) + i - 1 = len + i /\ len + i \in 1 .. k /\ i \in 1 .. k - (len + 1) + 1
      BY <1>1
    <3> QED
      BY <3>1, <2>2, <1>2
  <2> QED
    BY <2>2, <2>3, <2>4
<1>4. CASE len < k
  <2> DEFINE g == [data |-> b.data, reader |-> b.reader + len, writer |-> b.writer]
  <2>1. Retrieve(b, len) = g
    BY <1>4, Parts DEF Retrieve
  <2>2. g \in Buffers
    BY <1>1, Parts DEF Buffers
  <2>3. ReadableBytes(g) = k - len
    BY <1>1, Parts DEF ReadableBytes
  <2>4. \A i \in 1 .. k - len : g.data[g.reader + i] = SubSeq(s, len + 1, k)[i]
    <3> HIDE DEF k
    <3> SUFFICES ASSUME NEW i \in 1 .. k - len
                 PROVE  b.data[b.reader + len + i] = SubSeq(s, len + 1, k)[i]
      OBVIOUS
    <3>1. b.reader + len + i = b.reader + (len + i)
      BY <1>1, Parts
    <3> QED
      BY <3>1, <1>3
  <2> HIDE DEF g
  <2>5. Readable(g) = SubSeq(s, len + 1, k)
    BY <1>3, <2>2, <2>3, <2>4, SameReadable
  <2> QED
    BY <2>1, <2>2, <2>5 DEF s
<1>5. CASE len = k
  <2> DEFINE g == [data |-> b.data, reader |-> 0, writer |-> 0]
  <2>1. Retrieve(b, len) = g
    BY <1>5, <1>1, Parts DEF Retrieve, RetrieveAll
  <2>2. g \in Buffers
    BY Parts DEF Buffers
  <2>3. ReadableBytes(g) = 0 /\ Len(SubSeq(s, len + 1, k)) = 0
    BY <1>1, <1>3, <1>5 DEF ReadableBytes
  <2> DEFINE t == SubSeq(s, len + 1, k)
  <2>4. t \in Seq(Byte) /\ Len(t) = 0
    BY <1>3, <2>3
  <2> HIDE DEF g, t
  <2>5. \A i \in 1 .. Len(t) : g.data[g.reader + i] = t[i]
    BY <2>4
  <2>6. Readable(g) = t
    BY <2>2, <2>3, <2>4, <2>5, SameReadable
  <2> QED
    BY <2>1, <2>2, <2>6 DEF s, t
<1> QED
  BY <1>1, <1>4, <1>5

(* A new buffer (buffer.h:10) has nothing to read. *)
THEOREM NewIsEmpty == NewBuffer \in Buffers /\ ReadableBytes(NewBuffer) = 0
<1>1. [i \in 1 .. InitialSize |-> Zero] \in [1 .. InitialSize -> Byte]
  BY BufferAssumption
<1>2. NewBuffer \in Buffers
  <2> DEFINE f == [i \in 1 .. InitialSize |-> Zero]
  <2> HIDE DEF f
  <2>1. f \in [1 .. InitialSize -> Byte]
    BY <1>1 DEF f
  <2>2. [data |-> f, reader |-> 0, writer |-> 0] \in Buffers
    BY <2>1, BufferAssumption, Built
  <2> QED
    BY <2>2 DEF NewBuffer, f
<1> QED
  BY <1>2 DEF NewBuffer, ReadableBytes

-----------------------------------------------------------------------------
(* RpcExchange.                                                             *)

Piece == {<<c, part>> : c \in Calls, part \in {"size", "header", "args"}}

TypeOK ==
    /\ pc \in [Calls -> {"start", "send", "sent", "ok", "failed"}]
    /\ conn \in [Calls -> Conns \cup {NoConn}]
    /\ got \in [Calls -> Seq(Byte)]
    /\ link \in [Conns -> {"none", "idle", "busy", "closed"}]
    /\ up \in [Conns -> Seq(Piece)]
    /\ down \in [Conns -> Seq(Byte)]
    /\ end \in [Conns -> {"none", "open", "closed"}]
    /\ out \in [Conns -> Buffers]
    /\ served \in [Calls -> {"no", "yes", "noargs"}]
    /\ answers \in [Conns -> Seq(Byte)]
    /\ frayed \in [Conns -> BOOLEAN]

Active(c) == pc[c] \in {"send", "sent"}

(* A call that is sending or receiving has a connection to itself.         *)
OneUser ==
    /\ \A c \in Calls : Active(c) => conn[c] \in Conns /\ link[conn[c]] = "busy"
    /\ \A c, d \in Calls : Active(c) /\ Active(d) /\ c # d => conn[c] # conn[d]

Placed == \A c \in Calls : pc[c] = "ok" => conn[c] \in Conns

(* What is on its way to the server on a connection was sent by the calls  *)
(* that used this connection, and nothing is on its way to a closed end.   *)
OwnRequests ==
    \A n \in Conns :
        /\ \A i \in 1 .. Len(up[n]) :
              conn[up[n][i][1]] = n /\ pc[up[n][i][1]] \notin {"start", "send"}
        /\ end[n] = "closed" => up[n] = <<>>

(* On a connection where nothing was taken in parts: at most one request,  *)
(* which has not been answered, and nothing left over in the buffer; the   *)
(* call that uses the connection finds its own request or its own answer   *)
(* there, and the next one finds nothing.                                  *)
Waiting(d, n) == up[n] = Request(d) /\ conn[d] = n /\ pc[d] \in {"sent", "failed"}
Silent(n) == up[n] = <<>> /\ down[n] = <<>>

Whole(n) ==
    ~frayed[n] =>
        /\ Readable(out[n]) = <<>>
        /\ up[n] = <<>> \/ \E d \in Calls : Waiting(d, n)
        /\ link[n] \in {"none", "idle"} => Silent(n)

Exchange(c) ==
    Active(c) /\ ~frayed[conn[c]] =>
        \/ Silent(conn[c])
        \/ /\ pc[c] = "sent"
           /\ up[conn[c]] = Request(c) /\ down[conn[c]] = <<>>
        \/ /\ pc[c] = "sent" /\ served[c] = "yes"
           /\ up[conn[c]] = <<>> /\ down[conn[c]] = Response(c)

WholeMessages == \A n \in Conns : Whole(n)
OwnExchange   == \A c \in Calls : Exchange(c)

IInv == /\ TypeOK /\ OneUser /\ Placed /\ OwnRequests /\ WholeMessages /\ OwnExchange
        /\ StreamKept /\ OwnAnswer

-----------------------------------------------------------------------------
(* Sequences that are taken apart and put together.                        *)

LEMMA Cut ==
    ASSUME NEW S, NEW s \in Seq(S), NEW k \in 0 .. Len(s)
    PROVE  /\ SubSeq(s, 1, k) \in Seq(S) /\ Rest(s, k) \in Seq(S)
           /\ s = SubSeq(s, 1, k) \o Rest(s, k)
           /\ Len(Rest(s, k)) = Len(s) - k
           /\ \A i \in 1 .. Len(s) - k : Rest(s, k)[i] = s[k + i]
           /\ Len(SubSeq(s, 1, k)) = k
           /\ \A i \in 1 .. k : SubSeq(s, 1, k)[i] = s[i]
           /\ k = Len(s) => SubSeq(s, 1, k) = s /\ Rest(s, k) = <<>>
<1>1. Len(s) \in Nat /\ \A i \in 1 .. Len(s) : s[i] \in S
  BY LenProperties, ElementOfSeq
<1>2. /\ SubSeq(s, 1, k) \in Seq(S)
      /\ Len(SubSeq(s, 1, k)) = IF 1 <= k THEN k - 1 + 1 ELSE 0
      /\ \A i \in 1 .. k - 1 + 1 : SubSeq(s, 1, k)[i] = s[1 + i - 1]
  <2>1. 1 \in Int /\ k \in Int /\ \A i \in 1 .. k : s[i] \in S
    BY <1>1
  <2> QED
    BY <2>1, SubSeqProperties
<1> DEFINE m == k + 1
           n == Len(s)
<1>3. m \in Int /\ n \in Int /\ \A i \in m .. n : s[i] \in S
  BY <1>1
<1>4. n - m + 1 = n - k /\ Rest(s, k) = SubSeq(s, m, n)
  BY <1>1 DEF Rest
<1> HIDE DEF m
<1>5. /\ SubSeq(s, m, n) \in Seq(S)
      /\ Len(SubSeq(s, m, n)) = IF m <= n THEN n - m + 1 ELSE 0
      /\ \A i \in 1 .. n - m + 1 : SubSeq(s, m, n)[i] = s[m + i - 1]
  BY <1>3, SubSeqProperties
<1>6. Rest(s, k) \in Seq(S) /\ Len(Rest(s, k)) = Len(s) - k
  <2>1. m <= n \/ n - k = 0
    BY <1>1 DEF m
  <2>2. IF m <= n THEN n - m + 1 = n - k ELSE n - k = 0
    BY <1>4, <2>1
  <2> HIDE DEF n
  <2>3. Len(SubSeq(s, m, n)) = n - k
    BY <1>5, <2>2
  <2> QED
    BY <1>4, <1>5, <2>3 DEF n
<1>7. ASSUME NEW i \in 1 .. Len(s) - k PROVE Rest(s, k)[i] = s[k + i]
  <2>1. m + i - 1 = k + i /\ i \in 1 .. n - m + 1
    BY <1>1, <1>4 DEF m
  <2> QED
    BY <1>4, <1>5, <2>1
<1>8. s = SubSeq(s, 1, k) \o Rest(s, k)
  <2>1. SubSeq(s, 1, n) = s
    BY SubSeqFull
  <2>2. SubSeq(s, 1, k) \o SubSeq(s, k + 1, n) = SubSeq(s, 1, n)
    <3>1. 1 \in 1 .. Len(s) + 1 /\ k \in 1 - 1 .. Len(s) /\ n \in k .. Len(s)
      BY <1>1
    <3> QED
      BY <3>1, ConcatAdjacentSubSeq
  <2> QED
    BY <2>1, <2>2 DEF Rest
<1>9. k = Len(s) => SubSeq(s, 1, k) = s /\ Rest(s, k) = <<>>
  BY <1>1, <1>6, SubSeqFull, EmptySeq
<1>10. Len(SubSeq(s, 1, k)) = k /\ \A i \in 1 .. k : SubSeq(s, 1, k)[i] = s[i]
  <2>1. Len(SubSeq(s, 1, k)) = k
    BY <1>2
  <2>2. ASSUME NEW i \in 1 .. k PROVE SubSeq(s, 1, k)[i] = s[i]
    <3>1. 1 + i - 1 = i /\ i \in 1 .. k - 1 + 1
      OBVIOUS
    <3> QED
      BY <1>2, <3>1
  <2> QED
    BY <2>1, <2>2
<1> QED
  BY <1>2, <1>6, <1>7, <1>8, <1>9, <1>10

(* IsSuffix says that something stands before. *)
LEMMA SuffixIs ==
    ASSUME NEW S, NEW s \in Seq(S), NEW t \in Seq(S)
    PROVE  IsSuffix(s, t) <=> \E u \in Seq(S) : t = u \o s
<1> DEFINE rs == Reverse(s)
           rt == Reverse(t)
           k == Len(s)
           n == Len(t)
<1>1. k \in Nat /\ n \in Nat
  BY LenProperties
<1>2. /\ rs \in Seq(S) /\ Len(rs) = k /\ \A i \in 1 .. k : rs[i] = s[k - i + 1]
      /\ rt \in Seq(S) /\ Len(rt) = n /\ \A i \in 1 .. n : rt[i] = t[n - i + 1]
  <2>1. \A i \in 1 .. k : k - i + 1 \in 1 .. k
    BY <1>1
  <2>2. \A i \in 1 .. n : n - i + 1 \in 1 .. n
    BY <1>1
  <2>3. [i \in 1 .. k |-> s[k - i + 1]] \in [1 .. k -> S]
    BY <2>1, ElementOfSeq
  <2>4. [i \in 1 .. n |-> t[n - i + 1]] \in [1 .. n -> S]
    BY <2>2, ElementOfSeq
  <2>5. rs = [i \in 1 .. k |-> s[k - i + 1]] /\ rt = [i \in 1 .. n |-> t[n - i + 1]]
    BY DEF Reverse
  <2> HIDE DEF rs, rt
  <2>6. rs \in Seq(S) /\ Len(rs) = k /\ rt \in Seq(S) /\ Len(rt) = n
    BY <1>1, <2>3, <2>4, <2>5, FromFunction
  <2> QED
    BY <2>5, <2>6
<1>3. IsSuffix(s, t) <=> k <= n /\ SubSeq(rs, 1, k) = SubSeq(rt, 1, k)
  <2>1. IsSuffix(s, t) <=> Len(rs) <= Len(rt) /\ SubSeq(rs, 1, Len(rs)) = SubSeq(rt, 1, Len(rs))
    BY DEF IsSuffix, IsPrefix
  <2> HIDE DEF rs, rt
  <2> QED
    BY <2>1, <1>2
<1> HIDE DEF rs, rt, k, n
<1>4. SubSeq(rs, 1, k) = rs
  BY <1>2, SubSeqFull
<1>5. ASSUME k <= n
      PROVE  SubSeq(rt, 1, k) \in Seq(S) /\ Len(SubSeq(rt, 1, k)) = k
             /\ \A i \in 1 .. k : SubSeq(rt, 1, k)[i] = rt[i]
  <2>1. k \in 0 .. Len(rt)
    BY <1>1, <1>2, <1>5
  <2> QED
    BY <1>2, <2>1, Cut
<1>6. ASSUME k <= n, SubSeq(rt, 1, k) = rs PROVE \E u \in Seq(S) : t = u \o s
  <2> DEFINE m == n - k
  <2>1. m \in 0 .. Len(t)
    BY <1>1, <1>6 DEF n
  <2>2. ASSUME NEW i \in 1 .. k PROVE t[m + i] = s[i]
    <3>1. k - i + 1 \in 1 .. k /\ k - i + 1 \in 1 .. n
      BY <1>1, <1>6
    <3>2. rs[k - i + 1] = rt[k - i + 1]
      BY <1>5, <1>6, <3>1
    <3>3. k - (k - i + 1) + 1 = i /\ n - (k - i + 1) + 1 = m + i
      BY <1>1
    <3>4. rs[k - i + 1] = s[i]
      BY <1>2, <3>1, <3>3
    <3>5. rt[k - i + 1] = t[m + i]
      BY <1>2, <3>1, <3>3
    <3> QED
      BY <3>2, <3>4, <3>5
  <2> HIDE DEF m
  <2>3. Len(t) - m = k
    BY <1>1 DEF m, n
  <2>4. /\ Rest(t, m) \in Seq(S) /\ Len(Rest(t, m)) = k
        /\ \A i \in 1 .. k : Rest(t, m)[i] = t[m + i]
        /\ SubSeq(t, 1, m) \in Seq(S) /\ t = SubSeq(t, 1, m) \o Rest(t, m)
    BY <2>1, <2>3, Cut
  <2>5. Rest(t, m) = s
    BY <2>2, <2>4, SeqEqual DEF k
  <2> QED
    BY <2>4, <2>5
<1>7. ASSUME NEW u \in Seq(S), t = u \o s PROVE k <= n /\ SubSeq(rt, 1, k) = rs
  <2>1. /\ Len(u) \in Nat /\ n = Len(u) + k
        /\ \A i \in 1 .. Len(u) + k : t[i] = IF i <= Len(u) THEN u[i] ELSE s[i - Len(u)]
    BY <1>7, ConcatProperties, LenProperties DEF n, k
  <2>2. k <= n
    BY <1>1, <2>1
  <2>3. ASSUME NEW i \in 1 .. k PROVE SubSeq(rt, 1, k)[i] = rs[i]
    <3>1. rs[i] = s[k - i + 1]
      BY <1>2
    <3>2. rt[i] = t[n - i + 1]
      BY <1>1, <1>2, <2>2
    <3> DEFINE j == n - i + 1
    <3>3. j \in 1 .. Len(u) + k /\ ~(j <= Len(u)) /\ j - Len(u) = k - i + 1
      BY <1>1, <2>1
    <3>4. t[j] = s[k - i + 1]
      <4> HIDE DEF j
      <4> QED
        BY <2>1, <3>3
    <3> QED
      BY <1>5, <2>2, <3>1, <3>2, <3>4
  <2> QED
    BY <1>2, <1>5, <2>2, <2>3, SeqEqual
<1> QED
  BY <1>3, <1>4, <1>6, <1>7

-----------------------------------------------------------------------------
(* The messages, and what one system call takes of them.                   *)

LEMMA RequestIs ==
    ASSUME NEW c \in Calls
    PROVE  /\ Request(c) \in Seq(Piece) /\ Len(Request(c)) = 3 /\ Request(c) # <<>>
           /\ \A i \in 1 .. 3 : Request(c)[i][1] = c
           /\ Request(c)[1] = <<c, "size">>
  BY DEF Request, Piece

LEMMA ResponseIs ==
    ASSUME NEW c \in Calls
    PROVE  Response(c) \in Seq(Byte) /\ Len(Response(c)) = 2
  BY ExchangeAssumption DEF Response

LEMMA PieceIs ==
    ASSUME NEW p \in Piece
    PROVE  p[1] \in Calls
  BY DEF Piece

LEMMA TakenIs ==
    ASSUME NEW S, NEW s \in Seq(S), NEW k \in Taken(s)
    PROVE  k \in 1 .. Len(s) /\ k \in 0 .. Len(s) /\ Len(s) \in Nat
<1>1. Len(s) \in Nat
  BY LenProperties
<1>2. k \in 1 .. Len(s)
  BY <1>1 DEF Taken
<1> QED
  BY <1>1, <1>2

(* The flag is only ever raised. *)
LEMMA Raised ==
    ASSUME NEW S, NEW f \in [S -> BOOLEAN], NEW n \in S, NEW x \in BOOLEAN, NEW g,
           g = [f EXCEPT ![n] = @ \/ x]
    PROVE  /\ g \in [S -> BOOLEAN]
           /\ ~g[n] => ~f[n] /\ ~x
           /\ \A m \in S : m # n => g[m] = f[m]
<1>1. g \in [S -> BOOLEAN]
  BY Zenon
<1>2. g[n] = (f[n] \/ x)
  BY Zenon
<1>3. \A m \in S : m # n => g[m] = f[m]
  BY Zenon
<1> QED
  BY <1>1, <1>2, <1>3

(* What SendRpcResponse does to a connection: the answer goes behind what  *)
(* is in the buffer, and a part of that to the socket.                     *)
Answered(n, c, cut, sent, left) ==
    /\ down' = [down EXCEPT ![n] = @ \o sent]
    /\ out' \in [Conns -> Buffers]
    /\ Readable(out'[n]) = left
    /\ \A m \in Conns : m # n => out'[m] = out[m] /\ frayed'[m] = frayed[m]
    /\ sent \o left = Readable(out[n]) \o Response(c)
    /\ answers' = [answers EXCEPT ![n] = @ \o Response(c)]
    /\ frayed' \in [Conns -> BOOLEAN]
    /\ ~frayed'[n] => ~frayed[n] /\ ~cut /\ left = <<>>

LEMMA AnswerParts ==
    ASSUME TypeOK, NEW n \in Conns, NEW c \in Calls, NEW cut \in BOOLEAN, Answer(n, c, cut)
    PROVE  \E sent \in Seq(Byte), left \in Seq(Byte) : Answered(n, c, cut, sent, left)
<1> DEFINE b == AppendBytes(out[n], Response(c))
           r == Readable(b)
<1>1. out[n] \in Buffers /\ out \in [Conns -> Buffers] /\ frayed \in [Conns -> BOOLEAN]
  BY DEF TypeOK
<1>2. b \in Buffers /\ r = Readable(out[n]) \o Response(c)
  BY <1>1, ResponseIs, AppendIsFifo
<1>3. r \in Seq(Byte) /\ Len(r) = ReadableBytes(b) /\ ReadableBytes(b) \in Nat
  BY <1>2, ReadableParts
<1>4. PICK k \in IF Split THEN 0 .. ReadableBytes(b) ELSE {ReadableBytes(b)} :
        /\ down' = [down EXCEPT ![n] = @ \o SubSeq(r, 1, k)]
        /\ out' = [out EXCEPT ![n] = IF k > 0 THEN Retrieve(b, k) ELSE b]
        /\ frayed' = [frayed EXCEPT ![n] = @ \/ cut \/ k < ReadableBytes(b)]
  BY DEF Answer
<1>5. answers' = [answers EXCEPT ![n] = @ \o Response(c)]
  BY DEF Answer
<1> HIDE DEF b
<1>6. k \in 0 .. Len(r)
  BY <1>3, <1>4
<1>7. /\ SubSeq(r, 1, k) \in Seq(Byte) /\ Rest(r, k) \in Seq(Byte)
      /\ r = SubSeq(r, 1, k) \o Rest(r, k)
      /\ k = Len(r) => Rest(r, k) = <<>>
  <2> HIDE DEF r
  <2> QED
    BY <1>3, <1>6, Cut
<1> DEFINE o == IF k > 0 THEN Retrieve(b, k) ELSE b
<1>8. o \in Buffers /\ Readable(o) = Rest(r, k)
  <2>1. CASE k > 0
    <3>1. k \in 0 .. ReadableBytes(b)
      BY <1>3, <1>6
    <3>2. Retrieve(b, k) \in Buffers
          /\ Readable(Retrieve(b, k)) = SubSeq(Readable(b), k + 1, ReadableBytes(b))
      BY <1>2, <3>1, RetrieveIsFifo
    <3> QED
      BY <1>3, <2>1, <3>2 DEF Rest
  <2>2. CASE ~(k > 0)
    <3>1. k = 0
      BY <1>3, <1>6, <2>2
    <3>2. Rest(r, 0) = r
      <4> HIDE DEF r
      <4>1. SubSeq(r, 1, Len(r)) = r
        BY <1>3, SubSeqFull
      <4> QED
        BY <4>1 DEF Rest
    <3> QED
      BY <1>2, <2>2, <3>1, <3>2
  <2> QED
    BY <2>1, <2>2
<1> HIDE DEF o
<1>9. out' = [out EXCEPT ![n] = o]
  BY <1>4 DEF o
<1>10. /\ out' \in [Conns -> Buffers] /\ out'[n] = o
       /\ \A m \in Conns : m # n => out'[m] = out[m]
  BY <1>1, <1>8, <1>9
<1>11. /\ frayed' \in [Conns -> BOOLEAN]
       /\ \A m \in Conns : m # n => frayed'[m] = frayed[m]
       /\ ~frayed'[n] => ~frayed[n] /\ ~(cut \/ k < ReadableBytes(b))
  <2> DEFINE x == cut \/ k < ReadableBytes(b)
  <2>1. x \in BOOLEAN /\ frayed' = [frayed EXCEPT ![n] = @ \/ x]
    BY <1>4, Zenon
  <2> HIDE DEF x
  <2>2. /\ frayed' \in [Conns -> BOOLEAN]
        /\ ~frayed'[n] => ~frayed[n] /\ ~x
        /\ \A m \in Conns : m # n => frayed'[m] = frayed[m]
    BY <1>1, <2>1, Raised
  <2> QED
    BY <2>2 DEF x
<1>12. ~(k < ReadableBytes(b)) => Rest(r, k) = <<>>
  BY <1>3, <1>6, <1>7
<1>13. Answered(n, c, cut, SubSeq(r, 1, k), Rest(r, k))
  BY <1>2, <1>4, <1>5, <1>7, <1>8, <1>10, <1>11, <1>12 DEF Answered
<1> QED
  BY <1>7, <1>13

(* OnMessage, on the bytes that one read has taken.                        *)
LEMMA ServeParts ==
    ASSUME TypeOK, NEW n \in Conns, Serve(n)
    PROVE  \E k \in 1 .. Len(up[n]), c \in Calls :
              /\ end[n] = "open" /\ c = up[n][1][1]
              /\ up[n][1] = <<c, "size">> /\ c \notin Refused
              /\ up' = [up EXCEPT ![n] = Rest(@, k)]
              /\ served' = [served EXCEPT ![c] = IF k > 2 THEN "yes" ELSE "noargs"]
              /\ Answer(n, c, k < Len(up[n]))
              /\ UNCHANGED <<client, reset, end, died>>
<1>1. PICK k \in Arrived(n) :
        /\ up' = [up EXCEPT ![n] = Rest(@, k)]
        /\ served' = [served EXCEPT ![Caller(SubSeq(up[n], 1, k))] =
                                        IF k > 2 THEN "yes" ELSE "noargs"]
        /\ Answer(n, Caller(SubSeq(up[n], 1, k)), k < Len(up[n]))
        /\ HasHeader(SubSeq(up[n], 1, k)) /\ Caller(SubSeq(up[n], 1, k)) \notin Refused
  BY DEF Serve
<1>2. up[n] \in Seq(Piece)
  BY DEF TypeOK
<1>3. k \in 1 .. Len(up[n]) /\ end[n] = "open" /\ k \in 0 .. Len(up[n])
  <2>1. k \in Taken(up[n]) /\ end[n] = "open"
    BY <1>1 DEF Arrived
  <2> QED
    BY <1>2, <2>1, TakenIs
<1>4. SubSeq(up[n], 1, k)[1] = up[n][1] /\ up[n][1] \in Piece
  BY <1>2, <1>3, Cut, ElementOfSeq
<1>5. Caller(SubSeq(up[n], 1, k)) = up[n][1][1] /\ up[n][1][1] \in Calls
  BY <1>4, PieceIs DEF Caller
<1>6. UNCHANGED <<client, reset, end, died>>
  BY DEF Serve
<1>7. up[n][1] = <<up[n][1][1], "size">>
  BY <1>1, <1>4, <1>5 DEF HasHeader, StartsMessage
<1> QED
  BY <1>1, <1>3, <1>5, <1>6, <1>7

LEMMA DropParts ==
    ASSUME TypeOK, NEW n \in Conns, Drop(n)
    PROVE  /\ \E k \in 1 .. Len(up[n]) :
                 /\ up' = [up EXCEPT ![n] = Rest(@, k)]
                 /\ ~frayed'[n] => ~frayed[n] /\ ~(k < Len(up[n]))
           /\ frayed' \in [Conns -> BOOLEAN]
           /\ \A m \in Conns : m # n => frayed'[m] = frayed[m]
           /\ end[n] = "open"
           /\ UNCHANGED <<client, down, reset, server, answers>>
<1>1. PICK k \in Arrived(n) :
        /\ up' = [up EXCEPT ![n] = Rest(@, k)]
        /\ frayed' = [frayed EXCEPT ![n] = @ \/ k < Len(up[n])]
  BY DEF Drop
<1>2. up[n] \in Seq(Piece) /\ frayed \in [Conns -> BOOLEAN]
  BY DEF TypeOK
<1>3. k \in 1 .. Len(up[n]) /\ end[n] = "open"
  <2>1. k \in Taken(up[n]) /\ end[n] = "open"
    BY <1>1 DEF Arrived
  <2> QED
    BY <1>2, <2>1, TakenIs
<1> DEFINE x == k < Len(up[n])
<1>4. x \in BOOLEAN /\ frayed' = [frayed EXCEPT ![n] = @ \/ x]
  <2>1. x \in BOOLEAN
    OBVIOUS
  <2> QED
    BY <1>1, <2>1, Zenon
<1> HIDE DEF x
<1>5. /\ frayed' \in [Conns -> BOOLEAN]
      /\ ~frayed'[n] => ~frayed[n] /\ ~x
      /\ \A m \in Conns : m # n => frayed'[m] = frayed[m]
  BY <1>2, <1>4, Raised
<1>6. UNCHANGED <<client, down, reset, server, answers>>
  BY DEF Drop
<1> QED
  BY <1>1, <1>3, <1>5, <1>6 DEF x

(* One recv, by the call that has the connection.                          *)
LEMMA RecvParts ==
    ASSUME TypeOK, OneUser, NEW c \in Calls, Recv(c)
    PROVE  /\ conn[c] \in Conns /\ pc[c] = "sent"
           /\ \E k \in 1 .. Len(down[conn[c]]), result \in {"ok", "failed"} :
                 /\ pc' = [pc EXCEPT ![c] = result]
                 /\ got' = [got EXCEPT ![c] = SubSeq(down[conn[c]], 1, k)]
                 /\ down' = [down EXCEPT ![conn[c]] = Rest(@, k)]
                 /\ SubSeq(down[conn[c]], 1, k) = Response(c) => result = "ok"
                 /\ ~frayed'[conn[c]] => ~frayed[conn[c]] /\ ~(k < Len(down[conn[c]]))
           /\ link' = [link EXCEPT ![conn[c]] = "idle"]
           /\ frayed' \in [Conns -> BOOLEAN]
           /\ \A m \in Conns : m # conn[c] => frayed'[m] = frayed[m]
           /\ UNCHANGED <<conn, killed, up, reset, server, answers>>
<1> DEFINE n == conn[c]
<1>1. n \in Conns /\ pc[c] = "sent"
  BY DEF Recv, OneUser, Active
<1>2. PICK k \in Taken(down[n]) :
        /\ ReleaseAfter(c, SubSeq(down[n], 1, k))
        /\ down' = [down EXCEPT ![n] = Rest(@, k)]
        /\ frayed' = [frayed EXCEPT ![n] = @ \/ k < Len(down[n])]
  BY DEF Recv
<1>3. UNCHANGED <<conn, killed, up, reset, server, answers>>
  BY DEF Recv
<1>4. PICK result \in {"ok", "failed"} :
        /\ pc' = [pc EXCEPT ![c] = result]
        /\ SubSeq(down[n], 1, k) = Response(c) => result = "ok"
  BY <1>2 DEF ReleaseAfter, Parsed, Goto
<1>5. /\ got' = [got EXCEPT ![c] = SubSeq(down[n], 1, k)]
      /\ link' = [link EXCEPT ![n] = "idle"]
  BY <1>2 DEF ReleaseAfter
<1> HIDE DEF n
<1>6. k \in 1 .. Len(down[n])
  BY <1>1, <1>2, TakenIs DEF TypeOK
<1> DEFINE x == k < Len(down[n])
<1>7. x \in BOOLEAN
  OBVIOUS
<1>8. frayed' = [frayed EXCEPT ![n] = @ \/ x] /\ frayed \in [Conns -> BOOLEAN]
  BY <1>2, Zenon DEF TypeOK
<1> HIDE DEF x
<1>9. /\ frayed' \in [Conns -> BOOLEAN]
      /\ ~frayed'[n] => ~frayed[n] /\ ~x
      /\ \A m \in Conns : m # n => frayed'[m] = frayed[m]
  BY <1>1, <1>7, <1>8, Raised
<1> QED
  BY <1>1, <1>2, <1>3, <1>4, <1>5, <1>6, <1>9 DEF n, x

-----------------------------------------------------------------------------
LEMMA TypeStep ==
    ASSUME IInv, [Next]_vars
    PROVE  TypeOK'
<1>0. TypeOK /\ OneUser
  BY DEF IInv
<1> USE DEF TypeOK
<1>1. ASSUME NEW c \in Calls, GetIdle(c) \/ GetNew(c) \/ GetFails(c) PROVE TypeOK'
  <2>1. CASE GetIdle(c)
    BY <1>0, <2>1 DEF GetIdle, Goto, server
  <2>2. CASE GetNew(c)
    BY <1>0, <2>2 DEF GetNew, Goto, server
  <2>3. CASE GetFails(c)
    BY <1>0, <2>3 DEF GetFails, Goto, server
  <2> QED
    BY <1>1, <2>1, <2>2, <2>3
<1>2. ASSUME NEW c \in Calls, Send(c) PROVE TypeOK'
  <2>1. conn[c] \in Conns
    BY <1>0, <1>2 DEF Send, OneUser, Active
  <2>2. up' \in [Conns -> Seq(Piece)]
    <3>1. up[conn[c]] \o Request(c) \in Seq(Piece)
      BY <1>0, <2>1, RequestIs, ConcatProperties
    <3> QED
      BY <1>0, <1>2, <2>1, <3>1 DEF Send
  <2>3. pc' \in [Calls -> {"start", "send", "sent", "ok", "failed"}]
    BY <1>0, <1>2 DEF Send, Goto
  <2> QED
    BY <1>0, <1>2, <2>2, <2>3 DEF Send, server
<1>3. ASSUME NEW c \in Calls, SendKills(c) \/ IoFails(c) PROVE TypeOK'
  <2>1. CASE SendKills(c)
    BY <1>0, <2>1 DEF SendKills, server
  <2>2. CASE IoFails(c)
    BY <1>0, <2>2 DEF IoFails, Goto, server
  <2> QED
    BY <1>3, <2>1, <2>2
<1>4. ASSUME NEW c \in Calls, Recv(c) PROVE TypeOK'
  <2>1. conn[c] \in Conns
    BY <1>0, <1>4, RecvParts
  <2>2. PICK k \in 1 .. Len(down[conn[c]]), result \in {"ok", "failed"} :
           /\ pc' = [pc EXCEPT ![c] = result]
           /\ got' = [got EXCEPT ![c] = SubSeq(down[conn[c]], 1, k)]
           /\ down' = [down EXCEPT ![conn[c]] = Rest(@, k)]
           /\ ~frayed'[conn[c]] => ~frayed[conn[c]] /\ ~(k < Len(down[conn[c]]))
    BY <1>0, <1>4, RecvParts, Zenon
  <2>3. SubSeq(down[conn[c]], 1, k) \in Seq(Byte) /\ Rest(down[conn[c]], k) \in Seq(Byte)
    <3>1. down[conn[c]] \in Seq(Byte) /\ k \in 0 .. Len(down[conn[c]])
      BY <1>0, <2>1
    <3> QED
      BY <3>1, Cut
  <2>4. got' \in [Calls -> Seq(Byte)] /\ down' \in [Conns -> Seq(Byte)]
    BY <1>0, <2>1, <2>2, <2>3
  <2>5. pc' \in [Calls -> {"start", "send", "sent", "ok", "failed"}]
    BY <1>0, <2>2
  <2>6. link' \in [Conns -> {"none", "idle", "busy", "closed"}]
    BY <1>0, <1>4, RecvParts
  <2>7. frayed' \in [Conns -> BOOLEAN] /\ UNCHANGED <<conn, up, server, answers>>
    BY <1>0, <1>4, RecvParts
  <2> QED
    BY <1>0, <2>4, <2>5, <2>6, <2>7 DEF server
<1>5. ASSUME NEW c \in Calls, RecvEnd(c) PROVE TypeOK'
  <2>1. <<>> \in Seq(Byte)
    BY EmptySeq
  <2>2. /\ got' = [got EXCEPT ![c] = <<>>]
        /\ pc' = [pc EXCEPT ![c] = "ok"]
        /\ link' = [link EXCEPT ![conn[c]] = "idle"]
        /\ UNCHANGED <<conn, up, down, server, answers, frayed>>
    BY <1>5 DEF RecvEnd, ReleaseAfter, Parsed, Goto
  <2>3. got' \in [Calls -> Seq(Byte)]
    BY <1>0, <2>1, <2>2
  <2>4. /\ pc' \in [Calls -> {"start", "send", "sent", "ok", "failed"}]
        /\ link' \in [Conns -> {"none", "idle", "busy", "closed"}]
    BY <1>0, <2>2
  <2> QED
    BY <1>0, <2>2, <2>3, <2>4 DEF server
<1>6. ASSUME NEW n \in Conns, CleanIdle(n) PROVE TypeOK'
  BY <1>0, <1>6 DEF CleanIdle, server
<1>7. ASSUME NEW n \in Conns, Serve(n) PROVE TypeOK'
  <2>1. PICK k \in 1 .. Len(up[n]), c \in Calls :
           /\ up' = [up EXCEPT ![n] = Rest(@, k)]
           /\ served' = [served EXCEPT ![c] = IF k > 2 THEN "yes" ELSE "noargs"]
           /\ Answer(n, c, k < Len(up[n]))
           /\ UNCHANGED <<client, reset, end, died>>
    BY <1>0, <1>7, ServeParts
  <2>2. PICK sent \in Seq(Byte), left \in Seq(Byte) :
           Answered(n, c, k < Len(up[n]), sent, left)
    <3>1. (k < Len(up[n])) \in BOOLEAN
      OBVIOUS
    <3> QED
      BY <1>0, <2>1, <3>1, AnswerParts, Zenon
  <2>3. up' \in [Conns -> Seq(Piece)]
    <3>1. up[n] \in Seq(Piece) /\ k \in 0 .. Len(up[n])
      BY <1>0
    <3>2. Rest(up[n], k) \in Seq(Piece)
      BY <3>1, Cut
    <3> QED
      BY <1>0, <2>1, <3>2
  <2>4. down' \in [Conns -> Seq(Byte)]
    <3>1. down[n] \o sent \in Seq(Byte)
      BY <1>0, ConcatProperties
    <3> QED
      BY <1>0, <2>2, <3>1 DEF Answered
  <2>5. answers' \in [Conns -> Seq(Byte)]
    <3>1. answers[n] \o Response(c) \in Seq(Byte)
      BY <1>0, ResponseIs, ConcatProperties
    <3> QED
      BY <1>0, <2>2, <3>1 DEF Answered
  <2>6. out' \in [Conns -> Buffers] /\ frayed' \in [Conns -> BOOLEAN]
    BY <2>2 DEF Answered
  <2>7. served' \in [Calls -> {"no", "yes", "noargs"}]
    BY <1>0, <2>1
  <2> QED
    BY <1>0, <2>1, <2>3, <2>4, <2>5, <2>6, <2>7 DEF client
<1>8. ASSUME NEW n \in Conns, Drop(n) PROVE TypeOK'
  <2>1. PICK k \in 1 .. Len(up[n]) : up' = [up EXCEPT ![n] = Rest(@, k)]
    BY <1>0, <1>8, DropParts
  <2>2. up' \in [Conns -> Seq(Piece)]
    <3>1. up[n] \in Seq(Piece) /\ k \in 0 .. Len(up[n])
      BY <1>0
    <3>2. Rest(up[n], k) \in Seq(Piece)
      BY <3>1, Cut
    <3> QED
      BY <1>0, <2>1, <3>2
  <2>3. frayed' \in [Conns -> BOOLEAN] /\ UNCHANGED <<client, down, server, answers>>
    BY <1>0, <1>8, DropParts
  <2> QED
    BY <1>0, <2>2, <2>3 DEF client, server
<1>9. ASSUME NEW n \in Conns, Kick(n) PROVE TypeOK'
  <2>1. <<>> \in Seq(Piece)
    BY EmptySeq
  <2> QED
    BY <1>0, <1>9, <2>1 DEF Kick, client
<1>10. CASE Throw
  <2>1. <<>> \in Seq(Piece)
    BY EmptySeq
  <2>2. up' \in [Conns -> Seq(Piece)]
    BY <1>10, <2>1 DEF Throw
  <2>3. end' \in [Conns -> {"none", "open", "closed"}]
    BY <1>0, <1>10 DEF Throw
  <2>4. UNCHANGED <<client, down, out, served, answers, frayed>>
    BY <1>10 DEF Throw
  <2> QED
    BY <1>0, <2>2, <2>3, <2>4 DEF client
<1>11. CASE UNCHANGED vars
  BY <1>0, <1>11 DEF vars, client, server
<1> QED
  BY <1>1, <1>2, <1>3, <1>4, <1>5, <1>6, <1>7, <1>8, <1>9, <1>10, <1>11 DEF Next, CallStep

-----------------------------------------------------------------------------
(* The bytes of a connection.                                              *)

(* The two regroupings that the stream goes through have names, so that    *)
(* they are used as they stand.                                            *)
Moved(u, a, b, r) == u \o ((a \o b) \o r) = (u \o a) \o (b \o r)

Longer(u, d, r, p, sent, left) ==
    sent \o left = r \o p => (u \o (d \o r)) \o p = u \o ((d \o sent) \o left)

LEMMA TakenFromFront ==
    ASSUME NEW S, NEW u \in Seq(S), NEW a \in Seq(S), NEW b \in Seq(S), NEW r \in Seq(S)
    PROVE  Moved(u, a, b, r) /\ u \o a \in Seq(S)
<1> DEFINE q == b \o r
<1>1. q \in Seq(S) /\ u \o a \in Seq(S)
  BY ConcatProperties
<1>2. (a \o b) \o r = a \o q
  BY ConcatAssociative
<1> HIDE DEF q
<1>3. q \in Seq(S)
  BY <1>1
<1>4. (u \o a) \o q = u \o (a \o q)
  BY <1>3, ConcatAssociative, SMTT(30)
<1>5. u \o ((a \o b) \o r) = (u \o a) \o q
  BY <1>2, <1>4
<1> QED
  BY <1>1, <1>5 DEF q, Moved

LEMMA PutBehind ==
    ASSUME NEW S, NEW u \in Seq(S), NEW d \in Seq(S), NEW r \in Seq(S), NEW p \in Seq(S),
           NEW sent \in Seq(S), NEW left \in Seq(S)
    PROVE  Longer(u, d, r, p, sent, left)
<1> DEFINE q == d \o r
<1>1. q \in Seq(S)
  BY ConcatProperties
<1>2. q \o p = d \o (r \o p)
  BY ConcatAssociative, SMTT(30)
<1>3. (d \o sent) \o left = d \o (sent \o left)
  BY ConcatAssociative, SMTT(30)
<1> HIDE DEF q
<1>4. (u \o q) \o p = u \o (q \o p)
  BY <1>1, ConcatAssociative, SMTT(30)
<1> QED
  BY <1>2, <1>3, <1>4 DEF q, Longer

Stream(n) == IsSuffix(down[n] \o Readable(out[n]), answers[n])
Received(n, u) == answers[n] = u \o (down[n] \o Readable(out[n]))

LEMMA StreamSame ==
    ASSUME NEW n, Stream(n), down'[n] = down[n], out'[n] = out[n], answers'[n] = answers[n]
    PROVE  Stream(n)'
  BY DEF Stream

LEMMA StreamStep ==
    ASSUME IInv, [Next]_vars
    PROVE  StreamKept'
<1>0. TypeOK /\ OneUser /\ TypeOK' /\ \A n \in Conns : Stream(n)
  BY TypeStep DEF IInv, StreamKept, Stream
<1>1. ASSUME NEW n \in Conns
      PROVE  /\ down[n] \in Seq(Byte) /\ answers[n] \in Seq(Byte) /\ Readable(out[n]) \in Seq(Byte)
             /\ down'[n] \in Seq(Byte) /\ answers'[n] \in Seq(Byte)
             /\ Readable(out[n])' \in Seq(Byte)
  <2>1. out[n] \in Buffers /\ out'[n] \in Buffers
    BY <1>0 DEF TypeOK
  <2> QED
    BY <1>0, <2>1, ReadableParts DEF TypeOK
<1>2. ASSUME NEW n \in Conns
      PROVE  \E u \in Seq(Byte) : answers[n] = u \o (down[n] \o Readable(out[n]))
  <2>1. down[n] \o Readable(out[n]) \in Seq(Byte)
    BY <1>1, ConcatProperties
  <2> QED
    BY <1>0, <1>1, <2>1, SuffixIs, ZenonT(60) DEF Stream
<1>3. ASSUME NEW n \in Conns, NEW u \in Seq(Byte),
             Received(n, u)'
      PROVE  Stream(n)'
  <2>1. down'[n] \o Readable(out'[n]) \in Seq(Byte)
    BY <1>1, ConcatProperties
  <2> QED
    BY <1>1, <1>3, <2>1, SuffixIs DEF Stream, Received
<1>all. ASSUME \A n \in Conns : Stream(n)' PROVE StreamKept'
  BY <1>all DEF StreamKept, Stream
<1>4. CASE UNCHANGED <<down, out, answers>>
  BY <1>0, <1>4 DEF StreamKept, Stream
<1>5. ASSUME NEW c \in Calls, Recv(c) PROVE StreamKept'
  <2>0. PICK n \in Conns : n = conn[c]
    BY <1>0, <1>5, RecvParts
  <2>1. out' = out /\ answers' = answers
    BY <1>0, <1>5, RecvParts DEF server
  <2>2. PICK k \in 1 .. Len(down[n]) : down' = [down EXCEPT ![n] = Rest(@, k)]
    BY <1>0, <1>5, <2>0, RecvParts
  <2>3. PICK u \in Seq(Byte) : answers[n] = u \o (down[n] \o Readable(out[n]))
    BY <1>2, <2>1
  <2>4. /\ SubSeq(down[n], 1, k) \in Seq(Byte) /\ Rest(down[n], k) \in Seq(Byte)
        /\ down[n] = SubSeq(down[n], 1, k) \o Rest(down[n], k)
    <3>1. k \in 0 .. Len(down[n]) /\ down[n] \in Seq(Byte)
      BY <1>1, <2>1
    <3> QED
      BY <3>1, Cut
  <2> DEFINE a == SubSeq(down[n], 1, k)
             b == Rest(down[n], k)
             r == Readable(out[n])
  <2>5. a \in Seq(Byte) /\ b \in Seq(Byte) /\ r \in Seq(Byte)
    BY <1>1, <2>1, <2>4
  <2>6. answers[n] = u \o ((a \o b) \o r)
    BY <2>3, <2>4
  <2>7. down'[n] = b /\ Readable(out'[n]) = r
    BY <1>0, <2>1, <2>2 DEF TypeOK
  <2> HIDE DEF a, b, r
  <2>8. PICK v \in Seq(Byte) : u \o ((a \o b) \o r) = v \o (b \o r)
    <3>1. Moved(u, a, b, r) /\ u \o a \in Seq(Byte)
      BY <2>5, TakenFromFront
    <3> QED
      BY <3>1 DEF Moved
  <2>9. Received(n, v)'
    BY <2>1, <2>6, <2>7, <2>8 DEF Received
  <2>10. Stream(n)'
    BY <1>3, <2>9
  <2>11. ASSUME NEW m \in Conns, m # n PROVE Stream(m)'
    <3>1. down'[m] = down[m] /\ out'[m] = out[m] /\ answers'[m] = answers[m]
      BY <1>0, <2>1, <2>2, <2>11 DEF TypeOK
    <3> QED
      BY <1>0, <3>1, StreamSame
  <2> QED
    BY <1>all, <2>10, <2>11
<1>6. ASSUME NEW n \in Conns, Serve(n) PROVE StreamKept'
  <2>1. PICK c \in Calls, cut \in BOOLEAN : Answer(n, c, cut)
    <3>1. PICK k \in 1 .. Len(up[n]), c \in Calls : Answer(n, c, k < Len(up[n]))
      BY <1>0, <1>6, ServeParts, Zenon
    <3>2. (k < Len(up[n])) \in BOOLEAN
      OBVIOUS
    <3> QED
      BY <3>1, <3>2, Zenon
  <2>2. PICK sent \in Seq(Byte), left \in Seq(Byte) : Answered(n, c, cut, sent, left)
    BY <1>0, <2>1, AnswerParts
  <2>3. PICK u \in Seq(Byte) : answers[n] = u \o (down[n] \o Readable(out[n]))
    BY <1>2
  <2>4. down'[n] = down[n] \o sent /\ answers'[n] = answers[n] \o Response(c)
    BY <1>0, <2>2 DEF Answered, TypeOK
  <2>5. Readable(out'[n]) = left /\ sent \o left = Readable(out[n]) \o Response(c)
    BY <2>2 DEF Answered
  <2>6. Received(n, u)'
    <3>1. /\ down[n] \in Seq(Byte) /\ Readable(out[n]) \in Seq(Byte)
          /\ Response(c) \in Seq(Byte)
      BY <1>1, ResponseIs
    <3> DEFINE d == down[n]
               r == Readable(out[n])
               p == Response(c)
    <3>2. d \in Seq(Byte) /\ r \in Seq(Byte) /\ p \in Seq(Byte)
      BY <3>1
    <3>3. sent \o left = r \o p
      BY <2>5
    <3> HIDE DEF d, r, p
    <3>4. Longer(u, d, r, p, sent, left)
      BY <3>2, PutBehind
    <3>5. (u \o (d \o r)) \o p = u \o ((d \o sent) \o left)
      BY <3>3, <3>4 DEF Longer
    <3> QED
      BY <2>3, <2>4, <2>5, <3>5 DEF d, r, p, Received
  <2>7. ASSUME NEW m \in Conns, m # n PROVE Stream(m)'
    <3>1. down'[m] = down[m] /\ answers'[m] = answers[m] /\ out'[m] = out[m]
      BY <1>0, <2>2, <2>7 DEF Answered, TypeOK
    <3> QED
      BY <1>0, <3>1, StreamSame
  <2> QED
    BY <1>all, <1>3, <2>6, <2>7
<1>7. ASSUME NEW n \in Conns, Drop(n) \/ Kick(n) \/ CleanIdle(n) PROVE StreamKept'
  <2>1. CASE Drop(n)
    BY <1>0, <1>4, <2>1, DropParts DEF server
  <2>2. CASE Kick(n) \/ CleanIdle(n)
    BY <1>4, <2>2 DEF Kick, CleanIdle, server
  <2> QED
    BY <1>7, <2>1, <2>2
<1>8. CASE Throw \/ UNCHANGED vars
  BY <1>4, <1>8 DEF Throw, vars, server
<1>9. ASSUME NEW c \in Calls, GetIdle(c) \/ GetNew(c) \/ GetFails(c) PROVE StreamKept'
  BY <1>4, <1>9 DEF GetIdle, GetNew, GetFails, server
<1>10. ASSUME NEW c \in Calls, Send(c) \/ SendKills(c) \/ IoFails(c) \/ RecvEnd(c)
       PROVE  StreamKept'
  BY <1>4, <1>10 DEF Send, SendKills, IoFails, RecvEnd, server
<1> QED
  BY <1>5, <1>6, <1>7, <1>8, <1>9, <1>10 DEF Next, CallStep

-----------------------------------------------------------------------------
(* Who uses a connection, and whose requests are on it.                    *)

LEMMA Went ==
    ASSUME TypeOK, NEW c \in Calls, NEW p, Goto(c, p)
    PROVE  pc'[c] = p /\ \A d \in Calls : d # c => pc'[d] = pc[d]
  BY DEF Goto, TypeOK

(* A call takes a connection that nobody uses.                             *)
LEMMA GetParts ==
    ASSUME TypeOK, NEW c \in Calls, GetIdle(c) \/ GetNew(c)
    PROVE  /\ pc[c] = "start" /\ pc'[c] = "send"
           /\ \A d \in Calls : d # c => pc'[d] = pc[d] /\ conn'[d] = conn[d]
           /\ \E n \in Conns :
                 /\ link[n] \in {"none", "idle"} /\ conn'[c] = n
                 /\ link' = [link EXCEPT ![n] = "busy"]
                 /\ \A m \in Conns : end'[m] = "closed" => end[m] = "closed"
           /\ UNCHANGED <<got, up, down, out, served, answers, frayed>>
<1>1. pc[c] = "start" /\ Goto(c, "send")
  BY DEF GetIdle, GetNew
<1>2. UNCHANGED <<got, up, down, out, served, answers, frayed>>
  BY DEF GetIdle, GetNew, server
<1>3. PICK n \in Conns :
        /\ link[n] \in {"none", "idle"}
        /\ conn' = [conn EXCEPT ![c] = n] /\ link' = [link EXCEPT ![n] = "busy"]
        /\ end' = end \/ end' = [end EXCEPT ![n] = "open"]
  BY DEF GetIdle, GetNew, server
<1>4. conn'[c] = n /\ \A d \in Calls : d # c => conn'[d] = conn[d]
  BY <1>3 DEF TypeOK
<1>5. \A m \in Conns : end'[m] = "closed" => end[m] = "closed"
  BY <1>3 DEF TypeOK
<1> QED
  BY <1>1, <1>2, <1>3, <1>4, <1>5, Went

(* A call ends with its connection, which nobody uses from then on.        *)
LEMMA EndParts ==
    ASSUME TypeOK, OneUser, NEW c \in Calls, Recv(c) \/ RecvEnd(c) \/ IoFails(c)
    PROVE  /\ Active(c) /\ conn[c] \in Conns
           /\ pc'[c] \in {"ok", "failed"}
           /\ \A d \in Calls : d # c => pc'[d] = pc[d]
           /\ \E l \in {"idle", "closed"} :
                 /\ link' = [link EXCEPT ![conn[c]] = l]
                 /\ l = "idle" => pc[c] = "sent"
           /\ UNCHANGED <<conn, up, end, out, served, answers>>
<1>1. Active(c) /\ conn[c] \in Conns
  BY DEF Recv, RecvEnd, IoFails, Active, OneUser
<1>2. UNCHANGED <<conn, up, end, out, served, answers>>
  BY DEF Recv, RecvEnd, IoFails, server
<1>3. \E p \in {"ok", "failed"} : Goto(c, p)
  BY DEF Recv, RecvEnd, IoFails, ReleaseAfter, Parsed
<1>4. \E l \in {"idle", "closed"} :
         link' = [link EXCEPT ![conn[c]] = l] /\ (l = "idle" => pc[c] = "sent")
  BY DEF Recv, RecvEnd, IoFails, ReleaseAfter
<1> QED
  BY <1>1, <1>2, <1>3, <1>4, Went

LEMMA UserStep ==
    ASSUME IInv, [Next]_vars
    PROVE  OneUser'
<1>0. TypeOK /\ OneUser
  BY DEF IInv
<1>1. CASE UNCHANGED client
  BY <1>0, <1>1 DEF client, OneUser, Active
<1>2. ASSUME NEW c \in Calls, GetIdle(c) \/ GetNew(c) PROVE OneUser'
  <2>1. PICK n \in Conns :
           link[n] \in {"none", "idle"} /\ conn'[c] = n /\ link' = [link EXCEPT ![n] = "busy"]
    BY <1>0, <1>2, GetParts
  <2>2. ASSUME NEW d \in Calls, d # c, Active(d)'
        PROVE  Active(d) /\ conn'[d] = conn[d] /\ conn[d] \in Conns /\ conn[d] # n
    BY <1>0, <1>2, <2>1, <2>2, GetParts DEF Active, OneUser
  <2>3. \A m \in Conns : link'[m] = IF m = n THEN "busy" ELSE link[m]
    BY <1>0, <2>1 DEF TypeOK
  <2>4. \A d \in Calls : Active(d)' => conn'[d] \in Conns /\ link'[conn'[d]] = "busy"
    BY <1>0, <2>1, <2>2, <2>3 DEF OneUser
  <2>5. \A d, e \in Calls : Active(d)' /\ Active(e)' /\ d # e => conn'[d] # conn'[e]
    BY <1>0, <2>1, <2>2 DEF OneUser
  <2> QED
    BY <2>4, <2>5 DEF OneUser, Active
<1>3. ASSUME NEW c \in Calls, GetFails(c) \/ Send(c) PROVE OneUser'
  <2>1. /\ UNCHANGED <<conn, link>>
        /\ \A d \in Calls : Active(d)' => Active(d)
    <3>1. CASE GetFails(c)
      BY <1>0, <3>1, Went DEF GetFails, Active
    <3>2. CASE Send(c)
      BY <1>0, <3>2, Went DEF Send, Active
    <3> QED
      BY <1>3, <3>1, <3>2
  <2> QED
    BY <1>0, <2>1 DEF OneUser, Active
<1>4. ASSUME NEW c \in Calls, Recv(c) \/ RecvEnd(c) \/ IoFails(c) PROVE OneUser'
  <2>1. PICK l : link' = [link EXCEPT ![conn[c]] = l]
    BY <1>0, <1>4, EndParts
  <2>2. conn' = conn /\ Active(c) /\ conn[c] \in Conns
    BY <1>0, <1>4, EndParts
  <2>3. \A d \in Calls : Active(d)' => Active(d) /\ d # c
    BY <1>0, <1>4, EndParts DEF Active
  <2>4. \A m \in Conns : m # conn[c] => link'[m] = link[m]
    BY <1>0, <2>1 DEF TypeOK
  <2> QED
    BY <1>0, <2>2, <2>3, <2>4 DEF OneUser, Active
<1>5. ASSUME NEW n \in Conns, CleanIdle(n) PROVE OneUser'
  <2>1. /\ UNCHANGED <<pc, conn>> /\ link[n] = "idle"
        /\ \A m \in Conns : m # n => link'[m] = link[m]
    BY <1>0, <1>5 DEF CleanIdle, TypeOK
  <2> QED
    BY <1>0, <2>1 DEF OneUser, Active
<1>6. ASSUME NEW n \in Conns, Serve(n) \/ Drop(n) \/ Kick(n) PROVE UNCHANGED client
  BY <1>6 DEF Serve, Drop, Kick
<1>7. ASSUME NEW c \in Calls, SendKills(c) PROVE OneUser'
  BY <1>0, <1>7 DEF SendKills, OneUser, Active
<1>8. CASE Throw \/ UNCHANGED vars
  BY <1>1, <1>8 DEF Throw, vars
<1> QED
  BY <1>1, <1>2, <1>3, <1>4, <1>5, <1>6, <1>7, <1>8 DEF Next, CallStep

Sender(n, i) == up[n][i][1]

LEMMA SenderIs ==
    ASSUME TypeOK, NEW n \in Conns, NEW i \in 1 .. Len(up[n])
    PROVE  Sender(n, i) \in Calls
<1>1. up[n][i] \in Piece
  BY ElementOfSeq DEF TypeOK
<1> QED
  BY <1>1, PieceIs DEF Sender

(* What is on its way after a read, and after a send. *)
LEMMA Shortened ==
    ASSUME TypeOK, NEW n \in Conns, NEW k \in 1 .. Len(up[n]),
           up' = [up EXCEPT ![n] = Rest(@, k)]
    PROVE  /\ Len(up'[n]) = Len(up[n]) - k
           /\ \A i \in 1 .. Len(up[n]) - k : up'[n][i] = up[n][k + i]
           /\ \A m \in Conns : m # n => up'[m] = up[m]
<1>1. up'[n] = Rest(up[n], k) /\ \A m \in Conns : m # n => up'[m] = up[m]
  BY DEF TypeOK
<1>2. PICK s \in Seq(Piece) : s = up[n]
  BY DEF TypeOK
<1>3. k \in 0 .. Len(s)
  BY <1>2, LenProperties
<1>4. /\ Len(Rest(s, k)) = Len(s) - k
      /\ \A i \in 1 .. Len(s) - k : Rest(s, k)[i] = s[k + i]
  BY <1>3, Cut
<1> QED
  BY <1>1, <1>2, <1>4, Zenon

LEMMA Lengthened ==
    ASSUME TypeOK, NEW n \in Conns, NEW c \in Calls,
           up' = [up EXCEPT ![n] = @ \o Request(c)]
    PROVE  /\ Len(up'[n]) = Len(up[n]) + 3
           /\ \A i \in 1 .. Len(up[n]) + 3 :
                 up'[n][i] = IF i <= Len(up[n]) THEN up[n][i] ELSE Request(c)[i - Len(up[n])]
           /\ \A m \in Conns : m # n => up'[m] = up[m]
<1>1. up'[n] = up[n] \o Request(c) /\ \A m \in Conns : m # n => up'[m] = up[m]
  BY DEF TypeOK
<1> DEFINE r == Request(c)
<1>2. r \in Seq(Piece) /\ Len(r) = 3
  BY RequestIs
<1> HIDE DEF r
<1>3. up[n] \in Seq(Piece)
  BY DEF TypeOK
<1>4. /\ Len(up[n] \o r) = Len(up[n]) + Len(r)
      /\ \A i \in 1 .. Len(up[n]) + Len(r) :
            (up[n] \o r)[i] = IF i <= Len(up[n]) THEN up[n][i] ELSE r[i - Len(up[n])]
  BY <1>2, <1>3, ConcatProperties
<1>5. up'[n] = up[n] \o r
  BY <1>1 DEF r
<1> QED
  BY <1>1, <1>2, <1>4, <1>5, Zenon DEF r

LEMMA RequestsStep ==
    ASSUME IInv, [Next]_vars
    PROVE  OwnRequests'
<1>0. TypeOK /\ OneUser /\ OwnRequests
  BY DEF IInv
<1> DEFINE Known(d, n) == conn[d] = n /\ pc[d] \notin {"start", "send"}
<1>1. \A n \in Conns : /\ \A i \in 1 .. Len(up[n]) : Known(Sender(n, i), n)
                       /\ end[n] = "closed" => up[n] = <<>>
  BY <1>0 DEF OwnRequests, Sender
<1>2. ASSUME \A n \in Conns : /\ \A i \in 1 .. Len(up'[n]) : Known(Sender(n, i), n)'
                              /\ end'[n] = "closed" => up'[n] = <<>>
      PROVE  OwnRequests'
  BY <1>2 DEF OwnRequests, Sender
<1>3. ASSUME up' = up, \A n \in Conns : end'[n] = "closed" => end[n] = "closed",
             \A d \in Calls, n \in Conns : Known(d, n) => Known(d, n)'
      PROVE  OwnRequests'
  <2>1. ASSUME NEW n \in Conns
        PROVE  /\ \A i \in 1 .. Len(up'[n]) : Known(Sender(n, i), n)'
               /\ end'[n] = "closed" => up'[n] = <<>>
    BY <1>0, <1>1, <1>3, SenderIs DEF Sender
  <2> QED
    BY <1>2, <2>1
<1>4. ASSUME NEW n \in Conns, NEW k \in 1 .. Len(up[n]),
             up' = [up EXCEPT ![n] = Rest(@, k)], end[n] = "open",
             UNCHANGED <<pc, conn, end>>
      PROVE  OwnRequests'
  <2>1. up[n] \in Seq(Piece) /\ k \in 0 .. Len(up[n]) /\ Len(up[n]) \in Nat
    BY <1>0, LenProperties DEF TypeOK
  <2>2. /\ Len(up'[n]) = Len(up[n]) - k
        /\ \A i \in 1 .. Len(up[n]) - k : up'[n][i] = up[n][k + i]
    BY <1>0, <1>4, Shortened
  <2>3. \A m \in Conns : m # n => up'[m] = up[m]
    BY <1>0, <1>4 DEF TypeOK
  <2>4. ASSUME NEW i \in 1 .. Len(up'[n]) PROVE Known(Sender(n, i), n)'
    <3>1. k + i \in 1 .. Len(up[n]) /\ up'[n][i] = up[n][k + i]
      BY <2>1, <2>2
    <3> QED
      BY <1>1, <1>4, <3>1 DEF Sender
  <2>5. ASSUME NEW m \in Conns, m # n
        PROVE  /\ \A i \in 1 .. Len(up'[m]) : Known(Sender(m, i), m)'
               /\ end'[m] = "closed" => up'[m] = <<>>
    BY <1>1, <1>4, <2>3, <2>5 DEF Sender
  <2> QED
    BY <1>2, <1>4, <2>4, <2>5
<1>5. ASSUME NEW n \in Conns, Serve(n) PROVE OwnRequests'
  <2>1. PICK k \in 1 .. Len(up[n]) :
           end[n] = "open" /\ up' = [up EXCEPT ![n] = Rest(@, k)] /\ end' = end
           /\ UNCHANGED client
    BY <1>0, <1>5, ServeParts
  <2> QED
    BY <1>4, <2>1 DEF client
<1>6. ASSUME NEW n \in Conns, Drop(n) PROVE OwnRequests'
  <2>1. PICK k \in 1 .. Len(up[n]) : up' = [up EXCEPT ![n] = Rest(@, k)]
    BY <1>0, <1>6, DropParts
  <2>2. end[n] = "open" /\ UNCHANGED <<client, server>>
    BY <1>0, <1>6, DropParts
  <2> QED
    BY <1>4, <2>1, <2>2 DEF client, server
<1>7. ASSUME NEW n \in Conns, Kick(n) PROVE OwnRequests'
  <2>1. /\ UNCHANGED client
        /\ up' = [up EXCEPT ![n] = <<>>] /\ end' = [end EXCEPT ![n] = "closed"]
    BY <1>7 DEF Kick
  <2>2. up'[n] = <<>> /\ \A m \in Conns : m # n => up'[m] = up[m] /\ end'[m] = end[m]
    BY <1>0, <2>1 DEF TypeOK
  <2>3. ASSUME NEW m \in Conns, m # n
        PROVE  /\ \A i \in 1 .. Len(up'[m]) : Known(Sender(m, i), m)'
               /\ end'[m] = "closed" => up'[m] = <<>>
    BY <1>1, <2>1, <2>2, <2>3 DEF Sender, client
  <2>4. Len(up'[n]) = 0
    BY <2>2
  <2> QED
    BY <1>2, <2>2, <2>3, <2>4
<1>8. CASE Throw
  <2>1. \A n \in Conns : up'[n] = <<>> /\ Len(up'[n]) = 0
    BY <1>8 DEF Throw
  <2> QED
    BY <1>2, <2>1
<1>9. ASSUME NEW c \in Calls, GetIdle(c) \/ GetNew(c) PROVE OwnRequests'
  <2>1. /\ pc[c] = "start" /\ up' = up
        /\ \A d \in Calls : d # c => pc'[d] = pc[d] /\ conn'[d] = conn[d]
        /\ \A m \in Conns : end'[m] = "closed" => end[m] = "closed"
    BY <1>0, <1>9, GetParts
  <2>2. \A d \in Calls, n \in Conns : Known(d, n) => Known(d, n)'
    BY <2>1
  <2> QED
    BY <1>3, <2>1, <2>2
<1>10. ASSUME NEW c \in Calls, GetFails(c) \/ SendKills(c) PROVE OwnRequests'
  <2>1. UNCHANGED <<up, conn, end>>
    BY <1>10 DEF GetFails, SendKills, server
  <2>2. \A d \in Calls, n \in Conns : Known(d, n) => Known(d, n)'
    BY <1>0, <1>10, <2>1, Went DEF GetFails, SendKills
  <2> QED
    BY <1>3, <2>1, <2>2
<1>11. ASSUME NEW c \in Calls, Recv(c) \/ RecvEnd(c) \/ IoFails(c) PROVE OwnRequests'
  <2>1. UNCHANGED <<up, conn, end>>
    BY <1>0, <1>11, EndParts
  <2>2. \A d \in Calls, n \in Conns : Known(d, n) => Known(d, n)'
    BY <1>0, <1>11, <2>1, EndParts
  <2> QED
    BY <1>3, <2>1, <2>2
<1>12. ASSUME NEW n \in Conns, CleanIdle(n) PROVE OwnRequests'
  BY <1>3, <1>12 DEF CleanIdle, server
<1>13. ASSUME NEW c \in Calls, Send(c) PROVE OwnRequests'
  <2>1. PICK n \in Conns : n = conn[c]
    BY <1>0, <1>13 DEF Send, OneUser, Active
  <2>2. /\ UNCHANGED <<conn, end>> /\ pc'[c] = "sent"
        /\ \A d \in Calls : d # c => pc'[d] = pc[d]
    BY <1>0, <1>13, Went DEF Send, server
  <2>3. \A d \in Calls, m \in Conns : Known(d, m) => Known(d, m)'
    BY <2>2
  <2>4. CASE end[n] = "open"
    <3>1. up' = [up EXCEPT ![n] = @ \o Request(c)]
      BY <1>13, <2>1, <2>4 DEF Send
    <3>2. up[n] \in Seq(Piece) /\ Len(up[n]) \in Nat
      BY <1>0, LenProperties DEF TypeOK
    <3>3. /\ Len(up'[n]) = Len(up[n]) + 3
          /\ \A i \in 1 .. Len(up[n]) + 3 :
                up'[n][i] = IF i <= Len(up[n]) THEN up[n][i] ELSE Request(c)[i - Len(up[n])]
      BY <1>0, <3>1, Lengthened
    <3>4. ASSUME NEW i \in 1 .. Len(up'[n]) PROVE Known(Sender(n, i), n)'
      <4>1. CASE i <= Len(up[n])
        <5>1. i \in 1 .. Len(up[n]) /\ Sender(n, i)' = Sender(n, i)
          BY <3>2, <3>3, <4>1 DEF Sender
        <5>2. Sender(n, i) \in Calls
          BY <1>0, <5>1, SenderIs
        <5> QED
          BY <1>1, <2>3, <5>1, <5>2
      <4>2. CASE ~(i <= Len(up[n]))
        <5>1. i - Len(up[n]) \in 1 .. 3
          BY <3>2, <3>3, <4>2
        <5>2. up'[n][i] = Request(c)[i - Len(up[n])]
          BY <3>2, <3>3, <4>2
        <5>3. up'[n][i][1] = c
          BY <5>1, <5>2, RequestIs
        <5> QED
          BY <2>1, <2>2, <5>3 DEF Sender
      <4> QED
        BY <4>1, <4>2
    <3>5. ASSUME NEW m \in Conns, m # n
          PROVE  /\ \A i \in 1 .. Len(up'[m]) : Known(Sender(m, i), m)'
                 /\ end'[m] = "closed" => up'[m] = <<>>
      <4>1. up'[m] = up[m]
        BY <1>0, <3>1, <3>5 DEF TypeOK
      <4> QED
        BY <1>0, <1>1, <2>2, <2>3, <4>1, SenderIs DEF Sender
    <3> QED
      BY <1>2, <2>2, <2>4, <3>4, <3>5
  <2>5. CASE end[n] # "open"
    BY <1>3, <1>13, <2>1, <2>2, <2>3, <2>5 DEF Send
  <2> QED
    BY <2>4, <2>5
<1>14. CASE UNCHANGED vars
  BY <1>3, <1>14 DEF vars, client, server
<1> QED
  BY <1>5, <1>6, <1>7, <1>8, <1>9, <1>10, <1>11, <1>12, <1>13, <1>14 DEF Next, CallStep

LEMMA PlacedStep ==
    ASSUME IInv, [Next]_vars
    PROVE  Placed'
<1>0. TypeOK /\ OneUser /\ Placed
  BY DEF IInv
<1>1. CASE UNCHANGED client
  BY <1>0, <1>1 DEF client, Placed
<1>2. ASSUME NEW c \in Calls, GetIdle(c) \/ GetNew(c) PROVE Placed'
  <2>1. pc'[c] = "send" /\ \A d \in Calls : d # c => pc'[d] = pc[d] /\ conn'[d] = conn[d]
    BY <1>0, <1>2, GetParts
  <2> QED
    BY <1>0, <2>1 DEF Placed
<1>3. ASSUME NEW c \in Calls, GetFails(c) \/ Send(c) \/ SendKills(c) PROVE Placed'
  <2>1. conn' = conn /\ \A d \in Calls : pc'[d] = "ok" => pc[d] = "ok"
    BY <1>0, <1>3, Went DEF GetFails, Send, SendKills
  <2> QED
    BY <1>0, <2>1 DEF Placed
<1>4. ASSUME NEW c \in Calls, Recv(c) \/ RecvEnd(c) \/ IoFails(c) PROVE Placed'
  <2>1. conn' = conn /\ conn[c] \in Conns /\ \A d \in Calls : d # c => pc'[d] = pc[d]
    BY <1>0, <1>4, EndParts
  <2> QED
    BY <1>0, <2>1 DEF Placed
<1>5. ASSUME NEW n \in Conns, CleanIdle(n) PROVE Placed'
  BY <1>0, <1>5 DEF CleanIdle, Placed
<1>6. ASSUME NEW n \in Conns, Serve(n) \/ Drop(n) \/ Kick(n) PROVE UNCHANGED client
  BY <1>6 DEF Serve, Drop, Kick
<1>7. CASE Throw \/ UNCHANGED vars
  BY <1>1, <1>7 DEF Throw, vars
<1> QED
  BY <1>1, <1>2, <1>3, <1>4, <1>5, <1>6, <1>7 DEF Next, CallStep

-----------------------------------------------------------------------------
(* What a call finds on its connection.                                    *)

Own(c) ==
    pc[c] = "ok" /\ got[c] # <<>> /\ ~frayed[conn[c]] =>
        got[c] = Response(c) /\ served[c] = "yes"

LEMMA SameRequest ==
    ASSUME NEW c \in Calls, NEW d \in Calls, Request(c) = Request(d)
    PROVE  c = d
<1>1. Request(c)[1][1] = c /\ Request(d)[1][1] = d
  BY RequestIs
<1> QED
  BY <1>1

LEMMA WholeSame ==
    ASSUME NEW n, Whole(n), ~frayed'[n] => ~frayed[n],
           up'[n] = up[n] \/ up'[n] = <<>>, down'[n] = down[n], out'[n] = out[n],
           link'[n] = link[n] \/ link'[n] \notin {"none", "idle"},
           \A d \in Calls : Waiting(d, n) /\ up'[n] = up[n] => Waiting(d, n)'
    PROVE  Whole(n)'
  BY DEF Whole, Silent

LEMMA ExchangeSame ==
    ASSUME NEW c, NEW n, n = conn[c], Exchange(c), pc'[c] = pc[c], conn'[c] = conn[c],
           served'[c] = served[c], ~frayed'[n] => ~frayed[n],
           up'[n] = up[n] \/ up'[n] = <<>>, down'[n] = down[n]
    PROVE  Exchange(c)'
  BY DEF Exchange, Silent, Active

LEMMA OwnSame ==
    ASSUME NEW c, Own(c), pc'[c] = pc[c], conn'[c] = conn[c], got'[c] = got[c],
           pc[c] = "ok" => served'[c] = served[c],
           pc[c] = "ok" => (~frayed'[conn[c]] => ~frayed[conn[c]])
    PROVE  Own(c)'
  BY DEF Own

(* The three parts of the invariant that are about what is exchanged.      *)
Exchanges ==
    /\ \A n \in Conns : Whole(n)
    /\ \A c \in Calls : Exchange(c) /\ Own(c)

LEMMA ExchangesAre == Exchanges <=> WholeMessages /\ OwnExchange /\ OwnAnswer
  BY DEF Exchanges, WholeMessages, OwnExchange, OwnAnswer, Own

(* A connection is taken: nothing is on it.                                *)
LEMMA GetKeeps ==
    ASSUME TypeOK, OneUser, Placed, Exchanges, NEW c \in Calls, GetIdle(c) \/ GetNew(c)
    PROVE  Exchanges'
<1>1. /\ pc[c] = "start" /\ pc'[c] = "send"
      /\ \A d \in Calls : d # c => pc'[d] = pc[d] /\ conn'[d] = conn[d]
      /\ UNCHANGED <<got, up, down, out, served, answers, frayed>>
  BY GetParts
<1>2. PICK n \in Conns : /\ link[n] \in {"none", "idle"} /\ conn'[c] = n
                         /\ link' = [link EXCEPT ![n] = "busy"]
  BY GetParts
<1>3. link'[n] = "busy" /\ \A m \in Conns : m # n => link'[m] = link[m]
  BY <1>2 DEF TypeOK
<1>4. ASSUME NEW m \in Conns PROVE Whole(m)'
  <2>1. \A d \in Calls : Waiting(d, m) => Waiting(d, m)'
    BY <1>1 DEF Waiting
  <2>2. link'[m] = link[m] \/ link'[m] \notin {"none", "idle"}
    BY <1>3
  <2>3. Whole(m)
    BY DEF Exchanges
  <2> QED
    BY <1>1, <2>1, <2>2, <2>3, WholeSame
<1>5. ASSUME NEW d \in Calls, d # c PROVE Exchange(d)' /\ Own(d)'
  <2>1. Exchange(d) /\ Own(d)
    BY DEF Exchanges
  <2> QED
    BY <1>1, <1>5, <2>1, ExchangeSame, OwnSame
<1>6. Own(c)'
  BY <1>1 DEF Own
<1>7. Exchange(c)'
  <2>1. Whole(n)
    BY DEF Exchanges
  <2> QED
    BY <1>1, <1>2, <2>1 DEF Whole, Silent, Exchange
<1> QED
  BY <1>4, <1>5, <1>6, <1>7 DEF Exchanges

(* A request is sent on a connection with nothing on it.                   *)
LEMMA SendKeeps ==
    ASSUME TypeOK, OneUser, Placed, Exchanges, NEW c \in Calls, Send(c)
    PROVE  Exchanges'
<1>1. PICK n \in Conns : n = conn[c]
  BY DEF Send, OneUser, Active
<1>2. /\ pc[c] = "send" /\ pc'[c] = "sent" /\ \A d \in Calls : d # c => pc'[d] = pc[d]
      /\ UNCHANGED <<conn, got, link, down, out, served, frayed>>
      /\ link[n] = "busy"
  BY <1>1, Went DEF Send, server, OneUser, Active
<1>3. up' = up \/ up' = [up EXCEPT ![n] = @ \o Request(c)]
  BY <1>1 DEF Send
<1>4. /\ \A m \in Conns : m # n => up'[m] = up[m]
      /\ up'[n] = up[n] \/ up'[n] = up[n] \o Request(c)
  BY <1>3 DEF TypeOK
<1>5. ASSUME ~frayed[n]
      PROVE  /\ Silent(n) /\ Readable(out[n]) = <<>>
             /\ up'[n] = <<>> \/ up'[n] = Request(c)
  <2>1. Exchange(c) /\ Whole(n)
    BY DEF Exchanges
  <2>2. Silent(n) /\ Readable(out[n]) = <<>>
    BY <1>1, <1>2, <1>5, <2>1 DEF Exchange, Whole, Active
  <2>3. <<>> \o Request(c) = Request(c)
    BY RequestIs, ConcatEmptySeq
  <2> QED
    BY <1>4, <2>2, <2>3 DEF Silent
<1>6. ASSUME NEW m \in Conns, m # n PROVE Whole(m)'
  <2>1. Whole(m) /\ \A d \in Calls : Waiting(d, m) /\ up'[m] = up[m] => Waiting(d, m)'
    BY <1>2 DEF Exchanges, Waiting
  <2> QED
    BY <1>2, <1>4, <1>6, <2>1, WholeSame
<1>7. Whole(n)'
  BY <1>1, <1>2, <1>5 DEF Whole, Waiting
<1>8. ASSUME NEW d \in Calls, d # c PROVE Exchange(d)'
  <2>1. Exchange(d)
    BY DEF Exchanges
  <2>2. CASE Active(d)
    <3>1. conn[d] # n /\ conn[d] \in Conns
      BY <1>1, <1>2, <1>8, <2>2 DEF OneUser, Active
    <3> QED
      BY <1>2, <1>4, <1>8, <2>1, <3>1, ExchangeSame
  <2>3. CASE ~Active(d)
    BY <1>2, <1>8, <2>3 DEF Exchange, Active
  <2> QED
    BY <2>2, <2>3
<1>9. Exchange(c)'
  BY <1>1, <1>2, <1>5 DEF Exchange, Silent
<1>10. ASSUME NEW d \in Calls PROVE Own(d)'
  <2>1. Own(d)
    BY DEF Exchanges
  <2> QED
    BY <1>2, <2>1 DEF Own
<1> QED
  BY <1>6, <1>7, <1>8, <1>9, <1>10 DEF Exchanges

(* A call ends: with what was sent to it, or with its connection closed.   *)
LEMMA EndKeeps ==
    ASSUME TypeOK, OneUser, Placed, OwnRequests, Exchanges,
           NEW c \in Calls, Recv(c) \/ RecvEnd(c) \/ IoFails(c)
    PROVE  Exchanges'
<1>1. PICK n \in Conns : n = conn[c]
  BY EndParts
<1>2. /\ Active(c) /\ pc'[c] \in {"ok", "failed"}
      /\ \A d \in Calls : d # c => pc'[d] = pc[d]
      /\ UNCHANGED <<conn, up, out, served>>
  BY EndParts
<1>3. PICK l \in {"idle", "closed"} :
         link' = [link EXCEPT ![n] = l] /\ (l = "idle" => pc[c] = "sent")
  BY <1>1, EndParts
<1>4. link'[n] = l /\ \A m \in Conns : m # n => link'[m] = link[m]
  BY <1>3 DEF TypeOK
<1>5. /\ \A m \in Conns : m # n => down'[m] = down[m]
      /\ \A m \in Conns : ~frayed'[m] => ~frayed[m]
      /\ \A d \in Calls : d # c => got'[d] = got[d]
  <2>1. CASE Recv(c)
    <3>1. /\ \A m \in Conns : m # n => frayed'[m] = frayed[m]
      BY <1>1, <2>1, RecvParts
    <3>2. PICK k \in 1 .. Len(down[n]) :
             /\ got' = [got EXCEPT ![c] = SubSeq(down[n], 1, k)]
             /\ down' = [down EXCEPT ![n] = Rest(@, k)]
             /\ ~frayed'[n] => ~frayed[n]
      BY <1>1, <2>1, RecvParts
    <3>3. \A m \in Conns : m # n => down'[m] = down[m]
      BY <3>2 DEF TypeOK
    <3>4. \A d \in Calls : d # c => got'[d] = got[d]
      BY <3>2 DEF TypeOK
    <3> QED
      BY <3>1, <3>2, <3>3, <3>4
  <2>2. CASE RecvEnd(c)
    BY <2>2 DEF RecvEnd, ReleaseAfter, TypeOK
  <2>3. CASE IoFails(c)
    BY <2>3 DEF IoFails
  <2> QED
    BY <2>1, <2>2, <2>3
<1>6. /\ Exchange(c) /\ Whole(n)
      /\ end[n] = "closed" => up[n] = <<>>
  BY DEF Exchanges, OwnRequests
<1>7. ASSUME ~frayed'[n]
      PROVE  /\ l = "idle" => up'[n] = <<>> /\ down'[n] = <<>>
             /\ pc'[c] = "ok" /\ got'[c] # <<>> => got'[c] = Response(c) /\ served[c] = "yes"
  <2>1. CASE Recv(c)
    <3>1. PICK k \in 1 .. Len(down[n]) :
             /\ got' = [got EXCEPT ![c] = SubSeq(down[n], 1, k)]
             /\ down' = [down EXCEPT ![n] = Rest(@, k)]
             /\ ~(k < Len(down[n]))
      BY <1>1, <1>7, <2>1, RecvParts
    <3>2. PICK s \in Seq(Byte) : s = down[n]
      BY DEF TypeOK
    <3>3. Len(s) \in Nat /\ k = Len(s) /\ k \in 0 .. Len(s) /\ s # <<>>
      <4>1. Len(s) \in Nat
        BY LenProperties
      <4>2. k \in 1 .. Len(s) /\ ~(k < Len(s))
        BY <3>1, <3>2
      <4> QED
        BY <4>1, <4>2
    <3>4. SubSeq(s, 1, k) = s /\ Rest(s, k) = <<>>
      BY <3>3, Cut
    <3>5. got'[c] = s
      BY <3>1, <3>2, <3>4 DEF TypeOK
    <3>6. down'[n] = <<>>
      BY <3>1, <3>2, <3>4 DEF TypeOK
    <3>7. ~frayed[n]
      BY <1>5, <1>7
    <3>8. up[n] = <<>> /\ s = Response(c) /\ served[c] = "yes"
      BY <1>1, <1>2, <1>6, <3>2, <3>3, <3>7 DEF Exchange, Silent
    <3> QED
      BY <1>2, <3>5, <3>6, <3>8
  <2>2. CASE RecvEnd(c)
    <3>1. end[n] = "closed" /\ down[n] = <<>> /\ down' = down /\ got'[c] = <<>>
      BY <1>1, <2>2 DEF RecvEnd, ReleaseAfter, TypeOK
    <3> QED
      BY <1>2, <1>6, <3>1
  <2>3. CASE IoFails(c)
    <3>1. pc'[c] = "failed"
      BY <2>3, Went DEF IoFails
    <3>2. link'[n] = "closed"
      BY <1>1, <2>3 DEF IoFails, TypeOK
    <3> QED
      BY <1>4, <3>1, <3>2
  <2> QED
    BY <2>1, <2>2, <2>3
<1>8. ASSUME NEW m \in Conns, m # n PROVE Whole(m)'
  <2>1. Whole(m) /\ \A d \in Calls : Waiting(d, m) /\ up'[m] = up[m] => Waiting(d, m)'
    BY <1>1, <1>2, <1>8 DEF Exchanges, Waiting
  <2> QED
    BY <1>2, <1>4, <1>5, <1>8, <2>1, WholeSame
<1>9. Whole(n)'
  <2>1. CASE frayed'[n]
    BY <2>1 DEF Whole
  <2>2. CASE ~frayed'[n]
    <3>1. ~frayed[n] /\ Readable(out'[n]) = <<>>
      BY <1>2, <1>5, <1>6, <2>2 DEF Whole
    <3>2. link'[n] \in {"none", "idle"} => up'[n] = <<>> /\ down'[n] = <<>>
      BY <1>4, <1>7, <2>2
    <3>3. up'[n] = <<>> \/ \E d \in Calls : Waiting(d, n)'
      <4>1. CASE l = "idle"
        BY <1>7, <2>2, <4>1
      <4>2. CASE l = "closed"
        <5>1. IoFails(c)
          <6>1. Recv(c) \/ RecvEnd(c) => link'[n] = "idle"
            BY <1>1 DEF Recv, RecvEnd, ReleaseAfter, TypeOK
          <6> QED
            BY <1>4, <4>2, <6>1
        <5>2. pc'[c] = "failed"
          BY <5>1, Went DEF IoFails
        <5> QED
          BY <1>2, <1>6, <3>1, <5>2 DEF Whole, Waiting
      <4> QED
        BY <4>1, <4>2
    <3> QED
      BY <3>1, <3>2, <3>3 DEF Whole, Silent
  <2> QED
    BY <2>1, <2>2
<1>10. ASSUME NEW d \in Calls, d # c PROVE Exchange(d)' /\ Own(d)'
  <2>1. Exchange(d) /\ Own(d)
    BY DEF Exchanges
  <2>2. Own(d)'
    <3>1. pc[d] = "ok" => (~frayed'[conn[d]] => ~frayed[conn[d]])
      BY <1>5 DEF Placed
    <3> QED
      BY <1>2, <1>5, <1>10, <2>1, <3>1, OwnSame
  <2>3. CASE Active(d)
    <3>1. conn[d] # n /\ conn[d] \in Conns
      BY <1>1, <1>2, <1>10, <2>3 DEF OneUser
    <3> QED
      BY <1>2, <1>5, <1>10, <2>1, <2>2, <3>1, ExchangeSame
  <2>4. CASE ~Active(d)
    BY <1>2, <1>10, <2>2, <2>4 DEF Exchange, Active
  <2> QED
    BY <2>3, <2>4
<1>11. Exchange(c)' /\ Own(c)'
  BY <1>1, <1>2, <1>7 DEF Exchange, Active, Own
<1> QED
  BY <1>8, <1>9, <1>10, <1>11 DEF Exchanges

(* What was sent to the server is taken away, and nothing is answered.     *)
LEMMA LossKeeps ==
    ASSUME TypeOK, OneUser, Placed, Exchanges,
           UNCHANGED <<client, down, out, served>>,
           \A n \in Conns : /\ ~frayed'[n] => ~frayed[n]
                            /\ ~frayed'[n] => up'[n] = up[n] \/ up'[n] = <<>>
    PROVE  Exchanges'
<1>1. UNCHANGED <<pc, conn, got, link>>
  BY DEF client
<1>2. ASSUME NEW n \in Conns PROVE Whole(n)'
  <2>1. Whole(n) /\ \A d \in Calls : Waiting(d, n) /\ up'[n] = up[n] => Waiting(d, n)'
    BY <1>1 DEF Exchanges, Waiting
  <2>2. CASE frayed'[n]
    BY <2>2 DEF Whole
  <2>3. CASE ~frayed'[n]
    BY <1>1, <2>1, <2>3, WholeSame
  <2> QED
    BY <2>2, <2>3
<1>3. ASSUME NEW d \in Calls PROVE Exchange(d)' /\ Own(d)'
  <2>1. Exchange(d) /\ Own(d)
    BY DEF Exchanges
  <2>2. Own(d)'
    BY <1>1, <2>1, OwnSame DEF Placed
  <2>3. CASE Active(d) /\ ~frayed'[conn[d]]
    <3>1. PICK n \in Conns : n = conn[d]
      BY <2>3 DEF OneUser
    <3> QED
      BY <1>1, <2>1, <2>2, <2>3, <3>1, ExchangeSame
  <2>4. CASE ~(Active(d) /\ ~frayed'[conn[d]])
    BY <1>1, <2>2, <2>4 DEF Exchange, Active
  <2> QED
    BY <2>3, <2>4
<1> QED
  BY <1>2, <1>3 DEF Exchanges

(* A request is executed and answered: where messages are whole, it is all *)
(* there is, and its answer goes out as a whole.                           *)
LEMMA ServeKeeps ==
    ASSUME TypeOK, OneUser, Placed, OwnRequests, Exchanges, NEW n \in Conns, Serve(n)
    PROVE  Exchanges'
<1>1. PICK k \in 1 .. Len(up[n]), c \in Calls :
         /\ c = up[n][1][1]
         /\ up' = [up EXCEPT ![n] = Rest(@, k)]
         /\ served' = [served EXCEPT ![c] = IF k > 2 THEN "yes" ELSE "noargs"]
         /\ Answer(n, c, k < Len(up[n]))
         /\ UNCHANGED client
  BY ServeParts, Zenon
<1>2. PICK sent \in Seq(Byte), left \in Seq(Byte) :
         Answered(n, c, k < Len(up[n]), sent, left)
  <2>1. (k < Len(up[n])) \in BOOLEAN
    OBVIOUS
  <2> QED
    BY <1>1, <2>1, AnswerParts, Zenon
<1>3. UNCHANGED <<pc, conn, got, link>>
  BY <1>1 DEF client
<1>4. PICK s \in Seq(Piece) : s = up[n]
  BY DEF TypeOK
<1>5. Len(s) \in Nat /\ k \in 1 .. Len(s) /\ s # <<>> /\ 1 \in 1 .. Len(s)
  <2>1. Len(s) \in Nat
    BY LenProperties
  <2> QED
    BY <1>1, <1>4, <2>1
<1>6. conn[c] = n /\ pc[c] \notin {"start", "send"}
  BY <1>1, <1>4, <1>5 DEF OwnRequests
<1>7. ASSUME NEW m \in Conns, m # n
      PROVE  /\ up'[m] = up[m] /\ down'[m] = down[m] /\ out'[m] = out[m]
             /\ frayed'[m] = frayed[m]
  <2>1. up'[m] = up[m]
    BY <1>1, <1>7 DEF TypeOK
  <2>2. down'[m] = down[m]
    BY <1>2, <1>7 DEF TypeOK, Answered
  <2> QED
    BY <1>2, <1>7, <2>1, <2>2 DEF Answered
<1>8. \A d \in Calls : d # c => served'[d] = served[d]
  BY <1>1 DEF TypeOK
<1>9. ASSUME ~frayed'[n]
      PROVE  /\ ~frayed[n] /\ Waiting(c, n)
             /\ up'[n] = <<>> /\ served'[c] = "yes" /\ Readable(out'[n]) = <<>>
             /\ down[n] = <<>> => down'[n] = Response(c)
  <2>1. ~frayed[n] /\ ~(k < Len(up[n])) /\ left = <<>>
    BY <1>2, <1>9 DEF Answered
  <2>2. k = Len(s)
    BY <1>4, <1>5, <2>1
  <2>3. Whole(n)
    BY DEF Exchanges
  <2>4. PICK d \in Calls : Waiting(d, n)
    BY <1>4, <1>5, <2>1, <2>3 DEF Whole
  <2>5. s = Request(d) /\ d = c
    <3>1. s = Request(d)
      BY <1>4, <2>4 DEF Waiting
    <3> QED
      BY <1>1, <1>4, <3>1, RequestIs
  <2>6. k = 3
    BY <2>2, <2>5, RequestIs
  <2>7. served'[c] = "yes"
    BY <1>1, <2>6 DEF TypeOK
  <2>8. up'[n] = <<>>
    <3>1. k \in 0 .. Len(s)
      BY <1>5
    <3>2. Rest(s, k) = <<>>
      BY <2>2, <3>1, Cut
    <3> QED
      BY <1>1, <1>4, <3>2 DEF TypeOK
  <2>9. Readable(out'[n]) = <<>>
    BY <1>2, <2>1 DEF Answered
  <2>10. ASSUME down[n] = <<>> PROVE down'[n] = Response(c)
    <3>1. Readable(out[n]) = <<>> /\ sent \o left = Readable(out[n]) \o Response(c)
      BY <1>2, <2>1, <2>3 DEF Whole, Answered
    <3>2. sent \o <<>> = <<>> \o Response(c)
      BY <2>1, <3>1
    <3>3. sent = Response(c)
      BY <3>2, ResponseIs, ConcatEmptySeq
    <3>4. down'[n] = <<>> \o sent
      BY <1>2, <2>10 DEF Answered, TypeOK
    <3>5. <<>> \o sent = sent
      BY ConcatEmptySeq
    <3> QED
      BY <3>3, <3>4, <3>5
  <2> QED
    BY <2>1, <2>4, <2>5, <2>7, <2>8, <2>9, <2>10
<1>10. ASSUME NEW m \in Conns, m # n PROVE Whole(m)'
  <2>1. Whole(m) /\ \A d \in Calls : Waiting(d, m) /\ up'[m] = up[m] => Waiting(d, m)'
    BY <1>3, <1>10 DEF Exchanges, Waiting
  <2> QED
    BY <1>3, <1>7, <1>10, <2>1, WholeSame
<1>11. Whole(n)'
  <2>1. CASE frayed'[n]
    BY <2>1 DEF Whole
  <2>2. CASE ~frayed'[n]
    <3>1. link[n] \notin {"none", "idle"}
      <4>1. Whole(n) /\ up[n] # <<>>
        BY <1>4, <1>5 DEF Exchanges
      <4> QED
        BY <1>9, <2>2, <4>1 DEF Whole, Silent
    <3> QED
      BY <1>3, <1>9, <2>2, <3>1 DEF Whole
  <2> QED
    BY <2>1, <2>2
<1>12. ASSUME NEW d \in Calls PROVE Own(d)'
  <2>1. Own(d)
    BY DEF Exchanges
  <2>2. CASE pc[d] = "ok"
    <3>1. conn[d] \in Conns
      BY <2>2 DEF Placed
    <3>2. ~frayed'[conn[d]] => ~frayed[conn[d]] /\ d # c
      BY <1>7, <1>9, <1>6, <2>2, <3>1 DEF Waiting
    <3> QED
      BY <1>3, <1>8, <2>1, <3>2 DEF Own
  <2>3. CASE pc[d] # "ok"
    BY <1>3, <2>3 DEF Own
  <2> QED
    BY <2>2, <2>3
<1>13. ASSUME NEW d \in Calls PROVE Exchange(d)'
  <2>1. Exchange(d)
    BY DEF Exchanges
  <2>2. CASE Active(d) /\ conn[d] # n
    <3>1. PICK m \in Conns : m = conn[d] /\ m # n
      BY <2>2 DEF OneUser
    <3>2. d # c
      BY <1>6, <2>2
    <3> QED
      BY <1>3, <1>7, <1>8, <2>1, <3>1, <3>2, ExchangeSame, SMTT(30)
  <2>3. CASE Active(d) /\ conn[d] = n /\ ~frayed'[n]
    <3>1. up[n] = Request(c) /\ up[n] # <<>> /\ ~frayed[n]
      BY <1>4, <1>5, <1>9, <2>3 DEF Waiting
    <3>2. pc[d] = "sent" /\ up[n] = Request(d) /\ down[n] = <<>>
      BY <2>1, <2>3, <3>1 DEF Exchange, Silent
    <3>3. d = c
      BY <3>1, <3>2, SameRequest
    <3> QED
      BY <1>3, <1>9, <2>3, <3>2, <3>3 DEF Exchange
  <2>4. CASE ~Active(d) \/ (conn[d] = n /\ frayed'[n])
    BY <1>3, <2>4 DEF Exchange, Active
  <2> QED
    BY <2>2, <2>3, <2>4
<1> QED
  BY <1>10, <1>11, <1>12, <1>13 DEF Exchanges

LEMMA ExchangesStep ==
    ASSUME IInv, [Next]_vars
    PROVE  Exchanges'
<1>0. TypeOK /\ OneUser /\ Placed /\ OwnRequests /\ Exchanges
  BY ExchangesAre DEF IInv
<1>1. ASSUME NEW c \in Calls, GetIdle(c) \/ GetNew(c) PROVE Exchanges'
  BY <1>0, <1>1, GetKeeps
<1>2. ASSUME NEW c \in Calls, Send(c) PROVE Exchanges'
  BY <1>0, <1>2, SendKeeps
<1>3. ASSUME NEW c \in Calls, Recv(c) \/ RecvEnd(c) \/ IoFails(c) PROVE Exchanges'
  BY <1>0, <1>3, EndKeeps
<1>4. ASSUME NEW n \in Conns, Serve(n) PROVE Exchanges'
  BY <1>0, <1>4, ServeKeeps
<1>5. ASSUME NEW n \in Conns, Drop(n) PROVE Exchanges'
  <2>1. UNCHANGED <<client, down, out, served>>
    BY <1>0, <1>5, DropParts DEF server
  <2>2. /\ up[n] \in Seq(Piece)
        /\ \A m \in Conns : m # n => frayed'[m] = frayed[m]
    BY <1>0, <1>5, DropParts DEF TypeOK
  <2>3. PICK k \in 1 .. Len(up[n]) :
           /\ up' = [up EXCEPT ![n] = Rest(@, k)]
           /\ ~frayed'[n] => ~frayed[n] /\ ~(k < Len(up[n]))
    BY <1>0, <1>5, DropParts
  <2>4. ~frayed'[n] => up'[n] = <<>>
    <3>1. PICK s \in Seq(Piece) : s = up[n]
      BY <2>2
    <3>2. Len(s) \in Nat
      BY LenProperties
    <3>3. ~(k < Len(s)) => k = Len(s) /\ k \in 0 .. Len(s)
      BY <3>1, <3>2
    <3>4. ~(k < Len(s)) => Rest(s, k) = <<>>
      BY <3>3, Cut
    <3> QED
      BY <1>0, <2>3, <3>1, <3>4 DEF TypeOK
  <2>5. \A m \in Conns : m # n => up'[m] = up[m]
    BY <1>0, <2>3 DEF TypeOK
  <2> QED
    BY <1>0, <2>1, <2>2, <2>3, <2>4, <2>5, LossKeeps
<1>6. ASSUME NEW n \in Conns, Kick(n) PROVE Exchanges'
  <2>1. UNCHANGED <<client, down, out, served, frayed>> /\ up' = [up EXCEPT ![n] = <<>>]
    BY <1>6 DEF Kick
  <2>2. \A m \in Conns : up'[m] = up[m] \/ up'[m] = <<>>
    BY <1>0, <2>1 DEF TypeOK
  <2> QED
    BY <1>0, <2>1, <2>2, LossKeeps
<1>7. CASE Throw
  <2>1. UNCHANGED <<client, down, out, served, frayed>> /\ \A m \in Conns : up'[m] = <<>>
    BY <1>7 DEF Throw
  <2> QED
    BY <1>0, <2>1, LossKeeps
<1>8. ASSUME NEW n \in Conns, CleanIdle(n) PROVE Exchanges'
  <2>1. /\ UNCHANGED <<pc, conn, got, up, down, out, served, frayed>>
        /\ \A m \in Conns : link'[m] = link[m] \/ link'[m] \notin {"none", "idle"}
    BY <1>0, <1>8 DEF CleanIdle, server, TypeOK
  <2>2. ASSUME NEW m \in Conns PROVE Whole(m)'
    <3>1. Whole(m) /\ \A d \in Calls : Waiting(d, m) => Waiting(d, m)'
      BY <1>0, <2>1 DEF Exchanges, Waiting
    <3> QED
      BY <2>1, <3>1, WholeSame
  <2>3. ASSUME NEW d \in Calls PROVE Exchange(d)' /\ Own(d)'
    BY <1>0, <2>1 DEF Exchanges, Exchange, Own, Active, Silent
  <2> QED
    BY <2>2, <2>3 DEF Exchanges
<1>9. ASSUME NEW c \in Calls, GetFails(c) PROVE Exchanges'
  <2>1. /\ UNCHANGED <<conn, got, link, up, down, out, served, frayed>>
        /\ pc[c] = "start" /\ pc'[c] = "failed" /\ \A d \in Calls : d # c => pc'[d] = pc[d]
    BY <1>0, <1>9, Went DEF GetFails, server
  <2>2. ASSUME NEW m \in Conns PROVE Whole(m)'
    <3>1. Whole(m) /\ \A d \in Calls : Waiting(d, m) => Waiting(d, m)'
      BY <1>0, <2>1 DEF Exchanges, Waiting
    <3> QED
      BY <2>1, <3>1, WholeSame
  <2>3. ASSUME NEW d \in Calls PROVE Exchange(d)' /\ Own(d)'
    BY <1>0, <2>1 DEF Exchanges, Exchange, Own, Active, Silent
  <2> QED
    BY <2>2, <2>3 DEF Exchanges
<1>10. ASSUME NEW c \in Calls, SendKills(c) PROVE Exchanges'
  <2>1. UNCHANGED <<pc, conn, got, link, up, down, out, served, frayed>>
    BY <1>10 DEF SendKills, server
  <2> QED
    BY <1>0, <2>1 DEF Exchanges, Whole, Waiting, Exchange, Own, Active, Silent
<1>11. CASE UNCHANGED vars
  <2>1. UNCHANGED <<pc, conn, got, link, up, down, out, served, frayed>>
    BY <1>11 DEF vars, client, server
  <2> QED
    BY <1>0, <2>1 DEF Exchanges, Whole, Waiting, Exchange, Own, Active, Silent
<1> QED
  BY <1>1, <1>2, <1>3, <1>4, <1>5, <1>6, <1>7, <1>8, <1>9, <1>10, <1>11 DEF Next, CallStep

-----------------------------------------------------------------------------
LEMMA InitInv == Init => IInv
<1> SUFFICES ASSUME Init PROVE IInv
  OBVIOUS
<1>1. /\ <<>> \in Seq(Byte) /\ <<>> \in Seq(Piece) /\ Len(<<>>) = 0
      /\ NewBuffer \in Buffers /\ Readable(NewBuffer) = <<>>
  <2>1. NewBuffer \in Buffers /\ ReadableBytes(NewBuffer) = 0
    BY NewIsEmpty
  <2>2. Readable(NewBuffer) \in Seq(Byte) /\ Len(Readable(NewBuffer)) = 0
    BY <2>1, ReadableParts
  <2>3. Readable(NewBuffer) = <<>>
    BY <2>2, EmptySeq
  <2> QED
    BY <2>1, <2>3, EmptySeq
<1>2. TypeOK
  BY <1>1 DEF Init, TypeOK
<1>3. OneUser /\ Placed /\ OwnRequests
  BY <1>1 DEF Init, OneUser, Placed, OwnRequests, Active
<1>4. Exchanges
  BY <1>1 DEF Init, Exchanges, Whole, Exchange, Own, Active, Silent
<1>5. StreamKept
  <2>1. <<>> \o <<>> = <<>>
    BY <1>1, ConcatEmptySeq
  <2>2. IsSuffix(<<>>, <<>>)
    <3> DEFINE e == <<>>
    <3>1. e \in Seq(Byte) /\ e = e \o e
      BY <1>1, <2>1
    <3> HIDE DEF e
    <3>2. IsSuffix(e, e)
      BY <3>1, SuffixIs
    <3> QED
      BY <3>2 DEF e
  <2>3. ASSUME NEW n \in Conns
        PROVE  down[n] = <<>> /\ Readable(out[n]) = <<>> /\ answers[n] = <<>>
    BY <1>1 DEF Init
  <2> QED
    BY <2>1, <2>2, <2>3 DEF StreamKept
<1> QED
  BY <1>2, <1>3, <1>4, <1>5, ExchangesAre DEF IInv

THEOREM Invariance == Spec => []IInv
<1>1. IInv /\ [Next]_vars => IInv'
  <2> SUFFICES ASSUME IInv, [Next]_vars PROVE IInv'
    OBVIOUS
  <2>1. TypeOK' /\ OneUser' /\ Placed' /\ OwnRequests' /\ StreamKept'
    BY TypeStep, UserStep, PlacedStep, RequestsStep, StreamStep
  <2>2. WholeMessages' /\ OwnExchange' /\ OwnAnswer'
    BY ExchangesStep DEF Exchanges, WholeMessages, OwnExchange, OwnAnswer, Own
  <2> QED
    BY <2>1, <2>2 DEF IInv
<1> QED
  BY InitInv, <1>1, PTL DEF Spec

(* tcpconnection.cc and buffer.h: whatever a send takes, and however often *)
(* the buffer is compacted, enlarged or reset, the client's side of every  *)
(* connection is fed the answers in order and without a gap.               *)
THEOREM StreamsKept == Spec => []StreamKept
<1>1. IInv => StreamKept
  BY DEF IInv
<1> QED
  BY Invariance, <1>1, PTL

(* mprpcchannel.cc: with any number of calls that share pooled             *)
(* connections, fail, or find them closed, an answer goes to its own call  *)
(* as long as the messages of its connection were taken whole.             *)
THEOREM AnswersAreOwn == Spec => []OwnAnswer
<1>1. IInv => OwnAnswer
  BY DEF IInv
<1> QED
  BY Invariance, <1>1, PTL

(* GetConnection and ReleaseConnection: a call that sends or receives has  *)
(* its connection to itself.                                               *)
THEOREM CallsApart == Spec => []OneUser
<1>1. IInv => OneUser
  BY DEF IInv
<1> QED
  BY Invariance, <1>1, PTL

-----------------------------------------------------------------------------
(* What a call is to its caller.                                            *)

IsSize(n, i) == up[n][i][2] = "size"

(* A call has not been executed before it is sent, nor while its size, with *)
(* which a request begins, is on its way, once; and what is written is the  *)
(* answer of a call that has been executed.                                 *)
NotBeforeSent == \A c \in Calls : pc[c] \in {"start", "send"} => served[c] = "no"

NotBeforeRead ==
    \A n \in Conns : \A i \in 1 .. Len(up[n]) : IsSize(n, i) => served[Sender(n, i)] = "no"

SizeOnce ==
    \A n \in Conns : \A i, j \in 1 .. Len(up[n]) : IsSize(n, i) /\ up[n][i] = up[n][j] => i = j

AnswersServed ==
    \A n \in Conns, c \in Calls : \A i \in 1 .. Len(answers[n]) :
        answers[n][i] = <<c, "result">> => served[c] # "no"

CInv == NotBeforeSent /\ NotBeforeRead /\ SizeOnce /\ AnswersServed

(* Nothing is put on the way.                                               *)
Fewer ==
    \A m \in Conns : \E k \in Nat : \A i \in 1 .. Len(up'[m]) :
        k + i \in 1 .. Len(up[m]) /\ up'[m][i] = up[m][k + i]

LEMMA FewerIf ==
    ASSUME TypeOK, NEW n \in Conns,
           \/ up' = up
           \/ \E k \in 1 .. Len(up[n]) : up' = [up EXCEPT ![n] = Rest(@, k)]
           \/ \A m \in Conns : up'[m] = <<>> \/ up'[m] = up[m]
    PROVE  Fewer
<1>0. Len(<<>>) = 0 /\ \A m \in Conns : up[m] \in Seq(Piece) /\ Len(up[m]) \in Nat
  BY LenProperties, EmptySeq DEF TypeOK
<1> DEFINE From(m, k) == \A i \in 1 .. Len(up'[m]) :
                             k + i \in 1 .. Len(up[m]) /\ up'[m][i] = up[m][k + i]
<1>1. ASSUME NEW m \in Conns, up'[m] = <<>> \/ up'[m] = up[m] PROVE From(m, 0)
  BY <1>0, <1>1
<1>2. ASSUME NEW k \in 1 .. Len(up[n]), up' = [up EXCEPT ![n] = Rest(@, k)]
      PROVE  From(n, k) /\ k \in Nat /\ \A m \in Conns : m # n => up'[m] = up[m]
  <2>1. /\ Len(up'[n]) = Len(up[n]) - k
        /\ \A i \in 1 .. Len(up[n]) - k : up'[n][i] = up[n][k + i]
        /\ \A m \in Conns : m # n => up'[m] = up[m]
    BY <1>2, Shortened
  <2> QED
    BY <1>0, <2>1
<1> HIDE DEF From
<1>3. \A m \in Conns : \E k \in Nat : From(m, k)
  BY <1>1, <1>2
<1> QED
  BY <1>3 DEF From, Fewer

LEMMA SizesKept ==
    ASSUME TypeOK, CInv, Fewer, served' = served
    PROVE  NotBeforeRead' /\ SizeOnce'
<1>1. \A m \in Conns : Len(up[m]) \in Nat
  BY LenProperties DEF TypeOK
<1>2. ASSUME NEW m \in Conns
      PROVE  /\ \A i \in 1 .. Len(up'[m]) : IsSize(m, i)' => served'[Sender(m, i)'] = "no"
             /\ \A i, j \in 1 .. Len(up'[m]) :
                   IsSize(m, i)' /\ up'[m][i] = up'[m][j] => i = j
  <2>1. PICK k \in Nat : \A i \in 1 .. Len(up'[m]) :
             k + i \in 1 .. Len(up[m]) /\ up'[m][i] = up[m][k + i]
    BY DEF Fewer
  <2>2. ASSUME NEW i \in 1 .. Len(up'[m]), IsSize(m, i)' PROVE served'[Sender(m, i)'] = "no"
    <3>1. IsSize(m, k + i) /\ Sender(m, i)' = Sender(m, k + i) /\ k + i \in 1 .. Len(up[m])
      BY <2>1, <2>2 DEF IsSize, Sender
    <3> QED
      BY <3>1 DEF CInv, NotBeforeRead
  <2>3. ASSUME NEW i \in 1 .. Len(up'[m]), NEW j \in 1 .. Len(up'[m]),
               IsSize(m, i)', up'[m][i] = up'[m][j]
        PROVE  i = j
    <3>1. /\ k + i \in 1 .. Len(up[m]) /\ k + j \in 1 .. Len(up[m])
          /\ IsSize(m, k + i) /\ up[m][k + i] = up[m][k + j]
      BY <2>1, <2>3 DEF IsSize
    <3>2. k + i = k + j
      BY <3>1 DEF CInv, SizeOnce
    <3> QED
      BY <3>2
  <2> QED
    BY <2>2, <2>3
<1> QED
  BY <1>2 DEF NotBeforeRead, SizeOnce

(* A step that executes nothing and sends nothing.                          *)
LEMMA QuietKeeps ==
    ASSUME TypeOK, CInv, Fewer, served' = served, answers' = answers,
           \A c \in Calls : pc'[c] \in {"start", "send"} => pc[c] \in {"start", "send"}
    PROVE  CInv'
<1>1. NotBeforeRead' /\ SizeOnce'
  BY SizesKept
<1>2. NotBeforeSent'
  BY DEF CInv, NotBeforeSent
<1>3. AnswersServed'
  BY DEF CInv, AnswersServed
<1> QED
  BY <1>1, <1>2, <1>3 DEF CInv

(* The new request's size is the only one of its call.                      *)
LEMMA SendOnce ==
    ASSUME IInv, CInv, NEW c \in Calls, Send(c)
    PROVE  CInv'
<1>0. TypeOK /\ OneUser /\ OwnRequests
  BY DEF IInv
<1>1. PICK n \in Conns : n = conn[c]
  BY <1>0 DEF Send, OneUser, Active
<1>2. /\ pc[c] = "send" /\ UNCHANGED <<served, answers>> /\ pc'[c] = "sent"
      /\ \A d \in Calls : d # c => pc'[d] = pc[d]
  BY <1>0, Went DEF Send, server
<1>3. CASE up' = up
  BY <1>0, <1>2, <1>3, FewerIf, QuietKeeps, <1>1
<1>4. CASE up' = [up EXCEPT ![n] = @ \o Request(c)]
  <2> DEFINE l == Len(up[n])
  <2>1. /\ l \in Nat /\ Len(up'[n]) = l + 3
        /\ \A i \in 1 .. l + 3 : up'[n][i] = IF i <= l THEN up[n][i] ELSE Request(c)[i - l]
        /\ \A m \in Conns : m # n => up'[m] = up[m]
    <3>1. l \in Nat
      BY <1>0, LenProperties DEF TypeOK
    <3> QED
      BY <1>0, <1>4, <3>1, Lengthened
  <2>2. served[c] = "no"
    BY <1>2 DEF CInv, NotBeforeSent
  <2>3. \A i \in 1 .. l : up[n][i] \in Piece /\ Sender(n, i) # c /\ up'[n][i] = up[n][i]
    <3>1. ASSUME NEW i \in 1 .. l PROVE up[n][i] \in Piece /\ Sender(n, i) # c
      BY <1>0, <1>2, ElementOfSeq DEF TypeOK, OwnRequests, Sender
    <3> QED
      BY <2>1, <3>1
  <2>4. ASSUME NEW i \in 1 .. l + 3, ~(i <= l)
        PROVE  up'[n][i][1] = c /\ (IsSize(n, i)' => i = l + 1)
    <3>1. i - l \in 1 .. 3 /\ up'[n][i] = Request(c)[i - l]
      BY <2>1, <2>4
    <3>2. \A j \in 1 .. 3 : Request(c)[j][1] = c /\ (Request(c)[j][2] = "size" => j = 1)
      BY DEF Request
    <3> HIDE DEF l
    <3>3. up'[n][i][1] = c /\ (up'[n][i][2] = "size" => i - l = 1)
      BY <3>1, <3>2
    <3> QED
      BY <2>1, <3>3 DEF IsSize
  <2>5. NotBeforeRead'
    <3>1. ASSUME NEW i \in 1 .. l + 3, IsSize(n, i)' PROVE served[Sender(n, i)'] = "no"
      <4>1. CASE i <= l
        <5>1. i \in 1 .. l /\ IsSize(n, i) /\ Sender(n, i)' = Sender(n, i)
          BY <2>1, <2>3, <3>1, <4>1 DEF IsSize, Sender
        <5> QED
          BY <5>1 DEF CInv, NotBeforeRead
      <4>2. CASE ~(i <= l)
        BY <2>2, <2>4, <4>2 DEF Sender
      <4> QED
        BY <4>1, <4>2
    <3>2. ASSUME NEW m \in Conns, m # n, NEW i \in 1 .. Len(up'[m]), IsSize(m, i)'
          PROVE  served[Sender(m, i)'] = "no"
      BY <2>1, <3>2 DEF CInv, NotBeforeRead, IsSize, Sender
    <3> QED
      BY <1>2, <2>1, <3>1, <3>2 DEF NotBeforeRead
  <2>6. SizeOnce'
    <3>1. ASSUME NEW i \in 1 .. l + 3, NEW j \in 1 .. l + 3,
                 IsSize(n, i)', up'[n][i] = up'[n][j]
          PROVE  i = j
      <4>1. IsSize(n, j)'
        BY <3>1 DEF IsSize
      <4>2. CASE i <= l /\ j <= l
        <5>1. i \in 1 .. l /\ j \in 1 .. l /\ IsSize(n, i) /\ up[n][i] = up[n][j]
          BY <2>1, <2>3, <3>1, <4>2 DEF IsSize
        <5> QED
          BY <5>1 DEF CInv, SizeOnce
      <4>3. CASE i <= l /\ ~(j <= l)
        <5>1. i \in 1 .. l /\ up'[n][j][1] = c
          BY <2>1, <2>4, <4>3
        <5> QED
          BY <2>3, <3>1, <5>1 DEF Sender
      <4>4. CASE ~(i <= l) /\ j <= l
        <5>1. j \in 1 .. l /\ up'[n][i][1] = c
          BY <2>1, <2>4, <4>4
        <5> QED
          BY <2>3, <3>1, <5>1 DEF Sender
      <4>5. CASE ~(i <= l) /\ ~(j <= l)
        BY <2>4, <3>1, <4>1, <4>5
      <4> QED
        BY <4>2, <4>3, <4>4, <4>5
    <3>2. ASSUME NEW m \in Conns, m # n, NEW i \in 1 .. Len(up'[m]), NEW j \in 1 .. Len(up'[m]),
                 IsSize(m, i)', up'[m][i] = up'[m][j]
          PROVE  i = j
      BY <2>1, <3>2 DEF CInv, SizeOnce, IsSize
    <3> QED
      BY <2>1, <3>1, <3>2 DEF SizeOnce
  <2>7. NotBeforeSent' /\ AnswersServed'
    BY <1>2 DEF CInv, NotBeforeSent, AnswersServed
  <2> QED
    BY <2>5, <2>6, <2>7 DEF CInv
<1> QED
  BY <1>1, <1>3, <1>4 DEF Send

(* OnMessage takes the size of the request it executes.                     *)
LEMMA ServeOnce ==
    ASSUME IInv, CInv, NEW n \in Conns, Serve(n)
    PROVE  /\ CInv'
           /\ \E c \in Calls \ Refused :
                 /\ served[c] = "no" /\ pc[c] \notin {"start", "send"}
                 /\ \E how \in {"yes", "noargs"} :
                       /\ served' = [served EXCEPT ![c] = how]
                       /\ how = "noargs" => \E m \in Conns : frayed'[m]
           /\ \A m \in Conns : frayed[m] => frayed'[m]
<1>0. TypeOK /\ OwnRequests /\ WholeMessages
  BY DEF IInv
<1>1. PICK k \in 1 .. Len(up[n]), c \in Calls :
          /\ end[n] = "open" /\ c = up[n][1][1]
          /\ up[n][1] = <<c, "size">> /\ c \notin Refused
          /\ up' = [up EXCEPT ![n] = Rest(@, k)]
          /\ served' = [served EXCEPT ![c] = IF k > 2 THEN "yes" ELSE "noargs"]
          /\ Answer(n, c, k < Len(up[n]))
          /\ UNCHANGED <<client, reset, end, died>>
  BY <1>0, ServeParts
<1> DEFINE cut == k < Len(up[n])
           l == Len(up[n])
<1>2. l \in Nat /\ 1 \in 1 .. l /\ up[n] \in Seq(Piece)
  BY <1>0, LenProperties DEF TypeOK
<1>3. cut \in BOOLEAN
  BY <1>2
<1>4. PICK sent \in Seq(Byte), left \in Seq(Byte) : Answered(n, c, cut, sent, left)
  BY <1>0, <1>1, <1>3, AnswerParts
<1>5. /\ IsSize(n, 1) /\ Sender(n, 1) = c /\ served[c] = "no"
      /\ conn[c] = n /\ pc[c] \notin {"start", "send"}
  <2>1. IsSize(n, 1) /\ Sender(n, 1) = c
    BY <1>1 DEF IsSize, Sender
  <2> QED
    BY <1>0, <1>2, <2>1 DEF CInv, NotBeforeRead, OwnRequests, Sender
<1>6. /\ Len(up'[n]) = l - k
      /\ \A i \in 1 .. l - k : up'[n][i] = up[n][k + i]
      /\ \A m \in Conns : m # n => up'[m] = up[m]
  BY <1>0, <1>1, Shortened
<1>7. /\ served'[c] # "no" /\ \A d \in Calls : d # c => served'[d] = served[d]
      /\ \A d \in Calls : served'[d] = "no" => served[d] = "no"
  <2>1. served \in [Calls -> {"no", "yes", "noargs"}]
    BY <1>0 DEF TypeOK
  <2>2. \E how \in {"yes", "noargs"} : served' = [served EXCEPT ![c] = how]
    BY <1>1
  <2> QED
    BY <1>5, <2>1, <2>2
<1>8. NotBeforeSent'
  BY <1>1, <1>5, <1>7 DEF CInv, NotBeforeSent, client
<1>9. ASSUME NEW i \in 1 .. Len(up'[n])
      PROVE  /\ k + i \in 1 .. l /\ k + i # 1 /\ up'[n][i] = up[n][k + i]
             /\ IsSize(n, i)' => Sender(n, k + i) # c
  <2>1. k + i \in 1 .. l /\ k + i # 1 /\ up'[n][i] = up[n][k + i]
    <3>1. i \in 1 .. l - k /\ l \in Nat
      BY <1>2, <1>6
    <3> HIDE DEF l
    <3>2. k + i \in 1 .. l /\ k + i # 1
      BY <1>1, <3>1 DEF l
    <3> QED
      BY <1>6, <3>1, <3>2
  <2>2. ASSUME IsSize(n, i)', Sender(n, k + i) = c PROVE FALSE
    <3>1. up[n][k + i] \in Piece
      BY <1>2, <2>1, ElementOfSeq
    <3>2. up[n][k + i] = <<c, "size">>
      BY <2>1, <2>2, <3>1 DEF IsSize, Sender, Piece
    <3> QED
      BY <1>1, <1>2, <1>5, <2>1, <3>2 DEF CInv, SizeOnce
  <2> QED
    BY <2>1, <2>2
<1>10. NotBeforeRead'
  <2>1. ASSUME NEW i \in 1 .. Len(up'[n]), IsSize(n, i)' PROVE served'[Sender(n, i)'] = "no"
    <3>1. /\ k + i \in 1 .. l /\ IsSize(n, k + i) /\ Sender(n, i)' = Sender(n, k + i)
          /\ Sender(n, k + i) # c
      BY <1>9, <2>1 DEF IsSize, Sender
    <3> QED
      BY <1>0, <1>7, <3>1, SenderIs DEF CInv, NotBeforeRead
  <2>2. ASSUME NEW m \in Conns, m # n, NEW i \in 1 .. Len(up'[m]), IsSize(m, i)'
        PROVE  served'[Sender(m, i)'] = "no"
    <3>1. i \in 1 .. Len(up[m]) /\ IsSize(m, i) /\ Sender(m, i)' = Sender(m, i)
      BY <1>6, <2>2 DEF IsSize, Sender
    <3>2. Sender(m, i) # c /\ Sender(m, i) \in Calls
      BY <1>0, <1>5, <2>2, <3>1, SenderIs DEF OwnRequests, Sender
    <3> QED
      BY <1>7, <3>1, <3>2 DEF CInv, NotBeforeRead
  <2> QED
    BY <2>1, <2>2 DEF NotBeforeRead
<1>11. SizeOnce'
  <2>1. ASSUME NEW i \in 1 .. Len(up'[n]), NEW j \in 1 .. Len(up'[n]),
               IsSize(n, i)', up'[n][i] = up'[n][j]
        PROVE  i = j
    <3>1. /\ k + i \in 1 .. l /\ k + j \in 1 .. l
          /\ IsSize(n, k + i) /\ up[n][k + i] = up[n][k + j]
      BY <1>9, <2>1 DEF IsSize
    <3>2. k + i = k + j
      BY <3>1 DEF CInv, SizeOnce
    <3> QED
      BY <3>2
  <2>2. ASSUME NEW m \in Conns, m # n, NEW i \in 1 .. Len(up'[m]), NEW j \in 1 .. Len(up'[m]),
               IsSize(m, i)', up'[m][i] = up'[m][j]
        PROVE  i = j
    BY <1>6, <2>2 DEF CInv, SizeOnce, IsSize
  <2> QED
    BY <2>1, <2>2 DEF SizeOnce
<1>12. AnswersServed'
  <2>1. /\ answers'[n] = answers[n] \o Response(c)
        /\ \A m \in Conns : m # n => answers'[m] = answers[m]
    BY <1>0, <1>4 DEF Answered, TypeOK
  <2> DEFINE p == Response(c)
             la == Len(answers[n])
  <2>2. /\ answers[n] \in Seq(Byte) /\ la \in Nat /\ p \in Seq(Byte) /\ Len(p) = 2
        /\ \A i \in 1 .. 2, d \in Calls : p[i] = <<d, "result">> => d = c
    <3>1. \A i \in 1 .. 2, d \in Calls : p[i] = <<d, "result">> => d = c
      BY DEF Response
    <3> QED
      BY <1>0, <3>1, ResponseIs, LenProperties DEF TypeOK
  <2> HIDE DEF p
  <2>3. /\ Len(answers[n] \o p) = la + 2
        /\ \A i \in 1 .. la + 2 :
              (answers[n] \o p)[i] = IF i <= la THEN answers[n][i] ELSE p[i - la]
    <3>1. /\ Len(answers[n] \o p) = Len(answers[n]) + Len(p)
          /\ \A i \in 1 .. Len(answers[n]) + Len(p) :
                (answers[n] \o p)[i]
                  = IF i <= Len(answers[n]) THEN answers[n][i] ELSE p[i - Len(answers[n])]
      BY <2>2, ConcatProperties
    <3> QED
      BY <2>2, <3>1
  <2>4. ASSUME NEW d \in Calls, NEW i \in 1 .. Len(answers'[n]), answers'[n][i] = <<d, "result">>
        PROVE  served'[d] # "no"
    <3>1. answers'[n] = answers[n] \o p /\ i \in 1 .. la + 2
      BY <2>1, <2>3, <2>4 DEF p
    <3>2. CASE i <= la
      <4>1. i \in 1 .. la /\ answers[n][i] = <<d, "result">>
        BY <2>2, <2>3, <2>4, <3>1, <3>2
      <4> QED
        BY <1>7, <4>1 DEF CInv, AnswersServed
    <3>3. CASE ~(i <= la)
      <4>1. i - la \in 1 .. 2
        <5>1. la \in Nat /\ i \in 1 .. la + 2
          BY <2>2, <3>1
        <5> HIDE DEF la
        <5> QED
          BY <3>3, <5>1
      <4>2. p[i - la] = <<d, "result">>
        BY <2>3, <2>4, <3>1, <3>3
      <4> QED
        BY <1>7, <2>2, <4>1, <4>2
    <3> QED
      BY <3>2, <3>3
  <2>5. ASSUME NEW m \in Conns, m # n, NEW d \in Calls, NEW i \in 1 .. Len(answers'[m]),
               answers'[m][i] = <<d, "result">>
        PROVE  served'[d] # "no"
    <3>1. i \in 1 .. Len(answers[m]) /\ answers[m][i] = <<d, "result">>
      BY <2>1, <2>5
    <3>2. served[d] # "no"
      BY <3>1 DEF CInv, AnswersServed
    <3> QED
      BY <1>7, <3>2
  <2> QED
    BY <2>4, <2>5 DEF AnswersServed
<1>13. \A m \in Conns : frayed[m] => frayed'[m]
  BY <1>4 DEF Answered
<1>14. ASSUME ~(k > 2), ~frayed'[n] PROVE FALSE
  <2>1. ~frayed[n] /\ ~cut
    BY <1>4, <1>14 DEF Answered
  <2>2. up[n] # <<>> /\ l <= 2
    BY <1>2, <1>14, <2>1, EmptySeq
  <2>3. PICK d \in Calls : up[n] = Request(d)
    BY <1>0, <2>1, <2>2 DEF WholeMessages, Whole, Waiting
  <2> QED
    BY <2>2, <2>3, RequestIs
<1>15. PICK how \in {"yes", "noargs"} :
          how = (IF k > 2 THEN "yes" ELSE "noargs") /\ served' = [served EXCEPT ![c] = how]
  BY <1>1
<1> QED
  BY <1>1, <1>5, <1>8, <1>10, <1>11, <1>12, <1>13, <1>14, <1>15 DEF CInv

(* One recv: its own answer, or a message has come apart.                   *)
LEMMA RecvOnce ==
    ASSUME IInv, CInv, NEW c \in Calls, Recv(c)
    PROVE  /\ pc[c] = "sent" /\ pc'[c] \in {"ok", "failed"} /\ got'[c] # <<>>
           /\ \A d \in Calls : d # c => pc'[d] = pc[d] /\ got'[d] = got[d]
           /\ up' = up /\ served' = served /\ answers' = answers
           /\ pc'[c] = "ok" /\ got'[c] = Response(c) => served[c] # "no"
           /\ (\A m \in Conns : ~frayed'[m]) => pc'[c] = "ok" /\ got'[c] = Response(c)
           /\ \A m \in Conns : frayed[m] => frayed'[m]
<1>0. TypeOK /\ OneUser /\ OwnExchange /\ StreamKept
  BY DEF IInv
<1>1. /\ conn[c] \in Conns /\ pc[c] = "sent"
      /\ frayed' \in [Conns -> BOOLEAN]
      /\ \A m \in Conns : m # conn[c] => frayed'[m] = frayed[m]
      /\ UNCHANGED <<conn, killed, up, reset, server, answers>>
  BY <1>0, RecvParts
<1>2. PICK k \in 1 .. Len(down[conn[c]]), result \in {"ok", "failed"} :
          /\ pc' = [pc EXCEPT ![c] = result]
          /\ got' = [got EXCEPT ![c] = SubSeq(down[conn[c]], 1, k)]
          /\ SubSeq(down[conn[c]], 1, k) = Response(c) => result = "ok"
          /\ ~frayed'[conn[c]] => ~frayed[conn[c]] /\ ~(k < Len(down[conn[c]]))
  BY <1>0, RecvParts
<1>3. PICK n \in Conns : n = conn[c]
  BY <1>1
<1> DEFINE bytes == SubSeq(down[n], 1, k)
<1>4. /\ pc'[c] = result /\ got'[c] = bytes
      /\ \A d \in Calls : d # c => pc'[d] = pc[d] /\ got'[d] = got[d]
  BY <1>0, <1>2, <1>3 DEF TypeOK
<1>5. PICK s \in Seq(Byte) : s = down[n]
  BY <1>0 DEF TypeOK
<1>6. k \in 1 .. Len(s) /\ k \in 0 .. Len(s) /\ Len(s) \in Nat
  BY <1>2, <1>3, <1>5, LenProperties
<1>7. /\ Len(bytes) = k /\ bytes[1] = s[1] /\ (k = Len(s) => bytes = s)
  <2>1. /\ Len(SubSeq(s, 1, k)) = k /\ \A i \in 1 .. k : SubSeq(s, 1, k)[i] = s[i]
        /\ (k = Len(s) => SubSeq(s, 1, k) = s)
    BY <1>6, Cut
  <2>2. 1 \in 1 .. k
    BY <1>6
  <2> QED
    BY <1>5, <2>1, <2>2
<1> HIDE DEF bytes
<1>8. bytes # <<>>
  BY <1>6, <1>7, EmptySeq
<1>9. ASSUME bytes = Response(c) PROVE served[c] # "no"
  <2>1. s[1] = <<c, "result">>
    <3>1. Response(c)[1] = <<c, "result">>
      BY DEF Response
    <3> QED
      BY <1>7, <1>9, <3>1
  <2> DEFINE r == Readable(out[n])
             t == s \o r
  <2>2. r \in Seq(Byte) /\ answers[n] \in Seq(Byte)
    BY <1>0, ReadableParts DEF TypeOK
  <2>3. t \in Seq(Byte) /\ Len(t) = Len(s) + Len(r) /\ Len(r) \in Nat
    BY <2>2, ConcatProperties, LenProperties
  <2>4. t[1] = s[1]
    <3>1. 1 \in 1 .. Len(s) + Len(r) /\ 1 <= Len(s)
      BY <1>6, <2>3
    <3> QED
      BY <2>2, <3>1, ConcatProperties
  <2>5. IsSuffix(t, answers[n])
    BY <1>0, <1>5 DEF StreamKept
  <2> HIDE DEF t
  <2>6. PICK u \in Seq(Byte) : answers[n] = u \o t
    BY <2>2, <2>3, <2>5, SuffixIs
  <2> DEFINE i == Len(u) + 1
  <2>7. i \in 1 .. Len(u) + Len(t) /\ ~(i <= Len(u)) /\ i - Len(u) = 1
    BY <1>6, <2>3, LenProperties
  <2> HIDE DEF i
  <2>8. Len(answers[n]) = Len(u) + Len(t) /\ answers[n][i] = t[i - Len(u)]
    <3>1. /\ Len(u \o t) = Len(u) + Len(t)
          /\ \A j \in 1 .. Len(u) + Len(t) :
                (u \o t)[j] = IF j <= Len(u) THEN u[j] ELSE t[j - Len(u)]
      BY <2>3, <2>6, ConcatProperties
    <3> QED
      BY <2>6, <2>7, <3>1
  <2>9. i \in 1 .. Len(answers[n]) /\ answers[n][i] = <<c, "result">>
    BY <2>1, <2>4, <2>7, <2>8
  <2> QED
    BY <2>9 DEF CInv, AnswersServed
<1>10. ASSUME ~frayed'[n] PROVE bytes = Response(c) /\ result = "ok"
  <2>1. ~frayed[n] /\ k = Len(s)
    BY <1>2, <1>3, <1>5, <1>6, <1>10
  <2>2. down[n] # <<>>
    BY <1>5, <1>6, EmptySeq
  <2>3. down[n] = Response(c)
    BY <1>0, <1>1, <1>3, <2>1, <2>2 DEF OwnExchange, Exchange, Active, Silent
  <2>4. bytes = Response(c)
    BY <1>5, <1>7, <2>1, <2>3
  <2> QED
    BY <1>2, <1>3, <2>4 DEF bytes
<1>11. \A m \in Conns : frayed[m] => frayed'[m]
  BY <1>1, <1>2, <1>3
<1>12. up' = up /\ served' = served /\ answers' = answers
  BY <1>1 DEF server
<1> QED
  BY <1>1, <1>4, <1>8, <1>9, <1>10, <1>11, <1>12

LEMMA CallsKept ==
    ASSUME IInv, CInv, [Next]_vars
    PROVE  CInv'
<1>0. TypeOK /\ OneUser
  BY DEF IInv
<1>1. ASSUME NEW n \in Conns, Fewer, served' = served, answers' = answers,
             \A c \in Calls : pc'[c] \in {"start", "send"} => pc[c] \in {"start", "send"}
      PROVE  CInv'
  BY <1>0, <1>1, QuietKeeps
<1>2. ASSUME NEW c \in Calls, GetIdle(c) \/ GetNew(c) PROVE CInv'
  <2>1. /\ pc[c] = "start" /\ \A d \in Calls : d # c => pc'[d] = pc[d]
        /\ UNCHANGED <<up, served, answers>> /\ \E n \in Conns : TRUE
    BY <1>0, <1>2, GetParts
  <2> QED
    BY <1>0, <2>1, FewerIf, QuietKeeps
<1>3. ASSUME NEW c \in Calls, GetFails(c) \/ SendKills(c) PROVE CInv'
  <2>1. /\ UNCHANGED <<up, served, answers>>
        /\ \A d \in Calls : pc'[d] \in {"start", "send"} => pc[d] \in {"start", "send"}
    BY <1>0, <1>3, Went DEF GetFails, SendKills, server
  <2>2. NotBeforeRead' /\ SizeOnce' /\ NotBeforeSent' /\ AnswersServed'
    BY <2>1 DEF CInv, NotBeforeRead, SizeOnce, NotBeforeSent, AnswersServed, IsSize, Sender
  <2> QED
    BY <2>2 DEF CInv
<1>4. ASSUME NEW c \in Calls, Recv(c) \/ RecvEnd(c) \/ IoFails(c) PROVE CInv'
  <2>1. /\ conn[c] \in Conns /\ pc'[c] \in {"ok", "failed"}
        /\ \A d \in Calls : d # c => pc'[d] = pc[d]
        /\ UNCHANGED <<up, served, answers>>
    BY <1>0, <1>4, EndParts
  <2> QED
    BY <1>0, <2>1, FewerIf, QuietKeeps
<1>5. ASSUME NEW n \in Conns, CleanIdle(n) PROVE CInv'
  BY <1>0, <1>5, FewerIf, QuietKeeps DEF CleanIdle, server
<1>6. ASSUME NEW n \in Conns, Drop(n) PROVE CInv'
  <2>1. /\ \E k \in 1 .. Len(up[n]) : up' = [up EXCEPT ![n] = Rest(@, k)]
        /\ UNCHANGED <<client, server, answers>>
    BY <1>0, <1>6, DropParts
  <2>2. pc' = pc /\ served' = served /\ answers' = answers
    BY <2>1 DEF client, server
  <2> QED
    BY <1>0, <2>1, <2>2, FewerIf, QuietKeeps
<1>7. ASSUME NEW n \in Conns, Kick(n) PROVE CInv'
  <2>1. /\ \A m \in Conns : up'[m] = <<>> \/ up'[m] = up[m]
        /\ pc' = pc /\ served' = served /\ answers' = answers
    BY <1>0, <1>7 DEF Kick, client, TypeOK
  <2> QED
    BY <1>0, <2>1, FewerIf, QuietKeeps
<1>8. CASE Throw
  <2>1. /\ \A m \in Conns : up'[m] = <<>>
        /\ pc' = pc /\ served' = served /\ answers' = answers /\ \E n \in Conns : TRUE
    BY <1>8 DEF Throw, client
  <2> QED
    BY <1>0, <2>1, FewerIf, QuietKeeps
<1>9. CASE UNCHANGED vars
  BY <1>9 DEF vars, client, server, CInv, NotBeforeRead, SizeOnce, NotBeforeSent,
              AnswersServed, IsSize, Sender
<1> QED
  BY <1>2, <1>3, <1>4, <1>5, <1>6, <1>7, <1>8, <1>9, SendOnce, ServeOnce DEF Next, CallStep

LEMMA CallInvariant == Spec => [](IInv /\ CInv)
<1>1. Init => CInv
  <2> SUFFICES ASSUME Init PROVE CInv
    OBVIOUS
  <2>1. \A n \in Conns : Len(up[n]) = 0 /\ Len(answers[n]) = 0
    BY EmptySeq DEF Init
  <2> QED
    BY <2>1 DEF Init, CInv, NotBeforeSent, NotBeforeRead, SizeOnce, AnswersServed
<1>2. IInv /\ CInv /\ [Next]_vars => CInv'
  BY CallsKept
<1> QED
  BY <1>1, <1>2, Invariance, PTL DEF Spec

-----------------------------------------------------------------------------
(* Each step is a step of RpcCall or changes nothing that its caller sees. *)

LEMMA OutcomeIs ==
    ASSUME NEW c \in Calls
    PROVE  /\ pc[c] \in {"start", "send"} => Outcome[c] = "new"
           /\ pc[c] = "sent" => Outcome[c] = "asked"
           /\ pc'[c] \in {"start", "send"} => Outcome'[c] = "new"
           /\ pc'[c] = "sent" => Outcome'[c] = "asked"
           /\ pc'[c] = "failed" => Outcome'[c] = "failed"
           /\ pc'[c] = "ok" => Outcome'[c] = IF got'[c] = <<>> THEN "nothing"
                                             ELSE IF got'[c] = Response(c) THEN "answered"
                                             ELSE "other"
  BY DEF Outcome

LEMMA OneEnds ==
    ASSUME NEW c \in Calls, \A d \in Calls : d # c => pc'[d] = pc[d] /\ got'[d] = got[d]
    PROVE  Outcome' = [Outcome EXCEPT ![c] = Outcome'[c]]
<1>1. \A d \in Calls : d # c => Outcome'[d] = Outcome[d]
  BY DEF Outcome
<1>2. Outcome' = [d \in Calls |-> Outcome'[d]] /\ Outcome = [d \in Calls |-> Outcome[d]]
  BY DEF Outcome
<1> QED
  BY <1>1, <1>2

LEMMA ApartStep ==
    ASSUME \A n \in Conns : frayed[n] => frayed'[n]
    PROVE  Apart' \in {Apart, TRUE}
<1>1. Apart => Apart'
  BY DEF Apart
<1>2. Apart \in BOOLEAN /\ Apart' \in BOOLEAN
  BY Zenon DEF Apart
<1> HIDE DEF Apart
<1> QED
  BY <1>1, <1>2

LEMMA SameToCaller ==
    ASSUME Outcome' = Outcome, served' = served, Apart' = Apart
    PROVE  UNCHANGED Call!vars
  BY DEF Call!vars

LEMMA CallStarts == Init => Call!Init
<1> SUFFICES ASSUME Init PROVE Call!Init
  OBVIOUS
<1>1. Outcome = [c \in Calls |-> "new"]
  BY OutcomeIs DEF Init, Outcome
<1>2. served = [c \in Calls |-> "no"]
  BY DEF Init
<1>3. Apart = FALSE
  <2>1. ~Apart
    BY DEF Init, Apart
  <2> QED
    BY <2>1, Zenon DEF Apart
<1> QED
  BY <1>1, <1>2, <1>3 DEF Call!Init

LEMMA AsksRefines ==
    ASSUME TypeOK, NEW c \in Calls, Send(c)
    PROVE  Call!Ask(c)
<1>1. pc[c] = "send" /\ Goto(c, "sent") /\ got' = got /\ served' = served /\ frayed' = frayed
  BY DEF Send, server
<1>2. pc'[c] = "sent" /\ \A d \in Calls : d # c => pc'[d] = pc[d] /\ got'[d] = got[d]
  BY <1>1, Went
<1>3. Outcome[c] = "new" /\ Outcome'[c] = "asked" /\ Outcome' = [Outcome EXCEPT ![c] = Outcome'[c]]
  BY <1>1, <1>2, OutcomeIs, OneEnds
<1>4. Apart' = Apart
  BY <1>1 DEF Apart
<1> QED
  BY <1>1, <1>3, <1>4 DEF Call!Ask, Call!Ends

LEMMA FailsRefines ==
    ASSUME TypeOK, NEW c \in Calls, GetFails(c) \/ IoFails(c)
    PROVE  Call!Fails(c)
<1>1. /\ pc[c] \in {"start", "send", "sent"} /\ Goto(c, "failed")
      /\ got' = got /\ served' = served /\ frayed' = frayed
  BY DEF GetFails, IoFails, server
<1>2. pc'[c] = "failed" /\ \A d \in Calls : d # c => pc'[d] = pc[d] /\ got'[d] = got[d]
  BY <1>1, Went
<1>3. /\ Outcome[c] \in {"new", "asked"} /\ Outcome'[c] = "failed"
      /\ Outcome' = [Outcome EXCEPT ![c] = Outcome'[c]]
  BY <1>1, <1>2, OutcomeIs, OneEnds
<1>4. Apart' = Apart
  BY <1>1 DEF Apart
<1> QED
  BY <1>1, <1>3, <1>4 DEF Call!Fails, Call!Ends

LEMMA RecvEndRefines ==
    ASSUME TypeOK, NEW c \in Calls, RecvEnd(c)
    PROVE  Call!GetsNothing(c)
<1>1. /\ pc[c] = "sent" /\ Goto(c, "ok") /\ got' = [got EXCEPT ![c] = <<>>]
      /\ served' = served /\ frayed' = frayed
  BY DEF RecvEnd, ReleaseAfter, Parsed, server
<1>2. /\ pc'[c] = "ok" /\ got'[c] = <<>>
      /\ \A d \in Calls : d # c => pc'[d] = pc[d] /\ got'[d] = got[d]
  BY <1>1, Went DEF TypeOK
<1>3. /\ Outcome[c] = "asked" /\ Outcome'[c] = "nothing"
      /\ Outcome' = [Outcome EXCEPT ![c] = Outcome'[c]]
  BY <1>1, <1>2, OutcomeIs, OneEnds
<1>4. Apart' = Apart
  BY <1>1 DEF Apart
<1> QED
  BY <1>1, <1>3, <1>4 DEF Call!GetsNothing, Call!Ends

LEMMA RecvRefines ==
    ASSUME IInv, CInv, NEW c \in Calls, Recv(c)
    PROVE  Call!Answered(c) \/ Call!Misread(c)
<1>1. /\ pc[c] = "sent" /\ pc'[c] \in {"ok", "failed"} /\ got'[c] # <<>>
      /\ \A d \in Calls : d # c => pc'[d] = pc[d] /\ got'[d] = got[d]
      /\ served' = served
      /\ pc'[c] = "ok" /\ got'[c] = Response(c) => served[c] # "no"
      /\ (\A m \in Conns : ~frayed'[m]) => pc'[c] = "ok" /\ got'[c] = Response(c)
      /\ \A m \in Conns : frayed[m] => frayed'[m]
  BY RecvOnce
<1>2. Outcome[c] = "asked" /\ Outcome' = [Outcome EXCEPT ![c] = Outcome'[c]]
  BY <1>1, OutcomeIs, OneEnds
<1>3. CASE pc'[c] = "ok" /\ got'[c] = Response(c)
  <2>1. Outcome'[c] = "answered"
    BY <1>1, <1>3, OutcomeIs
  <2>2. Apart' \in {Apart, TRUE}
    BY <1>1, ApartStep
  <2>3. Call!Answered(c)
    BY <1>1, <1>2, <1>3, <2>1, <2>2 DEF Call!Answered, Call!Ends, Call!MayComeApart
  <2> QED
    BY <2>3
<1>4. CASE ~(pc'[c] = "ok" /\ got'[c] = Response(c))
  <2>1. Outcome'[c] \in {"other", "failed"}
    BY <1>1, <1>4, OutcomeIs
  <2>2. Apart' = TRUE
    <3>1. Apart'
      BY <1>1, <1>4 DEF Apart
    <3> QED
      BY <3>1, Zenon DEF Apart
  <2>3. Call!Misread(c)
    BY <1>1, <1>2, <2>1, <2>2 DEF Call!Misread, Call!Ends
  <2> QED
    BY <2>3
<1> QED
  BY <1>3, <1>4

LEMMA ServeRefines ==
    ASSUME IInv, CInv, NEW n \in Conns, Serve(n)
    PROVE  \E c \in Calls : Call!Execute(c)
<1>1. PICK c \in Calls \ Refused, how \in {"yes", "noargs"} :
        /\ served[c] = "no" /\ pc[c] \notin {"start", "send"}
        /\ served' = [served EXCEPT ![c] = how]
        /\ how = "noargs" => \E m \in Conns : frayed'[m]
  BY ServeOnce
<1>2. pc' = pc /\ got' = got
  BY DEF Serve, client
<1>3. Outcome' = Outcome /\ Outcome[c] # "new"
  BY <1>1, <1>2 DEF Outcome, IInv, TypeOK
<1>4. Apart' \in {Apart, TRUE}
  BY ServeOnce, ApartStep
<1>5. how \in IF Apart' THEN {"yes", "noargs"} ELSE {"yes"}
  BY <1>1 DEF Apart
<1> HIDE DEF Apart
<1>6. Call!Execute(c)
  BY <1>1, <1>3, <1>4, <1>5 DEF Call!Execute, Call!MayComeApart
<1> QED
  BY <1>1, <1>6

LEMMA DropRefines ==
    ASSUME TypeOK, NEW n \in Conns, Drop(n)
    PROVE  [Call!ComesApart]_(Call!vars)
<1>1. /\ UNCHANGED <<client, server>>
      /\ ~frayed'[n] => ~frayed[n]
      /\ \A m \in Conns : m # n => frayed'[m] = frayed[m]
  BY DropParts
<1>2. Outcome' = Outcome /\ served' = served
  BY <1>1 DEF client, server, Outcome
<1>3. Apart' \in {Apart, TRUE}
  <2>1. \A m \in Conns : frayed[m] => frayed'[m]
    BY <1>1
  <2> QED
    BY <2>1, ApartStep
<1> QED
  BY <1>2, <1>3 DEF Call!ComesApart, Call!vars

LEMMA CallRefines ==
    ASSUME IInv, CInv, [Next]_vars
    PROVE  [Call!Next]_(Call!vars)
<1>0. TypeOK
  BY DEF IInv
<1>1. ASSUME Outcome' = Outcome, served' = served, frayed' = frayed
      PROVE  UNCHANGED Call!vars
  <2>1. Apart' = Apart
    BY <1>1 DEF Apart
  <2> QED
    BY <1>1, <2>1, SameToCaller
<1>2. ASSUME NEW c \in Calls, GetIdle(c) \/ GetNew(c) PROVE UNCHANGED Call!vars
  <2>1. /\ pc[c] = "start" /\ pc'[c] = "send"
        /\ \A d \in Calls : d # c => pc'[d] = pc[d]
        /\ UNCHANGED <<got, served, frayed>>
    BY <1>0, <1>2, GetParts
  <2>2. Outcome' = Outcome
    BY <2>1 DEF Outcome
  <2> QED
    BY <1>1, <2>1, <2>2
<1>3. ASSUME UNCHANGED <<pc, got, served, frayed>> PROVE UNCHANGED Call!vars
  <2>1. Outcome' = Outcome
    BY <1>3 DEF Outcome
  <2> QED
    BY <1>1, <1>3, <2>1
<1>4. ASSUME NEW c \in Calls, CallStep(c) PROVE [Call!Next]_(Call!vars)
  <2>1. CASE GetIdle(c) \/ GetNew(c)
    BY <1>2, <2>1
  <2>2. CASE SendKills(c)
    BY <1>3, <2>2 DEF SendKills, server
  <2>3. CASE Send(c)
    <3>1. Call!Ask(c)
      BY <1>0, <2>3, AsksRefines
    <3> QED
      BY <3>1 DEF Call!Next
  <2>4. CASE GetFails(c) \/ IoFails(c)
    <3>1. Call!Fails(c)
      BY <1>0, <2>4, FailsRefines
    <3> QED
      BY <3>1 DEF Call!Next
  <2>5. CASE Recv(c)
    <3>1. Call!Answered(c) \/ Call!Misread(c)
      BY <2>5, RecvRefines
    <3> QED
      BY <3>1 DEF Call!Next
  <2>6. CASE RecvEnd(c)
    <3>1. Call!GetsNothing(c)
      BY <1>0, <2>6, RecvEndRefines
    <3> QED
      BY <3>1 DEF Call!Next
  <2> QED
    BY <1>4, <2>1, <2>2, <2>3, <2>4, <2>5, <2>6 DEF CallStep
<1>5. ASSUME NEW n \in Conns, Serve(n) PROVE [Call!Next]_(Call!vars)
  <2>1. \E c \in Calls : Call!Execute(c)
    BY <1>5, ServeRefines
  <2> QED
    BY <2>1 DEF Call!Next
<1>6. ASSUME NEW n \in Conns, Drop(n) PROVE [Call!Next]_(Call!vars)
  <2>1. [Call!ComesApart]_(Call!vars)
    BY <1>0, <1>6, DropRefines
  <2> QED
    BY <2>1 DEF Call!Next
<1>7. ASSUME NEW n \in Conns, CleanIdle(n) \/ Kick(n) PROVE UNCHANGED Call!vars
  BY <1>3, <1>7 DEF CleanIdle, Kick, client, server
<1>8. CASE Throw
  BY <1>3, <1>8 DEF Throw, client
<1>9. CASE UNCHANGED vars
  BY <1>3, <1>9 DEF vars, client, server
<1> QED
  BY <1>4, <1>5, <1>6, <1>7, <1>8, <1>9 DEF Next

(* A call of rpc_task (mprpcchannel.cc) is executed by OnMessage            *)
(* (rpcprovider.cc) at most once and after it was sent, and what its caller *)
(* gets is its answer, an error or nothing, unless a message came apart:    *)
(* for any number of calls and of connections that they use again.          *)
THEOREM CallsAreExecutedOnce == Spec => ImplementsCall
<1>1. Init => Call!Init
  BY CallStarts
<1>2. IInv /\ CInv /\ [Next]_vars => [Call!Next]_(Call!vars)
  BY CallRefines
<1> QED
  BY <1>1, <1>2, CallInvariant, PTL DEF Spec, ImplementsCall, Call!Spec

-----------------------------------------------------------------------------
(* Wire.                                                                    *)

LEMMA Least ==
    ASSUME NEW S \in SUBSET Nat, S # {}
    PROVE  \E p \in S : \A q \in S : p <= q
<1>1. PICK p \in S : \A q \in S : <<q, p>> \notin OpToRel(<, Nat)
  BY NatLessThanWellFounded, WFMin, Zenon
<1>2. ASSUME NEW q \in S PROVE p <= q
  <2>1. p \in Nat /\ q \in Nat
    OBVIOUS
  <2>2. q < p => <<q, p>> \in OpToRel(<, Nat)
    BY <2>1 DEF OpToRel
  <2>3. ~(q < p)
    BY <1>1, <2>2, Zenon
  <2> QED
    BY <2>1, <2>3
<1> QED
  BY <1>2

(* What Varint has for one number, from what it has for a smaller one.      *)
VarintFrom(bytes, x) ==
    IF x < 128 THEN <<x>> ELSE <<128 + (x % 128)>> \o bytes[x \div 128]

IsVarint(n, bytes) == bytes = [x \in 0 .. n |-> VarintFrom(bytes, x)]

(* Each byte takes seven bits. *)
LEMMA Sevens ==
    ASSUME NEW x \in Nat, x >= 128
    PROVE  /\ x \div 128 \in Nat /\ x \div 128 < x
           /\ x < 16384 => x \div 128 < 128
           /\ x < 2097152 => x \div 128 < 16384
           /\ x < 268435456 => x \div 128 < 2097152
           /\ x <= 2147483647 => x \div 128 < 268435456
           /\ x >= 16384 => x \div 128 >= 128
           /\ x >= 2097152 => x \div 128 >= 16384
           /\ x >= 268435456 => x \div 128 >= 2097152
  OBVIOUS

(* The recursion ends: there is such a function, number by number.          *)
LEMMA VarintExists ==
    ASSUME NEW n \in Nat
    PROVE  \E bytes : IsVarint(n, bytes)
<1> DEFINE Missing == {m \in Nat : ~ \E bytes : IsVarint(m, bytes)}
<1> SUFFICES ASSUME Missing # {} PROVE FALSE
  OBVIOUS
<1>1. PICK m \in Missing : \A k \in Missing : m <= k
  <2>1. Missing \in SUBSET Nat
    OBVIOUS
  <2> HIDE DEF Missing
  <2> QED
    BY <2>1, Least
<1>2. m \in Nat /\ ~ \E bytes : IsVarint(m, bytes)
  OBVIOUS
<1>3. PICK g : \A x \in 0 .. m : x # m => g[x] = VarintFrom(g, x)
  <2>1. CASE m = 0
    BY <2>1
  <2>2. CASE m # 0
    <3>1. m - 1 \in Nat /\ ~(m <= m - 1)
      BY <1>2, <2>2
    <3>2. m - 1 \notin Missing
      BY <1>1, <3>1
    <3>3. PICK f : IsVarint(m - 1, f)
      BY <3>1, <3>2
    <3>4. \A x \in 0 .. m : x # m => x \in 0 .. m - 1
      BY <1>2
    <3>5. \A x \in 0 .. m - 1 : f[x] = VarintFrom(f, x)
      BY <3>3 DEF IsVarint
    <3> QED
      BY <3>4, <3>5
  <2> QED
    BY <2>1, <2>2
<1> DEFINE bytes == [x \in 0 .. m |-> IF x = m THEN VarintFrom(g, m) ELSE g[x]]
<1>4. ASSUME NEW x \in 0 .. m PROVE bytes[x] = VarintFrom(bytes, x)
  <2>1. bytes[x] = VarintFrom(g, x)
    BY <1>3
  <2>2. x >= 128 => x \div 128 \in 0 .. m /\ x \div 128 # m
    BY <1>2, Sevens
  <2>3. x >= 128 => bytes[x \div 128] = g[x \div 128]
    BY <2>2
  <2>4. x < 128 \/ x >= 128
    BY <1>2
  <2> HIDE DEF bytes
  <2> QED
    BY <2>1, <2>3, <2>4 DEF VarintFrom
<1>5. IsVarint(m, bytes)
  <2>1. bytes = [x \in 0 .. m |-> bytes[x]]
    OBVIOUS
  <2> HIDE DEF bytes
  <2> QED
    BY <1>4, <2>1 DEF IsVarint
<1> QED
  BY <1>2, <1>5

LEMMA VarintIs ==
    ASSUME NEW n \in Nat
    PROVE  \E bytes : IsVarint(n, bytes) /\ Varint(n) = bytes[n]
<1> DEFINE b == CHOOSE bytes : IsVarint(n, bytes)
<1>1. IsVarint(n, b)
  BY VarintExists
<1>2. Varint(n) = b[n]
  BY SMT DEF Varint, IsVarint, VarintFrom
<1> QED
  BY <1>1, <1>2

(* A sequence of anything, and one behind another.                          *)
IsSeq(s) == \E S : s \in Seq(S)

LEMMA Joined ==
    ASSUME NEW s, NEW t, IsSeq(s), IsSeq(t)
    PROVE  /\ IsSeq(s \o t) /\ Len(s \o t) = Len(s) + Len(t)
           /\ Len(s) \in Nat /\ Len(t) \in Nat
<1>1. PICK S : s \in Seq(S)
  BY DEF IsSeq
<1>2. PICK T : t \in Seq(T)
  BY DEF IsSeq
<1>3. s \in Seq(S \cup T) /\ t \in Seq(S \cup T)
  BY <1>1, <1>2
<1> QED
  BY <1>3, ConcatProperties, LenProperties DEF IsSeq

LEMMA One == ASSUME NEW x PROVE IsSeq(<<x>>) /\ Len(<<x>>) = 1
<1>1. <<x>> \in Seq({x})
  OBVIOUS
<1> QED
  BY <1>1 DEF IsSeq

MaxInt == 2147483647

(* VarintSize tells without writing it how long a number becomes.           *)
LEMMA VarintLength ==
    ASSUME NEW n \in Int, n <= MaxInt
    PROVE  IsSeq(Varint(n)) /\ Len(Varint(n)) = VarintSize(n) /\ VarintSize(n) \in Nat
<1>1. CASE n < 0
  <2> DEFINE f(i) == IF i = 10 THEN 1
                     ELSE IF i > 5 THEN 255 ELSE 128 + ((n \div 128 ^ (i - 1)) % 128)
             S == {f(i) : i \in 1 .. 10}
  <2>1. Varint(n) = [i \in 1 .. 10 |-> f(i)]
    BY <1>1 DEF Varint
  <2> HIDE DEF f
  <2>2. Varint(n) \in [1 .. 10 -> S]
    BY <2>1
  <2> HIDE DEF S
  <2>3. Varint(n) \in Seq(S) /\ Len(Varint(n)) = 10
    BY <2>2, FromFunction, 10 \in Nat, Zenon
  <2> QED
    BY <1>1, <2>3 DEF IsSeq, VarintSize
<1>2. CASE n >= 0
  <2>1. n \in Nat
    BY <1>2
  <2>2. PICK bytes : IsVarint(n, bytes) /\ Varint(n) = bytes[n]
    BY <2>1, VarintIs
  <2>3. \A x \in 0 .. n : bytes[x] = VarintFrom(bytes, x)
    BY <2>2 DEF IsVarint
  <2> DEFINE Has(x, k) == IsSeq(bytes[x]) /\ Len(bytes[x]) = k
  <2>4. ASSUME NEW x \in 0 .. n, x < 128 PROVE Has(x, 1)
    <3>1. bytes[x] = <<x>>
      BY <2>3, <2>4 DEF VarintFrom
    <3> QED
      BY <3>1, One
  <2>5. ASSUME NEW x \in 0 .. n, x >= 128, NEW k \in Nat, Has(x \div 128, k)
        PROVE  Has(x, k + 1)
    <3>1. bytes[x] = <<128 + (x % 128)>> \o bytes[x \div 128]
      <4>1. ~(x < 128) /\ bytes[x] = VarintFrom(bytes, x)
        BY <2>1, <2>3, <2>5
      <4> QED
        BY <4>1 DEF VarintFrom
    <3> DEFINE y == 128 + (x % 128)
    <3>2. IsSeq(<<y>>) /\ Len(<<y>>) = 1
      BY One
    <3> HIDE DEF y
    <3>3. bytes[x] = <<y>> \o bytes[x \div 128]
      BY <3>1 DEF y
    <3>4. IsSeq(<<y>> \o bytes[x \div 128]) /\ Len(<<y>> \o bytes[x \div 128]) = 1 + k
      BY <2>5, <3>2, Joined
    <3> QED
      BY <3>3, <3>4
  <2> HIDE DEF Has
  <2>6. ASSUME NEW x \in 0 .. n, x >= 128
        PROVE  /\ x \div 128 \in 0 .. n
               /\ x < 16384 => x \div 128 < 128
               /\ x < 2097152 => x \div 128 < 16384
               /\ x < 268435456 => x \div 128 < 2097152
               /\ x \div 128 < 268435456
               /\ x >= 16384 => x \div 128 >= 128
               /\ x >= 2097152 => x \div 128 >= 16384
               /\ x >= 268435456 => x \div 128 >= 2097152
    <3>1. x \in Nat /\ x <= 2147483647 /\ x <= n
      BY <2>1 DEF MaxInt
    <3> QED
      BY <2>1, <2>6, <3>1, Sevens
  <2>7. ASSUME NEW x \in 0 .. n, x >= 128, x < 16384 PROVE Has(x, 2)
    <3>1. Has(x \div 128, 1)
      BY <2>4, <2>6, <2>7
    <3> QED
      BY <2>5, <2>7, <3>1
  <2>8. ASSUME NEW x \in 0 .. n, x >= 16384, x < 2097152 PROVE Has(x, 3)
    <3>0. x \in Nat /\ x >= 128
      BY <2>1, <2>8
    <3>1. Has(x \div 128, 2)
      BY <2>6, <2>7, <2>8, <3>0
    <3> QED
      BY <2>5, <3>0, <3>1
  <2>9. ASSUME NEW x \in 0 .. n, x >= 2097152, x < 268435456 PROVE Has(x, 4)
    <3>0. x \in Nat /\ x >= 128
      BY <2>1, <2>9
    <3>1. Has(x \div 128, 3)
      BY <2>6, <2>8, <2>9, <3>0
    <3> QED
      BY <2>5, <3>0, <3>1
  <2>10. ASSUME NEW x \in 0 .. n, x >= 268435456 PROVE Has(x, 5)
    <3>0. x \in Nat /\ x >= 128
      BY <2>1, <2>10
    <3>1. Has(x \div 128, 4)
      BY <2>6, <2>9, <2>10, <3>0
    <3> QED
      BY <2>5, <3>0, <3>1
  <2>11. Has(n, VarintSize(n)) /\ VarintSize(n) \in Nat
    <3>1. n \in 0 .. n
      BY <2>1
    <3>2. CASE n < 128
      BY <2>1, <2>4, <3>1, <3>2 DEF VarintSize
    <3>3. CASE n >= 128 /\ n < 16384
      BY <2>1, <2>7, <3>1, <3>3 DEF VarintSize
    <3>4. CASE n >= 16384 /\ n < 2097152
      BY <2>1, <2>8, <3>1, <3>4 DEF VarintSize
    <3>5. CASE n >= 2097152 /\ n < 268435456
      BY <2>1, <2>9, <3>1, <3>5 DEF VarintSize
    <3>6. CASE n >= 268435456
      BY <2>1, <2>10, <3>1, <3>6 DEF VarintSize
    <3> QED
      BY <2>1, <3>2, <3>3, <3>4, <3>5, <3>6
  <2> QED
    BY <2>2, <2>11 DEF Has
<1> QED
  BY <1>1, <1>2

(* Bytes, and those that a field may hold; a protobuf message ends at 2^31. *)
Octets == Seq(0 .. 255)
Field  == {s \in Octets : Len(s) <= MaxInt}
Int32  == {n \in Int : n <= MaxInt}

LEMMA OctetsAre ==
    ASSUME NEW s \in Octets
    PROVE  IsSeq(s) /\ Len(s) \in Nat /\ (s = <<>> <=> Len(s) = 0)
  BY LenProperties, EmptySeq DEF Octets, IsSeq

LEMMA Nothing == IsSeq(<<>>) /\ Len(<<>>) = 0
<1>1. <<>> \in Seq({}) /\ Len(<<>>) = 0
  BY EmptySeq
<1> QED
  BY <1>1 DEF IsSeq

LEMMA BytesLength ==
    ASSUME NEW tag, NEW s \in Field
    PROVE  /\ IsSeq(WriteBytes(tag, s)) /\ Len(WriteBytes(tag, s)) = BytesSize(s)
           /\ BytesSize(s) \in Nat
<1>1. s \in Octets /\ Len(s) \in Int /\ Len(s) <= MaxInt
  BY OctetsAre DEF Field
<1>2. CASE s = <<>>
  BY <1>2, Nothing DEF WriteBytes, BytesSize
<1>3. CASE s # <<>>
  <2> DEFINE v == Varint(Len(s))
             k == VarintSize(Len(s))
  <2>1. IsSeq(v) /\ Len(v) = k /\ k \in Nat
    BY <1>1, VarintLength
  <2>2. IsSeq(s) /\ Len(s) \in Nat
    BY <1>1, OctetsAre
  <2>3. WriteBytes(tag, s) = <<tag>> \o v \o s
    BY <1>3 DEF WriteBytes
  <2> HIDE DEF v, k
  <2>4. IsSeq(<<tag>>) /\ Len(<<tag>>) = 1
    BY One
  <2>5. IsSeq(<<tag>> \o v) /\ Len(<<tag>> \o v) = 1 + k
    BY <2>1, <2>4, Joined
  <2>6. /\ IsSeq((<<tag>> \o v) \o s)
        /\ Len((<<tag>> \o v) \o s) = Len(<<tag>> \o v) + Len(s)
    BY <2>2, <2>5, Joined
  <2>7. IsSeq(WriteBytes(tag, s))
    BY <2>3, <2>6
  <2>8. Len(WriteBytes(tag, s)) = Len(<<tag>> \o v) + Len(s)
    BY <2>3, <2>6
  <2>9. Len(WriteBytes(tag, s)) = 1 + k + Len(s)
    BY <2>5, <2>8
  <2>10. BytesSize(s) = 1 + k + Len(s)
    BY <1>3 DEF BytesSize, k
  <2>11. 1 + k + Len(s) \in Nat
    BY <2>1, <2>2
  <2> QED
    BY <2>7, <2>9, <2>10, <2>11
<1> QED
  BY <1>2, <1>3

LEMMA NumberLength ==
    ASSUME NEW tag, NEW n \in Int32
    PROVE  /\ IsSeq(WriteNumber(tag, n)) /\ Len(WriteNumber(tag, n)) = NumberSize(n)
           /\ NumberSize(n) \in Nat
<1>1. CASE n = 0
  BY <1>1, Nothing DEF WriteNumber, NumberSize
<1>2. CASE n # 0
  <2> DEFINE v == Varint(n)
             k == VarintSize(n)
  <2>1. IsSeq(v) /\ Len(v) = k /\ k \in Nat
    BY VarintLength DEF Int32
  <2>2. WriteNumber(tag, n) = <<tag>> \o v /\ NumberSize(n) = 1 + k
    BY <1>2 DEF WriteNumber, NumberSize
  <2> HIDE DEF v, k
  <2>3. IsSeq(<<tag>>) /\ Len(<<tag>>) = 1
    BY One
  <2>4. IsSeq(<<tag>> \o v) /\ Len(<<tag>> \o v) = 1 + k
    BY <2>1, <2>3, Joined
  <2> QED
    BY <2>1, <2>2, <2>4
<1> QED
  BY <1>1, <1>2

Headers     == [service_name : Field, method_name : Field, args_size : 0 .. MaxInt, unknown : Octets]
ResultCodes == [errcode : Int32, errmsg : Field, unknown : Octets]
Requests    == [name : Field, pwd : Field, unknown : Octets]

(* _InternalSerialize of a header writes as many bytes as ByteSizeLong has  *)
(* made room for, whatever its fields: names of any length, also none, any  *)
(* number, any unknown fields.                                              *)
THEOREM HeaderFits ==
    ASSUME NEW m \in Headers
    PROVE  Len(SerializeHeader(m)) = HeaderByteSize(m)
<1> DEFINE s == WriteBytes(10, m.service_name)
           t == WriteBytes(18, m.method_name)
           n == WriteNumber(24, m.args_size)
<1>1. /\ m.service_name \in Field /\ m.method_name \in Field /\ m.args_size \in Int32
      /\ m.unknown \in Octets
  <2>1. /\ m.service_name \in Field /\ m.method_name \in Field
        /\ m.args_size \in 0 .. MaxInt /\ m.unknown \in Octets
    BY DEF Headers
  <2>2. MaxInt \in Nat
    BY DEF MaxInt
  <2> QED
    BY <2>1, <2>2 DEF Int32
<1>2. /\ IsSeq(s) /\ Len(s) = BytesSize(m.service_name)
      /\ IsSeq(t) /\ Len(t) = BytesSize(m.method_name)
      /\ IsSeq(n) /\ Len(n) = NumberSize(m.args_size)
      /\ IsSeq(m.unknown)
  BY <1>1, BytesLength, NumberLength, OctetsAre
<1>3. SerializeHeader(m) = s \o t \o n \o m.unknown
  BY DEF SerializeHeader
<1> HIDE DEF s, t, n
<1>4. IsSeq(s \o t) /\ Len(s \o t) = Len(s) + Len(t)
  BY <1>2, Joined
<1>5. IsSeq((s \o t) \o n) /\ Len((s \o t) \o n) = Len(s \o t) + Len(n)
  BY <1>2, <1>4, Joined
<1>6. Len(((s \o t) \o n) \o m.unknown) = Len((s \o t) \o n) + Len(m.unknown)
  BY <1>2, <1>5, Joined
<1> QED
  BY <1>2, <1>3, <1>4, <1>5, <1>6 DEF HeaderByteSize

(* The same of a ResultCode: also an errcode of ten bytes, and no errcode.  *)
THEOREM ResultCodeFits ==
    ASSUME NEW m \in ResultCodes
    PROVE  /\ Len(SerializeResultCode(m)) = ResultCodeByteSize(m)
           /\ IsSeq(SerializeResultCode(m)) /\ ResultCodeByteSize(m) \in Nat
<1> DEFINE n == WriteNumber(8, m.errcode)
           s == WriteBytes(18, m.errmsg)
<1>1. m.errcode \in Int32 /\ m.errmsg \in Field /\ m.unknown \in Octets
  BY DEF ResultCodes
<1>2. /\ IsSeq(n) /\ Len(n) = NumberSize(m.errcode) /\ NumberSize(m.errcode) \in Nat
      /\ IsSeq(s) /\ Len(s) = BytesSize(m.errmsg) /\ BytesSize(m.errmsg) \in Nat
      /\ IsSeq(m.unknown) /\ Len(m.unknown) \in Nat
  BY <1>1, BytesLength, NumberLength, OctetsAre
<1>3. SerializeResultCode(m) = n \o s \o m.unknown
  BY DEF SerializeResultCode
<1> HIDE DEF n, s
<1>4. IsSeq(n \o s) /\ Len(n \o s) = Len(n) + Len(s)
  BY <1>2, Joined
<1>5. /\ IsSeq((n \o s) \o m.unknown)
      /\ Len((n \o s) \o m.unknown) = Len(n \o s) + Len(m.unknown)
  BY <1>2, <1>4, Joined
<1> QED
  BY <1>2, <1>3, <1>4, <1>5 DEF ResultCodeByteSize

(* The same of a request. *)
THEOREM RequestFits ==
    ASSUME NEW m \in Requests
    PROVE  Len(SerializeRequest(m)) = RequestByteSize(m)
<1> DEFINE s == WriteBytes(10, m.name)
           t == WriteBytes(18, m.pwd)
<1>1. m.name \in Field /\ m.pwd \in Field /\ m.unknown \in Octets
  BY DEF Requests
<1>2. /\ IsSeq(s) /\ Len(s) = BytesSize(m.name)
      /\ IsSeq(t) /\ Len(t) = BytesSize(m.pwd)
      /\ IsSeq(m.unknown)
  BY <1>1, BytesLength, OctetsAre
<1>3. SerializeRequest(m) = s \o t \o m.unknown
  BY DEF SerializeRequest
<1> HIDE DEF s, t
<1>4. IsSeq(s \o t) /\ Len(s \o t) = Len(s) + Len(t)
  BY <1>2, Joined
<1>5. Len((s \o t) \o m.unknown) = Len(s \o t) + Len(m.unknown)
  BY <1>2, <1>4, Joined
<1> QED
  BY <1>2, <1>3, <1>4, <1>5 DEF RequestByteSize

(* A response has no or one result, which is no longer than a message may   *)
(* be.                                                                      *)
Responses ==
    [result : {<<>>} \cup {<<r>> : r \in {x \in ResultCodes : ResultCodeByteSize(x) <= MaxInt}},
     success : BOOLEAN, unknown : Octets]

(* The same of a response, in which the result is written behind the size   *)
(* that its own ByteSizeLong has found: a result of defaults takes two      *)
(* bytes, no result none.                                                   *)
THEOREM ResponseFits ==
    ASSUME NEW m \in Responses
    PROVE  Len(SerializeResponse(m)) = ResponseByteSize(m)
<1> DEFINE s == IF m.result = <<>> THEN <<>>
                ELSE LET b == SerializeResultCode(m.result[1])
                     IN  <<10>> \o Varint(Len(b)) \o b
           t == IF m.success THEN <<16, 1>> ELSE <<>>
           k == IF m.result = <<>> THEN 0
                ELSE LET n == ResultCodeByteSize(m.result[1]) IN 1 + VarintSize(n) + n
           l == IF m.success THEN 2 ELSE 0
<1>1. m.success \in BOOLEAN /\ m.unknown \in Octets
  BY DEF Responses
<1>2. IsSeq(s) /\ Len(s) = k
  <2>1. CASE m.result = <<>>
    BY <2>1, Nothing
  <2>2. CASE m.result # <<>>
    <3>1. PICK r \in ResultCodes : m.result = <<r>> /\ ResultCodeByteSize(r) <= MaxInt
      BY <2>2 DEF Responses
    <3> DEFINE b == SerializeResultCode(r)
               n == ResultCodeByteSize(r)
    <3>2. IsSeq(b) /\ Len(b) = n /\ n \in Int /\ n <= MaxInt
      BY <3>1, ResultCodeFits
    <3>3. m.result[1] = r
      BY <3>1
    <3>4. s = <<10>> \o Varint(n) \o b /\ k = 1 + VarintSize(n) + n
      BY <2>2, <3>2, <3>3
    <3> HIDE DEF s, k, b, n
    <3>5. IsSeq(Varint(n)) /\ Len(Varint(n)) = VarintSize(n) /\ VarintSize(n) \in Nat
      BY <3>2, VarintLength
    <3>6. IsSeq(<<10>> \o Varint(n)) /\ Len(<<10>> \o Varint(n)) = 1 + VarintSize(n)
      BY <3>5, One, Joined
    <3>7. /\ IsSeq((<<10>> \o Varint(n)) \o b)
          /\ Len((<<10>> \o Varint(n)) \o b) = Len(<<10>> \o Varint(n)) + Len(b)
      BY <3>2, <3>6, Joined
    <3> QED
      BY <3>2, <3>4, <3>5, <3>6, <3>7
  <2> QED
    BY <2>1, <2>2
<1>3. IsSeq(t) /\ Len(t) = l
  <2>1. IsSeq(<<16, 1>>) /\ Len(<<16, 1>>) = 2
    <3>1. <<16, 1>> \in Seq(Nat) /\ Len(<<16, 1>>) = 2
      OBVIOUS
    <3> QED
      BY <3>1 DEF IsSeq
  <2>2. CASE m.success
    BY <2>1, <2>2
  <2>3. CASE ~m.success
    BY <2>3, Nothing
  <2> QED
    BY <2>2, <2>3
<1>4. IsSeq(m.unknown)
  BY <1>1, OctetsAre
<1>5. /\ SerializeResponse(m) = s \o t \o m.unknown
      /\ ResponseByteSize(m) = k + l + Len(m.unknown)
  BY DEF SerializeResponse, ResponseByteSize
<1> HIDE DEF s, t, k, l
<1>6. IsSeq(s \o t) /\ Len(s \o t) = Len(s) + Len(t)
  BY <1>2, <1>3, Joined
<1>7. Len((s \o t) \o m.unknown) = Len(s \o t) + Len(m.unknown)
  BY <1>4, <1>6, Joined
<1> QED
  BY <1>2, <1>3, <1>5, <1>6, <1>7
=============================================================================
