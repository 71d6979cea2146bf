-------------------------------- MODULE Wire --------------------------------
(***************************************************************************)
(* The four messages of the protocol as the generated code writes them:    *)
(* mprpc.RpcHeader (src/src/rpcheader.pb.cc) and fixbug.ResultCode,        *)
(* LoginRequest and LoginResponse (src/example/user.pb.cc).  Codec has     *)
(* how they are read.                                                      *)
(*                                                                         *)
(* A message is a record of its fields and of the bytes of the fields it   *)
(* does not know.  bytes fields are sequences of 0 .. 255; result, which   *)
(* is a pointer, is a sequence of no or one ResultCode.                    *)
(***************************************************************************)
EXTENDS Integers, Sequences

-----------------------------------------------------------------------------
(* The wire format, which the protobuf library writes.                      *)

(* Seven bits a byte, the lowest first; a negative number has all of its 64. *)
Varint(n) ==
    IF n < 0
    THEN [i \in 1 .. 10 |-> IF i = 10 THEN 1
                            ELSE IF i > 5 THEN 255 ELSE 128 + ((n \div 128 ^ (i - 1)) % 128)]
    ELSE LET bytes[x \in 0 .. n] ==
               IF x < 128 THEN <<x>> ELSE <<128 + (x % 128)>> \o bytes[x \div 128]
         IN  bytes[n]

(* The size of a number is found without writing it.                        *)
VarintSize(n) ==
    IF n < 0 THEN 10
    ELSE IF n < 128 THEN 1
    ELSE IF n < 16384 THEN 2
    ELSE IF n < 2097152 THEN 3
    ELSE IF n < 268435456 THEN 4 ELSE 5

WriteBytes(tag, value) ==
    IF value = <<>> THEN <<>> ELSE <<tag>> \o Varint(Len(value)) \o value
WriteNumber(tag, value) == IF value = 0 THEN <<>> ELSE <<tag>> \o Varint(value)

BytesSize(value)  == IF value = <<>> THEN 0 ELSE 1 + VarintSize(Len(value)) + Len(value)
NumberSize(value) == IF value = 0 THEN 0 ELSE 1 + VarintSize(value)

-----------------------------------------------------------------------------
(* RpcHeader                                                                *)

NewHeader == [service_name |-> <<>>, method_name |-> <<>>, args_size |-> 0, unknown |-> <<>>]

SerializeHeader(m) ==
    WriteBytes(10, m.service_name) \o WriteBytes(18, m.method_name)
        \o WriteNumber(24, m.args_size) \o m.unknown

(* Mutant: the tag of the size is not counted. *)
HeaderByteSizeNoTag(m) ==
    BytesSize(m.service_name) + BytesSize(m.method_name) + VarintSize(m.args_size)
        + Len(m.unknown)

HeaderByteSize(m) ==
    BytesSize(m.service_name) + BytesSize(m.method_name) + NumberSize(m.args_size)
        + Len(m.unknown)

-----------------------------------------------------------------------------
(* ResultCode                                                               *)

NewResultCode == [errcode |-> 0, errmsg |-> <<>>, unknown |-> <<>>]

SerializeResultCode(m) == WriteNumber(8, m.errcode) \o WriteBytes(18, m.errmsg) \o m.unknown

ResultCodeByteSize(m) == BytesSize(m.errmsg) + NumberSize(m.errcode) + Len(m.unknown)

-----------------------------------------------------------------------------
(* LoginRequest                                                             *)

NewRequest == [name |-> <<>>, pwd |-> <<>>, unknown |-> <<>>]

SerializeRequest(m) == WriteBytes(10, m.name) \o WriteBytes(18, m.pwd) \o m.unknown

RequestByteSize(m) == BytesSize(m.name) + BytesSize(m.pwd) + Len(m.unknown)

-----------------------------------------------------------------------------
(* LoginResponse                                                            *)

NewResponse == [result |-> <<>>, success |-> FALSE, unknown |-> <<>>]

(* A result that is there is written, though it may have no bytes.          *)
SerializeResponse(m) ==
    (IF m.result = <<>> THEN <<>>
     ELSE LET s == SerializeResultCode(m.result[1]) IN <<10>> \o Varint(Len(s)) \o s)
    \o (IF m.success THEN <<16, 1>> ELSE <<>>) \o m.unknown

ResponseByteSize(m) ==
    (IF m.result = <<>> THEN 0
     ELSE LET n == ResultCodeByteSize(m.result[1]) IN 1 + VarintSize(n) + n)
    + (IF m.success THEN 2 ELSE 0) + Len(m.unknown)
=============================================================================
