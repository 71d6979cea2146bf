------------------------------- MODULE Codec -------------------------------
(***************************************************************************)
(* The four messages of the protocol as the generated code reads and       *)
(* merges them: mprpc.RpcHeader (src/src/rpcheader.pb.cc) and              *)
(* fixbug.ResultCode, LoginRequest and LoginResponse                       *)
(* (src/example/user.pb.cc), as Wire writes them.                          *)
(*                                                                         *)
(* Parsing gives the set of messages read: one, or none when it fails.     *)
(* TLC's integers have 32 bits: a uint32 of 2^31 or more reads as negative.*)
(***************************************************************************)
EXTENDS Integers, Sequences, SequencesExt, FiniteSetsExt, Wire

-----------------------------------------------------------------------------
(* The wire format, which the protobuf library reads.                       *)

(* How many bytes the number at the start of s has, if it ends within max.  *)
Ends(s, max) ==
    {k \in 1 .. Min({max, Len(s)}) : s[k] < 128 /\ \A i \in 1 .. k - 1 : s[i] >= 128}

(* The lower 32 bits of a number. *)
Low32(s) ==
    LET top == IF Len(s) < 5 THEN 0 ELSE s[5] % 16
    IN  MapThenSumSet(LAMBDA i : (s[i] % 128) * 128 ^ (i - 1), 1 .. Min({4, Len(s)}))
            + (IF top < 8 THEN top ELSE top - 16) * 128 ^ 4

After(s, k) == SubSeq(s, k + 1, Len(s))

(* The fields that s consists of: [tag, body, size], size with the tag.     *)
RECURSIVE FieldsOf(_)

(* How many bytes the field with this tag has in s: {} if they are not all  *)
(* there, or the tag is 0, of field 0 or the end of a group.                *)
Extent(tag, s) ==
    IF tag \div 8 = 0 THEN {}
    ELSE CASE tag % 8 = 0 -> Ends(s, 10)
           [] tag % 8 = 1 -> {8} \cap 1 .. Len(s)
           [] tag % 8 = 2 -> {k + Low32(SubSeq(s, 1, k)) : k \in Ends(s, 5)} \cap 1 .. Len(s)
           [] tag % 8 = 5 -> {4} \cap 1 .. Len(s)
           [] tag % 8 = 3 -> {n \in 1 .. Len(s) : \E i \in 0 .. n - 1 :
                                 /\ Ends(SubSeq(s, i + 1, n), 5) = {n - i}
                                 /\ Low32(SubSeq(s, i + 1, n)) = tag + 1
                                 /\ FieldsOf(SubSeq(s, 1, i)) # {}}
           [] OTHER -> {}

FirstField(s) ==
    UNION {LET tag == Low32(SubSeq(s, 1, k))
           IN  {[tag |-> tag, body |-> SubSeq(s, k + 1, k + n), size |-> k + n] :
                    n \in Extent(tag, After(s, k))} : k \in Ends(s, 5)}

FieldsOf(s) ==
    IF s = <<>> THEN {<<>>}
    ELSE UNION {{<<f>> \o rest : rest \in FieldsOf(After(s, f.size))} : f \in FirstField(s)}

(* Of a bytes field: what follows the length. *)
Content(body) == After(body, CHOOSE k \in Ends(body, 5) : TRUE)

Unknown(m, f) == [m EXCEPT !.unknown = @ \o Varint(f.tag) \o f.body]

(* Reads s into m, field by field; Put gives the messages after a field.    *)
ParseInto(m, s, Put(_, _)) ==
    UNION {FoldLeft(LAMBDA ms, f : UNION {Put(x, f) : x \in ms}, {m}, fs) : fs \in FieldsOf(s)}

(* MergeFrom: what from has set replaces what m has.                        *)
Merged(m, from, default) ==
    [x \in DOMAIN m |-> IF x = "unknown" THEN m[x] \o from[x]
                        ELSE IF from[x] = default[x] THEN m[x] ELSE from[x]]

-----------------------------------------------------------------------------
(* RpcHeader                                                                *)

PutHeader(m, f) ==
    {CASE f.tag = 10 -> [m EXCEPT !.service_name = Content(f.body)]
       [] f.tag = 18 -> [m EXCEPT !.method_name = Content(f.body)]
       [] f.tag = 24 -> [m EXCEPT !.args_size = Low32(f.body)]
       [] OTHER      -> Unknown(m, f)}

ParseHeader(s) == ParseInto(NewHeader, s, PutHeader)

MergeHeader(m, from) == Merged(m, from, NewHeader)

-----------------------------------------------------------------------------
(* ResultCode                                                               *)

PutResultCode(m, f) ==
    {CASE f.tag = 8  -> [m EXCEPT !.errcode = Low32(f.body)]
       [] f.tag = 18 -> [m EXCEPT !.errmsg = Content(f.body)]
       [] OTHER      -> Unknown(m, f)}

(* ParseMessage continues with the message that is there. *)
ParseResultCode(m, s) == ParseInto(m, s, PutResultCode)

MergeResultCode(m, from) == Merged(m, from, NewResultCode)

-----------------------------------------------------------------------------
(* LoginRequest                                                             *)

PutRequest(m, f) ==
    {CASE f.tag = 10 -> [m EXCEPT !.name = Content(f.body)]
       [] f.tag = 18 -> [m EXCEPT !.pwd = Content(f.body)]
       [] OTHER      -> Unknown(m, f)}

ParseRequest(s) == ParseInto(NewRequest, s, PutRequest)

MergeRequest(m, from) == Merged(m, from, NewRequest)

-----------------------------------------------------------------------------
(* LoginResponse                                                            *)

(* mutable_result: the ResultCode of m, made if there is none.              *)
MutableResult(m) == IF m.result = <<>> THEN NewResultCode ELSE m.result[1]

PutResponse(m, f) ==
    CASE f.tag = 10 -> {[m EXCEPT !.result = <<r>>] :
                           r \in ParseResultCode(MutableResult(m), Content(f.body))}
      [] f.tag = 16 -> {[m EXCEPT !.success = \E i \in DOMAIN f.body : f.body[i] % 128 # 0]}
      [] OTHER      -> {Unknown(m, f)}

ParseResponse(s) == ParseInto(NewResponse, s, PutResponse)

(* Mutant: the result is replaced, not merged. *)
MergeResponseReplaces(m, from) == Merged(m, from, NewResponse)

MergeResponse(m, from) ==
    [Merged(m, from, NewResponse) EXCEPT
        !.result = IF from.result = <<>> THEN m.result
                   ELSE <<MergeResultCode(MutableResult(m), from.result[1])>>]
=============================================================================
