------------------------------ MODULE RpcBytes ------------------------------
(***************************************************************************)
(* A provider and a client from the bytes they are given: the provider     *)
(* reads its configuration file (src/src/mprpcapplication.cc, mprpcconfig),*)
(* and then calls go over a connection, one at a time, as bytes            *)
(* that either side may read in any parts.                                 *)
(*                                                                         *)
(* RpcExchange has many calls and connections and takes the size, the      *)
(* header and the arguments of a request as indivisible; here they are     *)
(* bytes, and a read may end inside any of them.                           *)
(***************************************************************************)
EXTENDS Codec, Config

CONSTANTS Files,      \* configuration files
          PortKey,    \* "rpcserver_port"
          Digits,     \* the characters that atoi reads
          Requests,   \* what the client's program asks with
          Targets,    \* <<service, method>> pairs the client calls
          Service,    \* "UserServiceRpc"
          Login,      \* "Login"
          Verdicts,   \* [errcode, errmsg, success] that the service may answer
          MaxCalls    \* the bound on the calls

ASSUME BytesAssumption ==
    /\ <<Service, Login>> \in Targets
    /\ MaxCalls \in Nat
    /\ \A v \in Verdicts : v.errcode \in Int /\ v.success \in BOOLEAN

VARIABLES
    phase,     \* "off", "idle", "waiting" or "died", when the provider has
    file,      \* the configuration file, while the provider is off
    listens,   \* has the provider a port that a caller can find?
    calls,     \* how many calls there were, up to MaxCalls
    target, asked,   \* the method and the request of the last call
    up, down,  \* the bytes on their way to the provider and to the client
    heard,     \* what the last OnMessage of this call took
    ran,       \* the request it ran the service with, if any
    answer,    \* the last response written, if any
    taken,     \* what the client's last recv returned
    got        \* the response it was parsed to, if it parsed

call == <<calls, target, asked>>
vars == <<phase, file, listens, call, up, down, heard, ran, answer, taken, got>>

Init ==
    /\ phase = "off" /\ file \in Files /\ listens = FALSE /\ calls = 0
    /\ target = <<Service, Login>> /\ asked = NewRequest
    /\ up = <<>> /\ down = <<>> /\ heard = <<>> /\ ran = <<>>
    /\ answer = <<>> /\ taken = <<>> /\ got = <<>>

-----------------------------------------------------------------------------
(* MprpcApplication::Init and the start of RpcProvider::Run                 *)

(* The digits a string starts with. *)
Atoi(s) == SubSeq(s, 1, Min({i \in DOMAIN s : s[i] \notin Digits} \cup {Len(s) + 1}) - 1)

Start ==
    /\ phase = "off"
    /\ phase' = "idle"
    /\ listens' = (Atoi(Load(LoadConfigFile(file), PortKey)) # <<>>)
    /\ file' = <<>>
    /\ UNCHANGED <<call, up, down, heard, ran, answer, taken, got>>

-----------------------------------------------------------------------------
(* CallMethod: the frame of a request                                       *)

(* The four bytes of a uint32 on a little-endian machine. *)
Bytes4(n) == [i \in 1 .. 4 |-> (n \div 256 ^ (i - 1)) % 256]

Frame(t, request) ==
    LET args   == SerializeRequest(request)
        header == SerializeHeader([NewHeader EXCEPT !.service_name = t[1],
                      !.method_name = t[2], !.args_size = Len(args)])
    IN  Bytes4(Len(header)) \o header \o args

(* The caller has the route of a provider that listens on a port.           *)
Call ==
    /\ phase = "idle" /\ listens /\ calls < MaxCalls
    /\ phase' = "waiting" /\ calls' = calls + 1
    /\ \E t \in Targets, r \in Requests :
          /\ target' = t /\ asked' = r
          /\ up' = up \o Frame(t, r)
    /\ heard' = <<>> /\ ran' = <<>> /\ answer' = <<>> /\ taken' = <<>> /\ got' = <<>>
    /\ UNCHANGED <<file, listens, down>>

-----------------------------------------------------------------------------
(* RpcProvider                                                              *)

(* m_serviceMap after NotifyService *)
ServiceMap == Service :> {Login}

(* substr of a position and a length, cut at the end of s; a negative       *)
(* length stands for one of 2^31 or more.                                   *)
Substr(s, pos, len) ==
    SubSeq(s, pos + 1, IF len < 0 THEN Len(s) ELSE Min({Len(s), pos + len}))

(* header_size.  Bytes that are not there stay 0; from 2^30 on it is kept   *)
(* at 2^30, as far beyond the end.                                          *)
SizeOf(buf) ==
    LET b == [i \in 1 .. 4 |-> IF i <= Len(buf) THEN buf[i] ELSE 0]
    IN  b[1] + 256 * b[2] + 65536 * b[3] + 16777216 * Min({b[4], 64})

(* Mutant: the arguments are taken from behind the size. *)
RequestsInUnshifted(buf) ==
    UNION {IF h.service_name \in DOMAIN ServiceMap
              /\ h.method_name \in ServiceMap[h.service_name]
           THEN ParseRequest(Substr(buf, 4, h.args_size)) ELSE {} :
           h \in ParseHeader(Substr(buf, 4, SizeOf(buf)))}

(* The request that OnMessage finds in what it reads, if the header parses, *)
(* the method is there and the arguments parse.                             *)
RequestsIn(buf) ==
    UNION {IF h.service_name \in DOMAIN ServiceMap
              /\ h.method_name \in ServiceMap[h.service_name]
           THEN ParseRequest(Substr(buf, 4 + SizeOf(buf), h.args_size)) ELSE {} :
           h \in ParseHeader(Substr(buf, 4, SizeOf(buf)))}

(* substr is called with a position beyond the end: for the header, or for  *)
(* the arguments once the header has parsed.                                *)
Throws(buf) ==
    \/ Len(buf) < 4
    \/ 4 + SizeOf(buf) > Len(buf) /\ ParseHeader(Substr(buf, 4, SizeOf(buf))) # {}

(* UserService::Login fills result and success, with the verdict [0, "",    *)
(* TRUE]; another business may have others.                                 *)
LoginAnswers(v) ==
    [NewResponse EXCEPT
        !.result = <<[MutableResult(NewResponse) EXCEPT !.errcode = v.errcode,
                                                        !.errmsg = v.errmsg]>>,
        !.success = v.success]

(* OnMessage on the first k bytes that are there. *)
OnMessage(k) ==
    /\ phase \in {"idle", "waiting"}
    /\ LET buf == SubSeq(up, 1, k)
       IN  /\ heard' = buf
           /\ up' = After(up, k)
           /\ ~Throws(buf)
           /\ \/ /\ RequestsIn(buf) = {}
                 /\ ran' = <<>>
                 /\ UNCHANGED <<down, answer>>
              \/ \E r \in RequestsIn(buf), v \in Verdicts :
                    /\ ran' = <<r>>
                    /\ answer' = <<LoginAnswers(v)>>
                    /\ down' = down \o SerializeResponse(LoginAnswers(v))
    /\ UNCHANGED <<phase, file, listens, call, taken, got>>

(* Nothing catches the exception: the process ends. *)
Dies(k) ==
    /\ phase \in {"idle", "waiting"}
    /\ Throws(SubSeq(up, 1, k))
    /\ phase' = "died"
    /\ up' = <<>> /\ heard' = <<>> /\ ran' = <<>>
    /\ UNCHANGED <<file, listens, call, down, answer, taken, got>>

-----------------------------------------------------------------------------
(* rpc_task                                                                 *)

(* Mutant: all of recv_buf is parsed, with the zeros behind the response. *)
RecvWholeBuffer(k) ==
    /\ phase = "waiting"
    /\ taken' = SubSeq(down, 1, k)
    /\ down' = After(down, k)
    /\ IF ParseResponse(taken' \o <<0>>) = {} THEN got' = <<>>
       ELSE \E m \in ParseResponse(taken' \o <<0>>) : got' = <<m>>
    /\ phase' = "idle" /\ heard' = <<>> /\ ran' = <<>>
    /\ UNCHANGED <<file, listens, call, up, answer>>

(* recv returns the first k bytes that are there; the connection is used    *)
(* again, parsed or not.                                                    *)
Recv(k) ==
    /\ phase = "waiting"
    /\ taken' = SubSeq(down, 1, k)
    /\ down' = After(down, k)
    /\ IF ParseResponse(taken') = {} THEN got' = <<>>
       ELSE \E m \in ParseResponse(taken') : got' = <<m>>
    /\ phase' = "idle" /\ heard' = <<>> /\ ran' = <<>>
    /\ UNCHANGED <<file, listens, call, up, answer>>

(* The provider's timer ends the connection: recv returns 0, which parses   *)
(* as an empty response.  What was left is lost; the next call has another  *)
(* connection.                                                              *)
RecvEnd ==
    /\ phase = "waiting" /\ down = <<>>
    /\ phase' = "idle"
    /\ got' = <<NewResponse>> /\ taken' = <<>>
    /\ up' = <<>> /\ heard' = <<>> /\ ran' = <<>> /\ answer' = <<>>
    /\ UNCHANGED <<file, listens, call, down>>

Next ==
    \/ Start \/ Call \/ RecvEnd
    \/ \E k \in DOMAIN up : OnMessage(k) \/ Dies(k)
    \/ \E k \in DOMAIN down : Recv(k)

Spec == Init /\ [][Next]_vars

-----------------------------------------------------------------------------
(* Properties.                                                              *)

(* x is m with some of its fields left out. *)
PartOf(x, m, default) == \A f \in DOMAIN m : x[f] \in {m[f], default[f]}

(* The lines of a file, without their ends. *)
LineStarts(s) == {1} \cup {i + 1 : i \in Where(s, "nl")}
LineAt(s, i)  == SubSeq(s, i, Min({j \in Where(s, "nl") : j >= i} \cup {Len(s) + 1}) - 1)

(* The parts of a line on both sides of its first "=". *)
Sides(line) == LET i == Min(Where(line, "=")) IN <<SubSeq(line, 1, i - 1), After(line, i)>>

Spaces(s) == \A i \in DOMAIN s : s[i] = "sp"
Is(s, word) == \E a, b \in 0 .. Len(s) :
    a + b <= Len(s) /\ s = [i \in 1 .. a |-> "sp"] \o word \o [i \in 1 .. b |-> "sp"]

(* What is loaded for a key is what stands, without the spaces around it,   *)
(* on the first line of the file that gives the key a value and is no       *)
(* comment, also when lines are blank, values hold "=" or the last line     *)
(* does not end.  A value of spaces alone stays unless the file ends with   *)
(* it, and a line has to fit into buf.                                      *)
ConfigAsWritten ==
    phase = "off" /\ (\A i \in LineStarts(file) : Len(LineAt(file, i)) < BufSize - 1) =>
        LET map     == LoadConfigFile(file)
            gives   == {i \in LineStarts(file) :
                          LET l == LineAt(file, i)
                          IN  /\ Where(l, "=") # {}
                              /\ Min(DOMAIN l \ Where(l, "sp")) \notin Where(l, "#")
                              /\ Is(Sides(l)[1], PortKey)}
        IN  IF gives = {} THEN Load(map, PortKey) = <<>>
            ELSE LET value == Sides(LineAt(file, Min(gives)))[2]
                     word  == Load(map, PortKey)
                 IN  IF Spaces(value) THEN word \in {value, <<>>}
                     ELSE Is(value, word) /\ "sp" \notin {word[1], Last(word)}

(* However the bytes of a request are cut, the service is run with what the *)
(* caller asked or with a part of it, never with something made of other    *)
(* bytes; and with all of it, exactly when a known method is called, if     *)
(* OnMessage takes the request as it was sent.  This is said of requests    *)
(* none of whose fields holds a frame: a read that begins within such a     *)
(* field would find a request there.                                        *)
RequestKept ==
    /\ ran # <<>> => target = <<Service, Login>> /\ PartOf(ran[1], asked, NewRequest)
    /\ heard # <<>> /\ heard = Frame(target, asked) =>
           ran = IF target = <<Service, Login>> THEN <<asked>> ELSE <<>>

(* What a client reads from the start of a response parses, if it does, to  *)
(* the response or a part of it, and to all of it when it reads all of it;  *)
(* and a request that was run has an answer with bytes, even if every field *)
(* of it has its default: otherwise nothing would be sent and the caller    *)
(* would wait for the end of the connection.                                *)
ResponseKept ==
    /\ ran # <<>> => SerializeResponse(answer[1]) # <<>>
    /\ answer # <<>> /\ taken # <<>> =>
        LET s == SerializeResponse(answer[1])
        IN  /\ taken = s => got = answer
            /\ IsPrefix(taken, s) /\ got # <<>> /\ got[1].result # <<>> =>
                  /\ got[1].success \in {answer[1].success, FALSE}
                  /\ PartOf(got[1].result[1], answer[1].result[1], NewResultCode)

(* What the service may answer, and what the client has made of an answer.  *)
Responses == {LoginAnswers(v) : v \in Verdicts} \cup {got[i] : i \in DOMAIN got}

HeaderFor(n) == [NewHeader EXCEPT !.service_name = target[1],
                                  !.method_name = target[2], !.args_size = n]

(* ByteSizeLong, by which the buffer is sized, is the number of bytes that  *)
(* _InternalSerialize writes.                                               *)
SizeIsLength ==
    got # <<>> =>
        /\ \A m \in Responses : ResponseByteSize(m) = Len(SerializeResponse(m))
        /\ RequestByteSize(asked) = Len(SerializeRequest(asked))
        /\ \A n \in {0, RequestByteSize(asked), 127, 128, 16384} :
              HeaderByteSize(HeaderFor(n)) = Len(SerializeHeader(HeaderFor(n)))

(* Two messages read as one are merged, the later over the earlier: what a  *)
(* client gets that finds the rest of an old response before its own.       *)
ReadTogetherMerges ==
    /\ got # <<>> => \A a, b \in Responses :
          ParseResponse(SerializeResponse(a) \o SerializeResponse(b)) = {MergeResponse(a, b)}
    /\ ran # <<>> => \A a, b \in {asked, ran[1]} :
          ParseRequest(SerializeRequest(a) \o SerializeRequest(b)) = {MergeRequest(a, b)}
    /\ ran # <<>> => \A a, b \in {NewHeader, HeaderFor(0), HeaderFor(300)} :
          ParseHeader(SerializeHeader(a) \o SerializeHeader(b)) = {MergeHeader(a, b)}
=============================================================================
