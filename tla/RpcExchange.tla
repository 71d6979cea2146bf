---------------------------- MODULE RpcExchange ----------------------------
(***************************************************************************)
(* Calls and their answers over pooled connections: the client's rpc_task  *)
(* (src/src/mprpcchannel.cc), the server's connection                      *)
(* (src/src/tcpconnection.cc) and the provider's OnMessage and             *)
(* SendRpcResponse (src/src/rpcprovider.cc).                               *)
(*                                                                         *)
(* A request is three pieces on the wire: the length of its header, the    *)
(* header and the arguments; a response is two.  TCP keeps their order     *)
(* and, if Split, may deliver or accept any part of what is there.  The    *)
(* pool is reduced to which connections are free (ConnLease says more),    *)
(* the server's timer to a kick at any time.                               *)
(***************************************************************************)
EXTENDS Naturals, Sequences, SequencesExt, Buffer

CONSTANTS Calls,    \* the calls, each with one request
          Refused,  \* the calls the provider does not answer, because it has
                    \* no such service or method
          Conns,    \* the connections that are ever made
          NoConn,   \* the call has no connection
          Split     \* may a message arrive, or be accepted, in parts?

Request(c)     == << <<c, "size">>, <<c, "header">>, <<c, "args">> >>
Response(c)    == << <<c, "result">>, <<c, "tail">> >>

ASSUME ExchangeAssumption ==
    /\ Refused \subseteq Calls /\ NoConn \notin Conns /\ Split \in BOOLEAN
    /\ \A c \in Calls : Response(c) \in Seq(Byte)

VARIABLES
    \* the client
    pc,       \* each call: "start", "send", "sent", "ok" or "failed"
    conn,     \* clientfd of each call
    got,      \* what its recv returned
    link,     \* the client's end: "none", "idle" in the pool, "busy", "closed"
    killed,   \* SIGPIPE has ended the client
    \* between them
    up, down, \* bytes on their way to the server and to the client
    reset,    \* the client has sent to a closed end
    \* the server
    end,      \* the server's end of each connection: "none", "open", "closed"
    out,      \* m_outputBuffer of each connection
    served,   \* each call: "no", "yes", or "noargs" when it ran without its
              \* arguments
    died,     \* an exception has ended the server
    \* history
    answers,  \* the responses written to each connection, one after another
    frayed    \* a message was taken in parts on this connection

client == <<pc, conn, got, link, killed>>
server == <<end, out, served, died>>
vars   == <<client, up, down, reset, server, answers, frayed>>

Init ==
    /\ pc = [c \in Calls |-> "start"]
    /\ conn = [c \in Calls |-> NoConn]
    /\ got = [c \in Calls |-> <<>>]
    /\ link = [n \in Conns |-> "none"]
    /\ up = [n \in Conns |-> <<>>] /\ down = [n \in Conns |-> <<>>]
    /\ reset = [n \in Conns |-> FALSE]
    /\ end = [n \in Conns |-> "none"]
    /\ out = [n \in Conns |-> NewBuffer]
    /\ served = [c \in Calls |-> "no"]
    /\ killed = FALSE /\ died = FALSE
    /\ answers = [n \in Conns |-> <<>>]
    /\ frayed = [n \in Conns |-> FALSE]

(* How many of the bytes s one system call takes. *)
Taken(s) == IF Split THEN 1 .. Len(s) ELSE {Len(s)} \ {0}

Rest(s, k) == SubSeq(s, k + 1, Len(s))

-----------------------------------------------------------------------------
(* rpc_task                                                                 *)

Goto(c, p) == pc' = [pc EXCEPT ![c] = p]

(* GetConnection: an idle connection, or a new one. *)
GetIdle(c) ==
    /\ ~killed /\ pc[c] = "start"
    /\ \E n \in Conns :
          /\ link[n] = "idle"
          /\ conn' = [conn EXCEPT ![c] = n]
          /\ link' = [link EXCEPT ![n] = "busy"]
    /\ Goto(c, "send")
    /\ UNCHANGED <<got, killed, up, down, reset, server, answers, frayed>>

GetNew(c) ==
    /\ ~killed /\ pc[c] = "start"
    /\ ~died
    /\ \A n \in Conns : link[n] # "idle"
    /\ \E n \in Conns :
          /\ link[n] = "none"
          /\ conn' = [conn EXCEPT ![c] = n]
          /\ link' = [link EXCEPT ![n] = "busy"]
          /\ end' = [end EXCEPT ![n] = "open"]
    /\ Goto(c, "send")
    /\ UNCHANGED <<got, killed, up, down, reset, out, served, died, answers, frayed>>

(* connect fails; also the bound on the connections ever made. *)
GetFails(c) ==
    /\ ~killed /\ pc[c] = "start"
    /\ \A n \in Conns : link[n] # "idle"
    /\ Goto(c, "failed")
    /\ UNCHANGED <<conn, got, link, killed, up, down, reset, server, answers, frayed>>

Send(c) ==
    /\ ~killed /\ pc[c] = "send"
    /\ LET n == conn[c]
       IN  IF end[n] = "open"
           THEN up' = [up EXCEPT ![n] = @ \o Request(c)] /\ UNCHANGED reset
           ELSE ~reset[n] /\ reset' = [reset EXCEPT ![n] = TRUE] /\ UNCHANGED up
    /\ Goto(c, "sent")
    /\ UNCHANGED <<conn, got, link, killed, down, server, answers, frayed>>

(* send on a connection that has been reset: the client does not ignore    *)
(* SIGPIPE.                                                                *)
SendKills(c) ==
    /\ ~killed /\ pc[c] = "send" /\ reset[conn[c]]
    /\ killed' = TRUE
    /\ UNCHANGED <<pc, conn, got, link, up, down, reset, server, answers, frayed>>

(* Mutant: the connection goes back to the pool. *)
IoFailsReleases(c) ==
    /\ ~killed /\ pc[c] \in {"send", "sent"}
    /\ link' = [link EXCEPT ![conn[c]] = "idle"]
    /\ Goto(c, "failed")
    /\ UNCHANGED <<conn, got, killed, up, down, reset, server, answers, frayed>>

(* send or recv returns -1: the connection is closed, and what the server  *)
(* still sends on it is lost.                                              *)
IoFails(c) ==
    /\ ~killed /\ pc[c] \in {"send", "sent"}
    /\ link' = [link EXCEPT ![conn[c]] = "closed"]
    /\ Goto(c, "failed")
    /\ UNCHANGED <<conn, got, killed, up, down, reset, server, answers, frayed>>

(* What ParseFromArray may say: a whole response parses, and so does        *)
(* nothing; of anything else it depends on the bytes.                      *)
Parsed(bytes) ==
    IF bytes = <<>> \/ \E x \in Calls : bytes = Response(x)
    THEN {"ok"} ELSE {"ok", "failed"}

ReleaseAfter(c, bytes) ==
    /\ got' = [got EXCEPT ![c] = bytes]
    /\ \E result \in Parsed(bytes) : Goto(c, result)
    /\ link' = [link EXCEPT ![conn[c]] = "idle"]

(* One recv; then the connection goes back, parsed or not. *)
Recv(c) ==
    /\ ~killed /\ pc[c] = "sent"
    /\ LET n == conn[c]
       IN  \E k \in Taken(down[n]) :
              /\ ReleaseAfter(c, SubSeq(down[n], 1, k))
              /\ down' = [down EXCEPT ![n] = Rest(@, k)]
              /\ frayed' = [frayed EXCEPT ![n] = @ \/ k < Len(down[n])]
    /\ UNCHANGED <<conn, killed, up, reset, server, answers>>

(* recv returns 0, which is not an error: an empty response. *)
RecvEnd(c) ==
    /\ ~killed /\ pc[c] = "sent"
    /\ end[conn[c]] = "closed" /\ down[conn[c]] = <<>>
    /\ ReleaseAfter(c, <<>>)
    /\ UNCHANGED <<conn, killed, up, down, reset, server, answers, frayed>>

(* The cleaning thread closes an idle connection. *)
CleanIdle(n) ==
    /\ ~killed /\ link[n] = "idle"
    /\ link' = [link EXCEPT ![n] = "closed"]
    /\ UNCHANGED <<pc, conn, got, killed, up, down, reset, server, answers, frayed>>

-----------------------------------------------------------------------------
(* The server                                                               *)

(* HandleRead takes the bytes that have arrived, and OnMessage takes them  *)
(* all out of the input buffer as one request.                             *)
Arrived(n) == IF ~died /\ end[n] = "open" THEN Taken(up[n]) ELSE {}

Caller(bytes) == bytes[1][1]

(* A size comes first.  Without the rest of the header an empty header     *)
(* parses, and substr is called beyond the end of the bytes.               *)
StartsMessage(bytes) == bytes[1] = <<Caller(bytes), "size">>
HasHeader(bytes) == StartsMessage(bytes) /\ Len(bytes) > 1

(* SendRpcResponse: Append, and one send that takes what the socket takes. *)
Answer(n, c, cut) ==
    LET b == AppendBytes(out[n], Response(c))
    IN  \E k \in IF Split THEN 0 .. ReadableBytes(b) ELSE {ReadableBytes(b)} :
           /\ down' = [down EXCEPT ![n] = @ \o SubSeq(Readable(b), 1, k)]
           /\ out' = [out EXCEPT ![n] = IF k > 0 THEN Retrieve(b, k) ELSE b]
           /\ frayed' = [frayed EXCEPT ![n] = @ \/ cut \/ k < ReadableBytes(b)]
    /\ answers' = [answers EXCEPT ![n] = @ \o Response(c)]

(* Mutant: what was read stays in the input buffer. *)
ServeKeepsInput(n) ==
    /\ \E k \in Arrived(n) :
          LET bytes == SubSeq(up[n], 1, k)
              c     == Caller(bytes)
          IN  /\ HasHeader(bytes) /\ c \notin Refused
              /\ served' = [served EXCEPT ![c] = IF k > 2 THEN "yes" ELSE "noargs"]
              /\ Answer(n, c, k < Len(up[n]))
    /\ UNCHANGED <<client, reset, end, died, up>>

(* The first request of the bytes is executed, with the arguments that are *)
(* there; none parse as well as some.  What follows it is dropped.         *)
Serve(n) ==
    /\ \E k \in Arrived(n) :
          LET bytes == SubSeq(up[n], 1, k)
              c     == Caller(bytes)
          IN  /\ HasHeader(bytes) /\ c \notin Refused
              /\ up' = [up EXCEPT ![n] = Rest(@, k)]
              /\ served' = [served EXCEPT ![c] = IF k > 2 THEN "yes" ELSE "noargs"]
              /\ Answer(n, c, k < Len(up[n]))
    /\ UNCHANGED <<client, reset, end, died>>

(* No response is sent when the provider cannot make sense of a request.   *)
Drop(n) ==
    /\ \E k \in Arrived(n) :
          LET bytes == SubSeq(up[n], 1, k)
          IN  /\ StartsMessage(bytes) => HasHeader(bytes) /\ Caller(bytes) \in Refused
              /\ up' = [up EXCEPT ![n] = Rest(@, k)]
              /\ frayed' = [frayed EXCEPT ![n] = @ \/ k < Len(up[n])]
    /\ UNCHANGED <<client, down, reset, server, answers>>

(* substr throws out_of_range: nothing catches it and the process ends.    *)
Throw ==
    /\ \E n \in Conns : \E k \in Arrived(n) : ~HasHeader(SubSeq(up[n], 1, k))
    /\ died' = TRUE
    /\ end' = [m \in Conns |-> IF end[m] = "open" THEN "closed" ELSE end[m]]
    /\ up' = [m \in Conns |-> <<>>]
    /\ UNCHANGED <<client, down, reset, out, served, answers, frayed>>

(* Mutant: a connection ends only when the client has closed it. *)
KickHungUp(n) ==
    /\ ~died /\ end[n] = "open" /\ link[n] = "closed"
    /\ end' = [end EXCEPT ![n] = "closed"]
    /\ up' = [up EXCEPT ![n] = <<>>]
    /\ UNCHANGED <<client, down, reset, out, served, died, answers, frayed>>

(* The server ends a connection: a timer has run out, or the client has    *)
(* closed it.  What is unread or in the output buffer is gone.             *)
Kick(n) ==
    /\ ~died /\ end[n] = "open"
    /\ end' = [end EXCEPT ![n] = "closed"]
    /\ up' = [up EXCEPT ![n] = <<>>]
    /\ UNCHANGED <<client, down, reset, out, served, died, answers, frayed>>

CallStep(c) ==
    \/ GetIdle(c) \/ GetNew(c) \/ GetFails(c)
    \/ Send(c) \/ SendKills(c)
    \/ Recv(c) \/ RecvEnd(c) \/ IoFails(c)

Next ==
    \/ \E c \in Calls : CallStep(c)
    \/ \E n \in Conns : CleanIdle(n) \/ Serve(n) \/ Drop(n) \/ Kick(n)
    \/ Throw

(* The client's threads run, the server answers or its timer ends the      *)
(* connection.  Nothing has to fail.                                       *)
Fairness ==
    /\ \A c \in Calls : WF_vars(GetIdle(c) \/ GetNew(c) \/ GetFails(c))
                     /\ WF_vars(Send(c) \/ SendKills(c))
                     /\ WF_vars(Recv(c) \/ RecvEnd(c))
    /\ \A n \in Conns : WF_vars(Kick(n))

Spec     == Init /\ [][Next]_vars
FairSpec == Spec /\ Fairness

-----------------------------------------------------------------------------
(* Properties.                                                              *)

(* What is still to be read of a connection, on its way and in the output  *)
(* buffer, is the end of what was written to it: partial sends, compaction *)
(* and growth of the buffer lose, repeat or reorder nothing.               *)
StreamKept ==
    \A n \in Conns : IsSuffix(down[n] \o Readable(out[n]), answers[n])

(* While the messages of a connection arrive and are accepted whole, a     *)
(* call that receives anything receives its own response, to a request     *)
(* that was executed with its arguments, whatever became of the calls that *)
(* used the connection before.                                             *)
OwnAnswer ==
    \A c \in Calls :
        pc[c] = "ok" /\ got[c] # <<>> /\ ~frayed[conn[c]] =>
            got[c] = Response(c) /\ served[c] = "yes"

(* Every call ends, though the provider may not answer it, may lose its    *)
(* request or may keep half of the response: the server's timer ends the   *)
(* connection, and that ends the call.                                     *)
EveryCallEnds ==
    \A c \in Calls : pc[c] = "send" ~> pc[c] \in {"ok", "failed"} \/ killed

(* Seen from its caller, a call ends once, is executed at most once, is     *)
(* answered only if it was executed, and is given anything else or executed *)
(* without its arguments only if some message was taken in parts: neither   *)
(* the reuse of connections nor what was left on them by calls that failed  *)
(* can make a provider run a request again.                                 *)
Outcome == [c \in Calls |->
    CASE pc[c] \in {"start", "send"} -> "new"
      [] pc[c] = "sent"              -> "asked"
      [] pc[c] = "failed"            -> "failed"
      [] OTHER -> IF got[c] = <<>> THEN "nothing"
                  ELSE IF got[c] = Response(c) THEN "answered" ELSE "other"]

Apart == \E n \in Conns : frayed[n]

Call == INSTANCE RpcCall WITH outcome <- Outcome, executed <- served, apart <- Apart
ImplementsCall == Call!Spec

(* calluserservice.cc:92 prints the calls that have not failed as the      *)
(* number of successful responses, and mprpcchannel.cc:267 runs done to    *)
(* tell the caller that the RPC has completed: a call that ends without    *)
(* SetFailed was executed.                                                 *)
SuccessMeansServed == \A c \in Calls : pc[c] = "ok" => served[c] # "no"
=============================================================================
