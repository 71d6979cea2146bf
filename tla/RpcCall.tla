------------------------------ MODULE RpcCall ------------------------------
(***************************************************************************)
(* What a call promises its caller, whatever carries it: it ends once, its *)
(* request is executed at most once and only after it was asked, a call    *)
(* that is answered was executed, and only when messages came apart on the *)
(* way may it be given something else or be executed without its           *)
(* arguments.  It may also fail or end with nothing, executed or not, and  *)
(* be executed after it has failed.  RpcExchange implements it.            *)
(***************************************************************************)
CONSTANTS Calls,    \* the calls, each with one request
          Refused   \* those that the provider does not execute

VARIABLES outcome,   \* each call: "new", "asked", and then "answered", "nothing",
                     \* "other" or "failed"
          executed,  \* each call: "no", "yes", or "noargs", without its arguments
          apart      \* has a message come apart?

vars == <<outcome, executed, apart>>

Init ==
    /\ outcome = [c \in Calls |-> "new"]
    /\ executed = [c \in Calls |-> "no"]
    /\ apart = FALSE

(* A message may come apart at every step. *)
MayComeApart == apart' \in {apart, TRUE}

Ends(c, how) == outcome' = [outcome EXCEPT ![c] = how]

Ask(c) ==
    /\ outcome[c] = "new"
    /\ Ends(c, "asked")
    /\ UNCHANGED <<executed, apart>>

Execute(c) ==
    /\ c \notin Refused /\ outcome[c] # "new" /\ executed[c] = "no"
    /\ MayComeApart
    /\ \E how \in IF apart' THEN {"yes", "noargs"} ELSE {"yes"} :
          executed' = [executed EXCEPT ![c] = how]
    /\ UNCHANGED outcome

Answered(c) ==
    /\ outcome[c] = "asked" /\ executed[c] # "no"
    /\ MayComeApart
    /\ Ends(c, "answered")
    /\ UNCHANGED executed

Misread(c) ==
    /\ outcome[c] = "asked"
    /\ apart' = TRUE
    /\ \E how \in {"other", "failed"} : Ends(c, how)
    /\ UNCHANGED executed

(* The provider has ended the connection.                                  *)
GetsNothing(c) ==
    /\ outcome[c] = "asked"
    /\ Ends(c, "nothing")
    /\ UNCHANGED <<executed, apart>>

Fails(c) ==
    /\ outcome[c] \in {"new", "asked"}
    /\ Ends(c, "failed")
    /\ UNCHANGED <<executed, apart>>

ComesApart == apart' = TRUE /\ UNCHANGED <<outcome, executed>>

Next ==
    \/ \E c \in Calls :
          \/ Ask(c) \/ Execute(c)
          \/ Answered(c) \/ Misread(c) \/ GetsNothing(c) \/ Fails(c)
    \/ ComesApart

Spec == Init /\ [][Next]_vars
=============================================================================
