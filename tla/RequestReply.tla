---------------------------- MODULE RequestReply -----------------------------
(***************************************************************************)
(* What a bus promises its callers.  Calls are served one at a time, in    *)
(* the order they asked.  A call's request is put to its slave, and put    *)
(* again only if that is harmless; each time the slave answers it once, or *)
(* not at all.  A call that returns a reply, or raises the slave's         *)
(* exception response, does so with what the slave last answered to this   *)
(* very call; any call may fail.                                           *)
(***************************************************************************)
EXTENDS Integers, Sequences

CONSTANTS
  Callers,
  Requests,
  NoRequest,       \* the request of a caller that is not calling
  Kind,            \* request -> "read", "diagnostic", "write" or "broadcast"
  Retries,         \* how often a request may be put to its slave again
  IdempotentOnly   \* and whether only if it reads

VARIABLES
  queue,  \* the callers in the order they are served; the first is being served
  req,    \* caller -> the request of its call, or NoRequest
  asked,  \* how often the request being served was put to its slave
  answer, \* what came of the last time: "none", "due", "reply" or "exception"
  ended   \* the call that ended in the last step, and how, if one did

promiseVars == <<queue, req, asked, answer, ended>>

Errors == {"bad", "timeout", "connection", "cancelled"}

Request == req[Head(queue)]

MayAskAgain ==
  /\ asked <= Retries
  /\ Kind[Request] # "broadcast"
  /\ IdempotentOnly => Kind[Request] \in {"read", "diagnostic"}

Init ==
  /\ queue = <<>> /\ req = [c \in Callers |-> NoRequest]
  /\ asked = 0 /\ answer = "none" /\ ended = {}

Call(c, r) ==
  /\ req[c] = NoRequest
  /\ req' = [req EXCEPT ![c] = r]
  /\ queue' = Append(queue, c)
  /\ ended' = {}
  /\ UNCHANGED <<asked, answer>>

(* The request is put to its slave, when nothing is due of the last time.  *)
Ask ==
  /\ queue # <<>> /\ answer = "none"
  /\ asked = 0 \/ MayAskAgain
  /\ asked' = asked + 1 /\ answer' = "due"
  /\ ended' = {}
  /\ UNCHANGED <<queue, req>>

Answer(a) ==
  /\ answer = "due" /\ Kind[Request] # "broadcast"
  /\ answer' = a
  /\ ended' = {}
  /\ UNCHANGED <<queue, req, asked>>

(* The request or its answer is lost, or given up.                         *)
NoAnswer ==
  /\ answer # "none"
  /\ answer' = "none"
  /\ ended' = {}
  /\ UNCHANGED <<queue, req, asked>>

(* The call being served ends, and the next is served.                     *)
End(how) ==
  /\ queue # <<>>
  /\ how \in {"reply", "exception"} => answer = how
  /\ how = "broadcast_sent" => Kind[Request] = "broadcast" /\ asked = 1
  /\ queue' = Tail(queue)
  /\ req' = [req EXCEPT ![Head(queue)] = NoRequest]
  /\ asked' = 0 /\ answer' = "none"
  /\ ended' = {[caller |-> Head(queue), how |-> how]}

(* A call that waits to be served is cancelled.                            *)
Leave(c) ==
  /\ \E i \in DOMAIN queue :
       /\ i # 1 /\ queue[i] = c
       /\ queue' = SubSeq(queue, 1, i - 1) \o SubSeq(queue, i + 1, Len(queue))
  /\ req' = [req EXCEPT ![c] = NoRequest]
  /\ ended' = {[caller |-> c, how |-> "cancelled"]}
  /\ UNCHANGED <<asked, answer>>

Rest == ended' = {} /\ UNCHANGED <<queue, req, asked, answer>>

Next ==
  \/ \E c \in Callers, r \in Requests : Call(c, r)
  \/ Ask \/ NoAnswer \/ Rest
  \/ \E a \in {"reply", "exception"} : Answer(a)
  \/ \E how \in {"reply", "exception", "broadcast_sent"} \cup Errors : End(how)
  \/ \E c \in Callers : Leave(c)

Spec == Init /\ [][Next]_promiseVars
=============================================================================
