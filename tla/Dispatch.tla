------------------------------ MODULE Dispatch ------------------------------
(***************************************************************************)
(* What the message queue promises, without its channels, goroutines and   *)
(* pool: a message is accepted once, runs once, and the priorities decide  *)
(* which accepted message may start.  MsgQ is shown to implement it.       *)
(*                                                                         *)
(* There is no liveness here: that every accepted message runs is not what *)
(* the queue promises (MsgQ, EveryMessageHandled).                         *)
(***************************************************************************)
EXTENDS Naturals, Sequences

CONSTANTS Msgs, PriorityOf

VARIABLES
    accepted,  \* the messages accepted so far, in their order
    status     \* message -> "outside", "waiting", "running" or "done"

vars == <<accepted, status>>

Init ==
    /\ accepted = <<>>
    /\ status = [m \in Msgs |-> "outside"]

Move(m, from, to) ==
    /\ status[m] = from
    /\ status' = [status EXCEPT ![m] = to]

Accept(m) ==
    /\ Move(m, "outside", "waiting")
    /\ accepted' = Append(accepted, m)

(* A message waits for one accepted before it.  Only a low priority message
   has to let all of those pass; a high one waits for the high ones alone, and
   a normal one for none: a worker may run it straight from its channel.    *)
WaitsFor(m, o) ==
    \/ PriorityOf[m] = "low"
    \/ PriorityOf[m] = "high" /\ PriorityOf[o] = "high"

Start(m) ==
    /\ \A i, j \in 1..Len(accepted) :
         (i < j /\ accepted[j] = m /\ status[accepted[i]] = "waiting")
            => ~WaitsFor(m, accepted[i])
    /\ Move(m, "waiting", "running")
    /\ UNCHANGED accepted

Finish(m) ==
    /\ Move(m, "running", "done")
    /\ UNCHANGED accepted

Next == \E m \in Msgs : Accept(m) \/ Start(m) \/ Finish(m)

Spec == Init /\ [][Next]_vars
=============================================================================
