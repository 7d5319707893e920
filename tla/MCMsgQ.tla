------------------------------- MODULE MCMsgQ -------------------------------
(* Small instances of MsgQ for TLC. *)
EXTENDS MsgQ, TLC

CONSTANTS h1, h2, n1, n2, l1, l2, r1, r2, w1, w2

MCPriorityOf ==
    [m \in Msgs |-> IF m \in {h1, h2} THEN "high"
                    ELSE IF m \in {l1, l2} THEN "low" ELSE "normal"]

(* Messages of one priority, receivers and workers are interchangeable: the next
   state relation and the safety properties do not tell them apart (only the
   size of InitialWorkers counts).  Used for safety only.                   *)
MCSymmetry ==
    UNION {Permutations({h1, h2}), Permutations({n1, n2}), Permutations({l1, l2}),
           Permutations(Receivers), Permutations(Workers)}

=============================================================================
