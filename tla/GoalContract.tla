------------------------------ MODULE GoalContract ------------------------------
(***************************************************************************)
(* What the FollowJointTrajectory action of the passthrough controller     *)
(* promises its clients: a goal is accepted or rejected once, an accepted  *)
(* one ends once, and accepted goals end in the order of their acceptance, *)
(* except that one whose start does not continue the motion before it may  *)
(* be refused on its own.                                                  *)
(***************************************************************************)
EXTENDS Integers, Sequences

CONSTANT Goal

VARIABLES
    status,     \* what has become of each goal
    order       \* the unfinished accepted goals, oldest first

Init ==
    /\ status = [g \in Goal |-> "new"]
    /\ order = <<>>

Accept(g) ==
    /\ status[g] = "new"
    /\ status' = [status EXCEPT ![g] = "accepted"]
    /\ order' = Append(order, g)

Reject(g) ==
    /\ status[g] = "new"
    /\ status' = [status EXCEPT ![g] = "rejected"]
    /\ UNCHANGED order

\* The n oldest goals end, because they were executed or a fault or a stop
\* struck.
EndOldest ==
    \E n \in 1 .. Len(order) :
        LET ended == {order[i] : i \in 1 .. n} IN
        /\ order' = SubSeq(order, n + 1, Len(order))
        /\ \E done \in SUBSET ended :
              status' = [g \in Goal |-> IF g \in done THEN "succeeded"
                                        ELSE IF g \in ended THEN "aborted"
                                        ELSE status[g]]

Refuse ==
    \E i \in 1 .. Len(order) :
        /\ status' = [status EXCEPT ![order[i]] = "aborted"]
        /\ order' = SubSeq(order, 1, i - 1) \o SubSeq(order, i + 1, Len(order))

Next ==
    \/ \E g \in Goal : Accept(g) \/ Reject(g)
    \/ EndOldest
    \/ Refuse

Spec == Init /\ [][Next]_<<status, order>>
===============================================================================
