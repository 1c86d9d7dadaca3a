----------------------------- MODULE MotionStream -----------------------------
(***************************************************************************)
(* What the hardware plugin promises about motion, whoever drives it: the  *)
(* points it has acknowledged form one stream, labelled with trajectory    *)
(* ids, that is extended at its end, executed from its front, and cut to a *)
(* prefix when a stop, a reset or a fault discards the tail. Nothing is    *)
(* reordered, repeated, relabelled or lost from the middle.                *)
(***************************************************************************)
EXTENDS Integers, Sequences

CONSTANT MaxExtension       \* frames one acknowledged chunk may add

VARIABLE stream

Init == stream = <<>>

\* All the frames of one chunk carry one label.
Extend ==
    \E n \in 1 .. MaxExtension :
        /\ Len(stream') = Len(stream) + n
        /\ SubSeq(stream', 1, Len(stream)) = stream
        /\ \A i, j \in Len(stream) + 1 .. Len(stream') : stream'[i] = stream'[j]

Execute ==
    /\ stream # <<>>
    /\ stream' = Tail(stream)

Cut ==
    \E n \in 0 .. Len(stream) : stream' = SubSeq(stream, 1, n)

Next == Extend \/ Execute \/ Cut

Spec == Init /\ [][Next]_stream
===============================================================================
