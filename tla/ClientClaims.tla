---------------------------- MODULE ClientClaims -----------------------------
(* What the client's own comments say of the drawing, and it does not keep.   *)
EXTENDS MCClient

\* Chained: a stroke continues the one before it with no pen lift between them,
\* its first point being the last of the previous stroke (drawing_store.py on
\* Stroke). An undo between the clicks of a primitive leaves the end it
\* inherited in place, and what is submitted then draws a line nobody drew.
ChainedStrokesShareTheirSeam ==
    \A i \in 2 .. Len(store) :
        store[i].chained => Head(store[i].points) = Last(store[i - 1].points)
===============================================================================
