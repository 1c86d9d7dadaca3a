------------------------------- MODULE MCDesk -------------------------------
(* The drawing desk on a board of 30 by 10 in a disc that just holds it.    *)
EXTENDS DrawingDesk

MCExtent == <<<<-11, -5>>, <<19, 5>>>>
MCCentre == <<4, 0>>
MCAnchor == <<80, 0, 5>>
MCDrawZ == -1

\* A turn along the board's edge, whose curve leaves the disc; two short
\* strokes, both from outside the extent; a run of uneven spans; a dot.
MCDrawings == {<< <<<<19, 5>>, <<-11, 5>>, <<-11, -5>>, <<19, -5>>>> >>,
               << <<<<0, 0>>, <<40, 0>>>>, <<<<-11, 0>>, <<-11, -16>>>> >>,
               << <<<<-8, 0>>, <<0, 0>>, <<0, 5>>, <<8, 5>>, <<8, 0>>>> >>,
               << <<<<0, 0>>>> >>}
MCOffsets == {<<0, 0>>, <<-12, 0>>, <<40, 0>>}
MCYaws == {0, 1, 2}

\* A turned recipe that fits at scale 1 only, and that lifts the pen by itself.
MCBundled ==
    [b |-> [segments |-> <<Lin(<<0, 0>>, 1), Lin(<<0, 0>>, -1), Lin(<<4, 0>>, -1), Lin(<<4, 0>>, 2)>>,
            anchor |-> <<0, 0, 0>>, plane_rotate |-> 2, rotate |-> 1, scale |-> 1]]
=============================================================================
