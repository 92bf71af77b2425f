---------------------------- MODULE MCPlateDetection ---------------------------
EXTENDS PlateDetection

Size(w, h) == [width |-> w, height |-> h]
Square == Size(16, 16)
Shapes == {Size(24, 10), Size(9, 20), Size(16, 12)}

Candidate(cx, cy, w, h, scores) ==
    [cx |-> cx, cy |-> cy, width |-> w, height |-> h, scores |-> scores]

\* Boxes in a row, each overlapping its neighbour but not the one after, and one
\* that extends beyond the picture.  Nothing, a weak and a strong vehicle, one of
\* another class, and an object that is no vehicle.
Levels == {<<30, 30, 30>>, <<30, 50, 30>>, <<30, 80, 30>>, <<30, 30, 80>>, <<50, 30, 30>>}
RowOrEdge == { <<Candidate(4, 8, 6, 4, s), Candidate(6, 8, 6, 4, t), c>> :
    s \in Levels, t \in Levels,
    c \in { Candidate(8, 8, 6, 4, u) : u \in Levels \ {<<30, 30, 30>>, <<30, 30, 80>>} }
          \cup { Candidate(1, 5, 4, 6, <<30, 80, 30>>) } }

\* A plate that is seen well, or not well enough, and one at the edge, or none.
Plates == { <<Candidate(8, 8, 6, 4, s[1]), Candidate(14, 3, 6, 4, s[2])>> :
    s \in { <<<<80>>, <<30>>>>, <<<<80>>, <<80>>>>, <<<<50>>, <<80>>>> } }

LastTwo == {2, 3}
===============================================================================
