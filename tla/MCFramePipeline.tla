--------------------------- MODULE MCFramePipeline ---------------------------
EXTENDS FramePipeline, TLC

AllPull == [c \in Cameras |-> "pull"]

\* One camera in each mode: whichever enters predict() first decides for both.
MixedModes == LET pull == CHOOSE c \in Cameras : TRUE
              IN  [c \in Cameras |-> IF c = pull THEN "pull" ELSE "push"]

OneEach == [c \in Cameras |-> 1]
TwoEach == [c \in Cameras |-> 2]
ThreeEach == [c \in Cameras |-> 3]
=============================================================================
