---------------------------- MODULE MCEngineShutdown ----------------------------
EXTENDS EngineShutdown

CONSTANTS c1, d1, d2, l1, top

OneCamera == {c1}
TwoDetectors == {d1, d2}
OneLPDetector == {l1}

\* The order of stop(): all captures, all processors, the two pools, the
\* tracked object processor.
StopOrder == <<<<"capture", c1>>, <<"processor", c1>>, <<"detector", d1>>,
               <<"detector", d2>>, <<"lpdetector", l1>>, <<"tracked", top>>>>
===============================================================================
