--------------------------- MODULE FrameFlowProofs ---------------------------
(***************************************************************************)
(* The order of frames, proved of the abstract lossy FIFO for any set of   *)
(* cameras and any number of frames.                                       *)
(***************************************************************************)
EXTENDS FrameFlow, TLAPS

Numbered == [camera : Cameras, index : Nat]

FlowTypeOK ==
    /\ captured \in [Cameras -> Nat]
    /\ waiting \in [Cameras -> Seq(Numbered)]
    /\ delivered \in [Cameras -> Seq(Numbered)]

\* Every frame a camera has in the pipeline was captured before.
Below(s, n) == \A i \in 1 .. Len(s) : s[i].index < n

FlowInv ==
    /\ FlowTypeOK
    /\ InOrder
    /\ \A c \in Cameras : Below(delivered[c], captured[c]) /\ Below(waiting[c], captured[c])

\* What appending the next captured frame to a sequence keeps.
LEMMA AppendNext ==
    ASSUME NEW c \in Cameras, NEW n \in Nat, NEW s \in Seq(Numbered),
           Ascending(s), Below(s, n)
    PROVE  /\ Append(s, FrameOf(c, n)) \in Seq(Numbered)
           /\ Ascending(Append(s, FrameOf(c, n)))
           /\ Below(Append(s, FrameOf(c, n)), n + 1)
  <1>1. FrameOf(c, n) \in Numbered /\ FrameOf(c, n).index = n
    BY DEF FrameOf, Numbered
  <1>2. \A i \in 1 .. Len(s) : s[i] \in Numbered
    OBVIOUS
  <1>3. \A f \in Numbered : f.index \in Nat
    BY DEF Numbered
  <1>. QED BY <1>1, <1>2, <1>3 DEF Ascending, Below

LEMMA BelowGrows ==
    ASSUME NEW n \in Nat, NEW s \in Seq(Numbered), Below(s, n)
    PROVE  Below(s, n + 1)
  <1>1. \A i \in 1 .. Len(s) : s[i] \in Numbered
    OBVIOUS
  <1>2. \A f \in Numbered : f.index \in Nat
    BY DEF Numbered
  <1>. QED BY <1>1, <1>2 DEF Below

\* What appending a frame later than those of a sequence keeps.
LEMMA AppendLater ==
    ASSUME NEW n \in Nat, NEW s \in Seq(Numbered), NEW f \in Numbered,
           Ascending(s), Below(s, f.index), Below(s, n), f.index < n
    PROVE  /\ Append(s, f) \in Seq(Numbered)
           /\ Ascending(Append(s, f))
           /\ Below(Append(s, f), n)
  <1>1. \A i \in 1 .. Len(s) : s[i] \in Numbered
    OBVIOUS
  <1>2. \A g \in Numbered : g.index \in Nat
    BY DEF Numbered
  <1>3. /\ Append(s, f) \in Seq(Numbered)
        /\ Len(Append(s, f)) = Len(s) + 1
        /\ \A i \in 1 .. Len(s) : Append(s, f)[i] = s[i]
        /\ Append(s, f)[Len(s) + 1] = f
    OBVIOUS
  <1>4. Len(s) \in Nat /\ \A i \in 1 .. Len(s) + 1 : i = Len(s) + 1 \/ i \in 1 .. Len(s)
    OBVIOUS
  <1>5. Ascending(Append(s, f))
    <2>. SUFFICES ASSUME NEW i \in 1 .. Len(s) + 1, NEW j \in 1 .. Len(s) + 1, i < j
                  PROVE  Append(s, f)[i].index < Append(s, f)[j].index
      BY <1>3 DEF Ascending
    <2>1. i \in 1 .. Len(s)
      BY <1>4
    <2>2. CASE j = Len(s) + 1
      BY <1>3, <2>1, <2>2 DEF Below
    <2>3. CASE j \in 1 .. Len(s)
      BY <1>3, <2>1, <2>3 DEF Ascending
    <2>. QED BY <1>4, <2>2, <2>3
  <1>6. Below(Append(s, f), n)
    <2>. SUFFICES ASSUME NEW i \in 1 .. Len(s) + 1
                  PROVE  Append(s, f)[i].index < n
      BY <1>3 DEF Below
    <2>. QED BY <1>3, <1>4 DEF Below
  <1>. QED BY <1>3, <1>5, <1>6

\* What taking the head off a sequence keeps.
LEMMA TailKeeps ==
    ASSUME NEW n \in Nat, NEW s \in Seq(Numbered), s # <<>>, Ascending(s), Below(s, n)
    PROVE  /\ Tail(s) \in Seq(Numbered)
           /\ Ascending(Tail(s))
           /\ Below(Tail(s), n)
           /\ Head(s) \in Numbered
           /\ Head(s).index < n
           /\ \A j \in 1 .. Len(Tail(s)) : Head(s).index < Tail(s)[j].index
  <1>1. Len(s) \in Nat /\ Len(s) > 0 /\ Head(s) = s[1] /\ s[1] \in Numbered
    OBVIOUS
  <1>2. Tail(s) \in Seq(Numbered) /\ Len(Tail(s)) = Len(s) - 1
        /\ \A i \in 1 .. Len(Tail(s)) : Tail(s)[i] = s[i + 1]
    BY <1>1
  <1>. QED BY <1>1, <1>2 DEF Ascending, Below

LEMMA FlowInitInv == Init => FlowInv
  <1>. SUFFICES ASSUME Init PROVE FlowInv
    OBVIOUS
  <1>1. \A c \in Cameras : captured[c] = 0 /\ waiting[c] = <<>> /\ delivered[c] = <<>>
    BY DEF Init
  <1>2. FlowTypeOK
    BY DEF Init, FlowTypeOK
  <1>. QED BY <1>1, <1>2 DEF FlowInv, InOrder, Ascending, Precedes, Below

\* The invariant holds of camera c after c's own step.
LEMMA FlowNextInv == FlowInv /\ [Next]_flowVars => FlowInv'
  <1>. SUFFICES ASSUME FlowInv, [Next]_flowVars PROVE FlowInv'
    OBVIOUS
  <1>. USE DEF FlowInv, FlowTypeOK
  <1>1. ASSUME NEW c \in Cameras, Arrive(c) PROVE FlowInv'
    <2>1. /\ Append(waiting[c], FrameOf(c, captured[c])) \in Seq(Numbered)
          /\ Ascending(Append(waiting[c], FrameOf(c, captured[c])))
          /\ Below(Append(waiting[c], FrameOf(c, captured[c])), captured[c] + 1)
      BY AppendNext DEF InOrder
    <2>2. Below(delivered[c], captured[c] + 1)
      BY BelowGrows
    <2>3. Precedes(delivered[c], Append(waiting[c], FrameOf(c, captured[c])))
      BY DEF InOrder, Precedes, Below, FrameOf
    <2>4. FlowTypeOK'
      BY <1>1, <2>1 DEF Arrive
    <2>5. \A e \in Cameras \ {c} : /\ captured'[e] = captured[e]
                                   /\ waiting'[e] = waiting[e]
                                   /\ delivered'[e] = delivered[e]
      BY <1>1 DEF Arrive
    <2>6. /\ captured'[c] = captured[c] + 1
          /\ waiting'[c] = Append(waiting[c], FrameOf(c, captured[c]))
          /\ delivered'[c] = delivered[c]
      BY <1>1 DEF Arrive
    <2>7. InOrder'
      BY <2>1, <2>3, <2>5, <2>6 DEF InOrder
    <2>. QED BY <2>1, <2>2, <2>4, <2>5, <2>6, <2>7
  <1>2. ASSUME NEW c \in Cameras, Skip(c) PROVE FlowInv'
    <2>1. Below(delivered[c], captured[c] + 1) /\ Below(waiting[c], captured[c] + 1)
      BY BelowGrows
    <2>2. FlowTypeOK' /\ waiting' = waiting /\ delivered' = delivered
      BY <1>2 DEF Skip
    <2>3. \A e \in Cameras : captured'[e] = IF e = c THEN captured[c] + 1 ELSE captured[e]
      BY <1>2 DEF Skip
    <2>4. InOrder'
      BY <2>2 DEF InOrder
    <2>. QED BY <2>1, <2>2, <2>3, <2>4
  <1>3. ASSUME NEW c \in Cameras, waiting[c] # <<>>,
               waiting' = [waiting EXCEPT ![c] = Tail(@)], captured' = captured,
               \/ delivered' = delivered
               \/ delivered' = [delivered EXCEPT ![c] = Append(@, Head(waiting[c]))]
        PROVE FlowInv'
    <2>1. /\ Tail(waiting[c]) \in Seq(Numbered)
          /\ Ascending(Tail(waiting[c]))
          /\ Below(Tail(waiting[c]), captured[c])
          /\ Head(waiting[c]) \in Numbered
          /\ Head(waiting[c]).index < captured[c]
          /\ \A j \in 1 .. Len(Tail(waiting[c])) :
                Head(waiting[c]).index < Tail(waiting[c])[j].index
      BY <1>3, TailKeeps DEF InOrder
    <2>. DEFINE h == Head(waiting[c])  d == delivered[c]
    <2>2. \A i \in 1 .. Len(d) : d[i].index < h.index
      <3>1. h = waiting[c][1] /\ 1 \in 1 .. Len(waiting[c])
        BY <1>3
      <3>. QED BY <3>1 DEF InOrder, Precedes
    <2>3. Precedes(d, Tail(waiting[c]))
      <3>1. ASSUME NEW j \in 1 .. Len(Tail(waiting[c]))
            PROVE Tail(waiting[c])[j] = waiting[c][j + 1] /\ j + 1 \in 1 .. Len(waiting[c])
        BY <1>3
      <3>. QED BY <3>1 DEF InOrder, Precedes
    <2>4. /\ Append(d, h) \in Seq(Numbered)
          /\ Ascending(Append(d, h))
          /\ Below(Append(d, h), captured[c])
          /\ Precedes(Append(d, h), Tail(waiting[c]))
      <3>1. Append(d, h) \in Seq(Numbered) /\ Len(Append(d, h)) = Len(d) + 1
            /\ \A i \in 1 .. Len(d) + 1 : Append(d, h)[i] = IF i = Len(d) + 1 THEN h ELSE d[i]
        BY <2>1
      <3>2. Ascending(Append(d, h)) /\ Below(Append(d, h), captured[c])
        <4>1. Below(d, h.index)
          BY <2>2 DEF Below
        <4>2. Ascending(d) /\ Below(d, captured[c])
          BY DEF InOrder
        <4>. QED BY <4>1, <4>2, <2>1, AppendLater
      <3>4. Precedes(Append(d, h), Tail(waiting[c]))
        BY <2>1, <2>3, <3>1 DEF Precedes
      <3>. QED BY <3>1, <3>2, <3>4
    <2>5. waiting'[c] = Tail(waiting[c]) /\ delivered'[c] \in {d, Append(d, h)}
      BY <1>3
    <2>6. \A e \in Cameras \ {c} : waiting'[e] = waiting[e] /\ delivered'[e] = delivered[e]
      BY <1>3
    <2>7. FlowTypeOK'
      BY <1>3, <2>1, <2>4
    <2>8. InOrder'
      BY <2>1, <2>3, <2>4, <2>5, <2>6 DEF InOrder
    <2>9. \A e \in Cameras : Below(delivered'[e], captured'[e]) /\ Below(waiting'[e], captured'[e])
      BY <1>3, <2>1, <2>4, <2>5, <2>6
    <2>. QED BY <2>7, <2>8, <2>9
  <1>4. ASSUME NEW c \in Cameras, Drop(c) \/ Deliver(c) PROVE FlowInv'
    BY <1>3, <1>4 DEF Drop, Deliver
  <1>5. CASE UNCHANGED flowVars
    <2>1. InOrder'
      BY <1>5 DEF flowVars, InOrder
    <2>. QED BY <1>5, <2>1 DEF flowVars
  <1>. QED BY <1>1, <1>2, <1>4, <1>5 DEF Next

(***************************************************************************)
(* Frames of a camera leave the lossy FIFO in capture order, at most once. *)
(***************************************************************************)
THEOREM FlowOrder == Spec => []FlowInv
  BY FlowInitInv, FlowNextInv, PTL DEF Spec
=============================================================================
