---------------------------- MODULE CameraProofs ----------------------------
(***************************************************************************)
(* Theorems about what the threads of a camera do by themselves: the       *)
(* setters they share, the capture loop and the estimate of changes in     *)
(* area.                                                                   *)
(***************************************************************************)
EXTENDS CameraCapture, PacketRingBuffer, AtomicSetter, EventRate, AreaEstimator, Loops,
        FiniteSetTheorems, TLAPS

------------------------------------------------------------------------------
(***************************************************************************)
(* The setters implement an atomic register, for any number of threads and *)
(* values.  Beyond the types, the proof needs one fact of the code: at the *)
(* exchange, current differs from the value to be set, because both the    *)
(* first load and every reload return if they are equal.                   *)
(***************************************************************************)

WorthExchanging == \A t \in Threads : call[t] = "exchange" => current[t] # newValue[t]

SetterInv == SetterTypeOK /\ WorthExchanging

\* The first state is typed, and no call has begun.
LEMMA SetterInvInit == SetterInit => SetterInv
BY SetterAssumption DEF SetterInit, SetterInv, SetterTypeOK, WorthExchanging

\* Every step keeps the variables in their types and compares before it exchanges.
LEMMA SetterInvStep == SetterInv /\ [SetterNext]_setterVars => SetterInv'
<1> SUFFICES ASSUME SetterInv, [SetterNext]_setterVars
             PROVE  SetterInv'
  OBVIOUS
<1> USE DEF SetterInv, SetterTypeOK, WorthExchanging
<1>1. ASSUME NEW t \in Threads, NEW v \in Values, CallSetter(t, v)
      PROVE  SetterInv'
  BY <1>1 DEF CallSetter
<1>2. ASSUME NEW t \in Threads, Load(t)
      PROVE  SetterInv'
  BY <1>2 DEF Load
<1>3. ASSUME NEW t \in Threads, Exchange(t)
      PROVE  SetterInv'
  BY <1>3 DEF Exchange
<1>4. ASSUME NEW t \in Threads, ExchangeFails(t)
      PROVE  SetterInv'
  BY <1>4 DEF ExchangeFails
<1>5. ASSUME NEW t \in Threads, EmitChanged(t)
      PROVE  SetterInv'
  BY <1>5 DEF EmitChanged
<1>6. ASSUME NEW t \in Threads, Return(t)
      PROVE  SetterInv'
  BY <1>6 DEF Return
<1>7. CASE UNCHANGED setterVars
  BY <1>7 DEF setterVars
<1> QED
  BY <1>1, <1>2, <1>3, <1>4, <1>5, <1>6, <1>7 DEF SetterNext

\* The setters keep their variables in their types.
THEOREM SetterTypesHold == SetterSpec => []SetterTypeOK
<1>1. SetterInv => SetterTypeOK
  BY DEF SetterInv
<1> QED
  BY <1>1, SetterInvInit, SetterInvStep, PTL DEF SetterSpec

\* The first state is one of the register.
LEMMA RegisterStarts == SetterInit => Register!RegisterInit
BY DEF SetterInit, Register!RegisterInit, PhaseOf

\* Every step is a step of the register or leaves it alone.
LEMMA RegisterSteps ==
    SetterInv /\ [SetterNext]_setterVars => [Register!RegisterNext]_Register!registerVars
<1> SUFFICES ASSUME SetterInv, [SetterNext]_setterVars
             PROVE  [Register!RegisterNext]_Register!registerVars
  OBVIOUS
<1> USE DEF SetterInv, SetterTypeOK, WorthExchanging, PhaseOf
<1>1. ASSUME NEW t \in Threads, NEW v \in Values, CallSetter(t, v)
      PROVE  Register!Begin(t, v)
  BY <1>1 DEF CallSetter, Register!Begin
<1>2. ASSUME NEW t \in Threads, Load(t)
      PROVE  Register!TakeEffect(t) \/ UNCHANGED Register!registerVars
  <2>1. CASE value = newValue[t]
    BY <1>2, <2>1 DEF Load, Register!TakeEffect
  <2>2. CASE value # newValue[t]
    BY <1>2, <2>2 DEF Load, Register!registerVars
  <2> QED
    BY <2>1, <2>2
<1>3. ASSUME NEW t \in Threads, Exchange(t)
      PROVE  Register!TakeEffect(t)
  BY <1>3 DEF Exchange, Register!TakeEffect
<1>4. ASSUME NEW t \in Threads, ExchangeFails(t)
      PROVE  Register!TakeEffect(t) \/ UNCHANGED Register!registerVars
  <2>1. CASE value = newValue[t]
    BY <1>4, <2>1 DEF ExchangeFails, Register!TakeEffect
  <2>2. CASE value # newValue[t]
    BY <1>4, <2>2 DEF ExchangeFails, Register!registerVars
  <2> QED
    BY <2>1, <2>2
<1>5. ASSUME NEW t \in Threads, EmitChanged(t)
      PROVE  Register!End(t)
  BY <1>5 DEF EmitChanged, Register!End
<1>6. ASSUME NEW t \in Threads, Return(t)
      PROVE  Register!End(t)
  BY <1>6 DEF Return, Register!End
<1>7. CASE UNCHANGED setterVars
  BY <1>7 DEF setterVars, Register!registerVars
<1> QED
  BY <1>1, <1>2, <1>3, <1>4, <1>5, <1>6, <1>7 DEF SetterNext, Register!RegisterNext

\* A call of a setter acts as if it were atomic, and tells of every change once.
THEOREM SettersAreAtomic == SetterSpec => SetsAtomically
<1> QED
  BY RegisterStarts, SetterInvInit, SetterInvStep, RegisterSteps, PTL
     DEF SetterSpec, SetsAtomically, Register!RegisterSpec

------------------------------------------------------------------------------
(***************************************************************************)
(* ClockOfItsPass and PicturesInOrder for streams and decoders of any      *)
(* size.                                                                   *)
(*                                                                         *)
(* The clock: whatever the decoder holds is of the pass that is being      *)
(* read, and so is the origin of the clock.  The order: the decoder holds  *)
(* pictures in the order of the stream, all after the last one shown, and  *)
(* none is ready when a packet is read, so that no packet is refused and   *)
(* sent twice.                                                             *)
(***************************************************************************)

Picture == [pass : Nat, number : Nat]

\* Pictures of one pass, numbered upwards from above low to high.
Ordered(s, pass, low, high) ==
    /\ low <= high
    /\ \A i \in 1 .. Len(s) : s[i].pass = pass /\ low < s[i].number /\ s[i].number <= high
    /\ \A i, j \in 1 .. Len(s) : i < j => s[i].number < s[j].number

\* t is s with n pictures of the packet at place p behind it.
Follows(t, s, p, n) ==
    /\ t \in Seq(Picture) /\ Len(t) = Len(s) + n
    /\ \A i \in 1 .. Len(s) : t[i] = s[i]
    /\ \A i \in Len(s) + 1 .. Len(t) :
         t[i].pass = p.pass /\ t[i].number = 2 * p.number + (i - Len(s))

LEMMA MorePictures ==
    ASSUME NEW s \in Seq(Picture), NEW p \in Picture, NEW n \in 0 .. 2
    PROVE  Follows(s \o Pictures(p, n), s, p, n)
<1> DEFINE q == Pictures(p, n)
<1>1. q \in Seq(Picture) /\ Len(q) = n
  BY DEF Pictures, Picture
<1>2. ASSUME NEW i \in 1 .. n
      PROVE  q[i].pass = p.pass /\ q[i].number = 2 * p.number + i
  BY DEF Pictures
<1> QED
  BY <1>1, <1>2 DEF Follows

\* Pictures of a pass stay so when a packet of the pass is decoded, whichever.
LEMMA MoreOfPass ==
    ASSUME NEW s \in Seq(Picture), NEW p \in Picture, NEW n \in 0 .. 2,
           NEW t, Follows(t, s, p, n),
           \A i \in 1 .. Len(s) : s[i].pass = p.pass
    PROVE  \A i \in 1 .. Len(t) : t[i].pass = p.pass
<1>1. Len(s) \in Nat /\ Len(t) = Len(s) + n
  BY DEF Follows
<1>2. \A i \in Len(s) + 1 .. Len(t) : t[i].pass = p.pass
  BY DEF Follows
<1>3. \A i \in 1 .. Len(s) : t[i].pass = p.pass
  BY DEF Follows
<1> QED
  BY <1>1, <1>2, <1>3

\* They stay in order when the packet is the next one.
LEMMA MoreInOrder ==
    ASSUME NEW s \in Seq(Picture), NEW p \in Picture, NEW n \in 0 .. 2, NEW low \in Nat,
           NEW t, Follows(t, s, p, n),
           Ordered(s, p.pass, low, 2 * p.number)
    PROVE  Ordered(t, p.pass, low, 2 * p.number + 2)
<1> DEFINE m == Len(s)
<1>0. p.number \in Nat /\ m \in Nat /\ \A i \in 1 .. m : s[i].number \in Nat
  <2>1. p.number \in Nat
    BY DEF Picture
  <2>2. m \in Nat /\ \A i \in 1 .. m : s[i] \in Picture
    OBVIOUS
  <2> QED
    BY <2>1, <2>2 DEF Picture
<1> DEFINE h == 2 * p.number
<1>9. h \in Nat
  <2>1. \A k \in Nat : 2 * k \in Nat
    OBVIOUS
  <2> QED BY <1>0, <2>1
<1>1. Len(t) = m + n /\ \A i \in 1 .. m : t[i].number = s[i].number
  BY DEF Follows
<1>2. \A i \in m + 1 .. Len(t) : t[i].number = h + (i - m)
  BY DEF Follows
<1>3. low <= h
  BY DEF Ordered
<1>4. \A i \in 1 .. m : low < s[i].number /\ s[i].number <= h
  BY DEF Ordered
<1>5. \A i, j \in 1 .. m : i < j => s[i].number < s[j].number
  BY DEF Ordered
<1>6. \A i \in 1 .. Len(t) : t[i].pass = p.pass
  BY MoreOfPass DEF Ordered
<1> HIDE DEF m, h
<1>7. ASSUME NEW i \in 1 .. Len(t)
      PROVE  \/ i \in 1 .. m /\ t[i].number = s[i].number
             \/ i \in m + 1 .. Len(t) /\ i - m \in 1 .. 2 /\ t[i].number = h + (i - m)
  <2>1. \A k \in Nat : \A l \in 0 .. 2 : \A j \in 1 .. k + l :
           j \in 1 .. k \/ (j \in k + 1 .. k + l /\ j - k \in 1 .. 2)
    OBVIOUS
  <2>2. i \in 1 .. m \/ (i \in m + 1 .. Len(t) /\ i - m \in 1 .. 2)
    BY <1>0, <1>1, <2>1
  <2> QED BY <1>1, <1>2, <2>2
<1>8. ASSUME NEW i \in 1 .. Len(t)
      PROVE  low < t[i].number /\ t[i].number <= h + 2
  <2>1. \A a, b \in Nat : a <= b => a <= b + 2 /\ \A k \in 1 .. 2 : a < b + k /\ b + k <= b + 2
    OBVIOUS
  <2>2. CASE i \in 1 .. m /\ t[i].number = s[i].number
    BY <1>0, <1>4, <1>9, <2>1, <2>2
  <2>3. CASE i - m \in 1 .. 2 /\ t[i].number = h + (i - m)
    BY <1>3, <1>9, <2>1, <2>3
  <2> QED BY <1>7, <2>2, <2>3
<1>10. ASSUME NEW i \in 1 .. Len(t), NEW j \in 1 .. Len(t), i < j
       PROVE  t[i].number < t[j].number
  <2>1. CASE i \in 1 .. m /\ t[i].number = s[i].number /\ j \in 1 .. m /\ t[j].number = s[j].number
    BY <1>5, <1>10, <2>1
  <2>2. CASE i \in 1 .. m /\ t[i].number = s[i].number /\ j - m \in 1 .. 2 /\ t[j].number = h + (j - m)
    <3>1. \A a, b \in Nat : \A k \in 1 .. 2 : a <= b => a < b + k
      OBVIOUS
    <3> QED BY <1>0, <1>4, <1>9, <2>2, <3>1
  <2>3. CASE i \in m + 1 .. Len(t) /\ j \in 1 .. m
    <3>1. \A k, l \in Nat : \A x \in k + 1 .. l : \A y \in 1 .. k : ~(x < y)
      OBVIOUS
    <3> QED BY <1>0, <1>1, <1>10, <2>3, <3>1
  <2>4. CASE /\ i \in m + 1 .. Len(t) /\ t[i].number = h + (i - m)
             /\ j \in m + 1 .. Len(t) /\ t[j].number = h + (j - m)
    <3>1. \A k, l, b \in Nat : \A x, y \in k + 1 .. l : x < y => b + (x - k) < b + (y - k)
      OBVIOUS
    <3>2. Len(t) \in Nat
      BY <1>0, <1>1
    <3> QED BY <1>0, <1>9, <1>10, <2>4, <3>1, <3>2
  <2> QED
    BY <1>7, <2>1, <2>2, <2>3, <2>4
<1>11. low <= h + 2
  BY <1>3, <1>9
<1> QED
  BY <1>6, <1>8, <1>10, <1>11 DEF Ordered, h

\* The first picture taken away.
LEMMA FewerPictures ==
    ASSUME NEW s \in Seq(Picture), s # <<>>
    PROVE  /\ Tail(s) \in Seq(Picture) /\ Len(Tail(s)) = Len(s) - 1 /\ Len(s) \in Nat \ {0}
           /\ Head(s) = s[1] /\ s[1] \in Picture
           /\ \A i \in 1 .. Len(Tail(s)) : Tail(s)[i] = s[i + 1]
OBVIOUS

LEMMA FewerInOrder ==
    ASSUME NEW s \in Seq(Picture), s # <<>>, NEW pass, NEW low \in Nat, NEW high \in Nat,
           Ordered(s, pass, low, high)
    PROVE  Ordered(Tail(s), pass, Head(s).number, high)
<1> DEFINE t == Tail(s)
<1>1. /\ Len(t) = Len(s) - 1 /\ Len(s) \in Nat \ {0} /\ Head(s) = s[1]
      /\ \A i \in 1 .. Len(t) : t[i] = s[i + 1]
  BY FewerPictures
<1>2. \A i \in 1 .. Len(t) : i + 1 \in 1 .. Len(s) /\ 1 < i + 1
  BY <1>1
<1>3. 1 \in 1 .. Len(s)
  BY <1>1
<1>4. Head(s).number <= high
  BY <1>1, <1>3 DEF Ordered
<1>5. \A i \in 1 .. Len(t) :
        t[i].pass = pass /\ Head(s).number < t[i].number /\ t[i].number <= high
  BY <1>1, <1>2, <1>3 DEF Ordered
<1>6. \A i, j \in 1 .. Len(t) : i < j => t[i].number < t[j].number
  BY <1>1, <1>2 DEF Ordered
<1> QED
  BY <1>4, <1>5, <1>6 DEF Ordered

LEMMA NoneInOrder ==
    ASSUME NEW pass, NEW low \in Nat, NEW high \in Nat, low <= high
    PROVE  Ordered(<<>>, pass, low, high)
BY DEF Ordered

LEMMA WiderOrder ==
    ASSUME NEW s \in Seq(Picture), NEW pass, NEW low \in Nat, NEW high \in Nat,
           NEW higher \in Nat, high <= higher, Ordered(s, pass, low, high)
    PROVE  Ordered(s, pass, low, higher)
<1>1. \A i \in 1 .. Len(s) : s[i] \in Picture
  OBVIOUS
<1>2. \A i \in 1 .. Len(s) : s[i].number \in Nat
  BY <1>1 DEF Picture
<1> QED
  BY <1>2 DEF Ordered
------------------------------------------------------------------------------
CaptureTypes ==
    /\ place \in Picture
    /\ decoder \in Seq(Picture)
    /\ shown \in [pass : Nat, number : Nat, origin : Nat]
    /\ refused \in BOOLEAN /\ spoiled \in BOOLEAN /\ stopAsked \in BOOLEAN

OnePass ==
    /\ place.pass # Unset
    /\ origin \in {Unset, place.pass}
    /\ \A i \in 1 .. Len(decoder) : decoder[i].pass = place.pass
    /\ shown.origin = shown.pass

\* The number of the last picture shown in this pass, and one no picture exceeds.
Low == IF shown.pass = place.pass THEN shown.number ELSE 0
High == 2 * place.number + 2

InOrder ==
    /\ shown.pass <= place.pass
    /\ Ordered(decoder, place.pass, Low, High)
    /\ ~refused
    /\ stage \in {"open", "read"} => ~Ready
    /\ stage = "test" => ~Ready \/ stopAsked

CaptureInv == CaptureTypes /\ OnePass /\ (~spoiled => InOrder)

\* What the types say of numbers.
LEMMA CaptureNumbers ==
    ASSUME CaptureTypes
    PROVE  /\ place.pass \in Nat /\ place.number \in Nat
           /\ shown.pass \in Nat /\ shown.number \in Nat /\ Low \in Nat /\ High \in Nat
           /\ Len(decoder) \in Nat /\ Delay \in Nat
BY CaptureAssumption DEF CaptureTypes, Picture, Low, High

LEMMA CaptureInvInit == CaptureInit => CaptureInv
<1> SUFFICES ASSUME CaptureInit PROVE CaptureInv
  OBVIOUS
<1>1. CaptureTypes
  <2>1. place \in Picture
    BY DEF CaptureInit, Picture
  <2>2. shown \in [pass : Nat, number : Nat, origin : Nat]
    BY DEF CaptureInit, Nothing, Unset
  <2>3. decoder \in Seq(Picture)
    BY DEF CaptureInit
  <2>4. refused \in BOOLEAN /\ spoiled \in BOOLEAN /\ stopAsked \in BOOLEAN
    BY Zenon DEF CaptureInit
  <2> QED
    BY <2>1, <2>2, <2>3, <2>4 DEF CaptureTypes
<1>2. OnePass
  BY DEF CaptureInit, OnePass, Nothing, Unset
<1>3. Low = 0 /\ High = 2 /\ shown.pass <= place.pass
  BY DEF CaptureInit, Low, High, Nothing
<1>4. Ordered(<<>>, place.pass, 0, 2)
  BY NoneInOrder
<1>5. ~Ready
  BY CaptureAssumption DEF CaptureInit, Ready
<1>6. InOrder
  BY <1>3, <1>4, <1>5 DEF CaptureInit, InOrder
<1> QED
  BY <1>1, <1>2, <1>6 DEF CaptureInv

\* A step that leaves the pictures alone, with the tests and reads as they must be.
LEMMA Undisturbed ==
    ASSUME CaptureInv, UNCHANGED <<place, refused, decoder, origin, shown, spoiled>>,
           stopAsked' \in BOOLEAN, stopAsked => stopAsked',
           ~spoiled /\ stage' \in {"open", "read"} => ~Ready,
           ~spoiled /\ stage' = "test" => ~Ready \/ stopAsked'
    PROVE  CaptureInv'
<1>1. Low' = Low /\ High' = High /\ Ready' = Ready
  BY DEF Low, High, Ready
<1>2. CaptureTypes'
  BY DEF CaptureInv, CaptureTypes
<1>3. OnePass'
  BY DEF CaptureInv, OnePass
<1>4. ~spoiled => InOrder'
  BY <1>1 DEF CaptureInv, InOrder
<1> QED
  BY <1>2, <1>3, <1>4 DEF CaptureInv

\* A packet that the decoder takes.
LEMMA PacketTaken ==
    ASSUME CaptureInv, stage = "read", NEW n \in 0 .. 2,
           place' = [pass |-> place.pass, number |-> place.number + 1],
           Follows(decoder', decoder, place', n), refused' = FALSE, stage' = "receive",
           UNCHANGED <<origin, shown, spoiled, stopAsked>>
    PROVE  CaptureInv'
<1>1. CaptureTypes /\ OnePass
  BY DEF CaptureInv
<1>2. place' \in Picture /\ place'.pass = place.pass /\ place'.number = place.number + 1
  BY <1>1, CaptureNumbers DEF Picture
<1>3. decoder \in Seq(Picture)
  BY <1>1 DEF CaptureTypes
<1>4. CaptureTypes'
  BY <1>1, <1>2 DEF CaptureTypes, Follows
<1>5. \A i \in 1 .. Len(decoder') : decoder'[i].pass = place'.pass
  BY <1>1, <1>2, <1>3, MoreOfPass DEF OnePass
<1>6. OnePass'
  BY <1>1, <1>2, <1>5 DEF OnePass
<1>7. ASSUME ~spoiled
      PROVE  InOrder'
  <2>1. InOrder
    BY <1>7 DEF CaptureInv
  <2>2. High = 2 * place'.number /\ High' = 2 * place'.number + 2 /\ Low' = Low
    BY <1>1, <1>2, CaptureNumbers DEF High, Low
  <2>3. Ordered(decoder, place'.pass, Low, 2 * place'.number)
    BY <1>2, <2>1, <2>2 DEF InOrder
  <2>4. Ordered(decoder', place'.pass, Low, 2 * place'.number + 2)
    BY <1>1, <1>2, <1>3, <2>3, CaptureNumbers, MoreInOrder
  <2> QED
    BY <1>2, <2>1, <2>2, <2>4 DEF InOrder
<1> QED
  BY <1>4, <1>6, <1>7 DEF CaptureInv

\* A packet that is refused: only where a picture has failed to decode before.
LEMMA PacketRefused ==
    ASSUME CaptureInv, stage = "read", Ready,
           place' = [pass |-> place.pass, number |-> place.number + 1],
           refused' = TRUE, stage' = "receive",
           UNCHANGED <<decoder, origin, shown, spoiled, stopAsked>>
    PROVE  CaptureInv'
<1>1. CaptureTypes /\ OnePass /\ spoiled
  BY DEF CaptureInv, InOrder
<1>2. place' \in Picture /\ place'.pass = place.pass
  BY <1>1, CaptureNumbers DEF Picture
<1>3. CaptureTypes'
  BY <1>1, <1>2 DEF CaptureTypes
<1>4. OnePass'
  BY <1>1, <1>2 DEF OnePass
<1> QED
  BY <1>1, <1>3, <1>4 DEF CaptureInv

\* A packet that is passed over.
LEMMA PacketPassedOver ==
    ASSUME CaptureInv, stage = "read", stage' = "test",
           place' = [pass |-> place.pass, number |-> place.number + 1],
           UNCHANGED <<decoder, refused, origin, shown, spoiled, stopAsked>>
    PROVE  CaptureInv'
<1>1. CaptureTypes /\ OnePass
  BY DEF CaptureInv
<1>2. place' \in Picture /\ place'.pass = place.pass /\ place'.number = place.number + 1
  BY <1>1, CaptureNumbers DEF Picture
<1>3. CaptureTypes'
  BY <1>1, <1>2 DEF CaptureTypes
<1>4. OnePass'
  BY <1>1, <1>2 DEF OnePass
<1>5. ASSUME ~spoiled
      PROVE  InOrder'
  <2>1. InOrder
    BY <1>5 DEF CaptureInv
  <2>2. Low' = Low /\ High' \in Nat /\ High <= High' /\ Ready' = Ready
    BY <1>1, <1>2, CaptureNumbers DEF Low, High, Ready
  <2>3. decoder \in Seq(Picture)
    BY <1>1 DEF CaptureTypes
  <2>4. Ordered(decoder, place.pass, Low, High')
    BY <1>1, <2>1, <2>2, <2>3, CaptureNumbers, WiderOrder DEF InOrder
  <2> QED
    BY <1>2, <2>1, <2>2, <2>4 DEF InOrder
<1> QED
  BY <1>3, <1>4, <1>5 DEF CaptureInv

\* Nothing is left of a pass that has ended.
LEMMA PassStarts ==
    ASSUME CaptureInv, stage' = "test",
           place' = [pass |-> place.pass + 1, number |-> 0], decoder' = <<>>, origin' = Unset,
           UNCHANGED <<refused, shown, spoiled, stopAsked>>
    PROVE  CaptureInv'
<1>1. CaptureTypes /\ OnePass
  BY DEF CaptureInv
<1>2. place' \in Picture /\ place'.pass = place.pass + 1 /\ place'.number = 0
  BY <1>1, CaptureNumbers DEF Picture
<1>3. CaptureTypes'
  BY <1>1, <1>2 DEF CaptureTypes
<1>4. OnePass'
  BY <1>1, <1>2, CaptureNumbers DEF OnePass, Unset
<1>5. ASSUME ~spoiled
      PROVE  InOrder'
  <2>1. InOrder
    BY <1>5 DEF CaptureInv
  <2>2. Low' = 0 /\ High' = 2 /\ shown'.pass <= place'.pass
    BY <1>1, <1>2, <2>1, CaptureNumbers DEF Low, High, InOrder
  <2>3. Ordered(<<>>, place'.pass, 0, 2)
    BY NoneInOrder
  <2>4. ~Ready'
    BY CaptureAssumption DEF Ready
  <2> QED
    BY <2>1, <2>2, <2>3, <2>4 DEF InOrder
<1> QED
  BY <1>3, <1>4, <1>5 DEF CaptureInv

\* What is in the decoder may be thrown away.
LEMMA DecoderEmptied ==
    ASSUME CaptureInv, stage' = "free", decoder' = <<>>,
           UNCHANGED <<place, refused, origin, shown, spoiled, stopAsked>>
    PROVE  CaptureInv'
<1>1. CaptureTypes /\ OnePass
  BY DEF CaptureInv
<1>2. CaptureTypes'
  BY <1>1 DEF CaptureTypes
<1>3. OnePass'
  BY <1>1 DEF OnePass
<1>4. ASSUME ~spoiled
      PROVE  InOrder'
  <2>1. InOrder /\ Low' = Low /\ High' = High
    BY <1>4 DEF CaptureInv, Low, High
  <2>2. Ordered(<<>>, place.pass, Low, High)
    BY <1>1, <2>1, CaptureNumbers, NoneInOrder DEF InOrder, Ordered
  <2> QED
    BY <2>1, <2>2 DEF InOrder
<1> QED
  BY <1>2, <1>3, <1>4 DEF CaptureInv

\* The first picture is shown: its pass is the clock's, and the next ones come after it.
LEMMA PictureShown ==
    ASSUME CaptureInv, ReceivePicture
    PROVE  /\ CaptureInv'
           /\ ~spoiled => \/ shown'.pass > shown.pass
                          \/ shown'.pass = shown.pass /\ shown'.number > shown.number
<1>1. CaptureTypes /\ OnePass
  BY DEF CaptureInv
<1>2. decoder \in Seq(Picture) /\ decoder # <<>> /\ 1 \in 1 .. Len(decoder)
  BY <1>1, CaptureNumbers DEF ReceivePicture, Ready, CaptureTypes
<1>3. /\ decoder' = Tail(decoder) /\ decoder' \in Seq(Picture)
      /\ Head(decoder) = decoder[1] /\ Head(decoder) \in Picture
      /\ Len(decoder') = Len(decoder) - 1
      /\ \A i \in 1 .. Len(decoder') : decoder'[i] = decoder[i + 1]
  BY <1>2, FewerPictures DEF ReceivePicture
<1>4. Head(decoder).pass = place.pass /\ Head(decoder).number \in Nat
  BY <1>1, <1>2, <1>3 DEF OnePass, Picture
<1>5. origin' = place.pass
  BY <1>1, <1>4 DEF OnePass, ReceivePicture
<1>6. shown' = [pass |-> place.pass, number |-> Head(decoder).number, origin |-> place.pass]
  BY <1>4, <1>5 DEF ReceivePicture
<1>7. CaptureTypes'
  BY <1>1, <1>3, <1>4, <1>6, CaptureNumbers DEF CaptureTypes, ReceivePicture
<1>8. OnePass'
  <2>1. \A i \in 1 .. Len(decoder') : i + 1 \in 1 .. Len(decoder)
    BY <1>1, <1>3, CaptureNumbers
  <2> QED
    BY <1>1, <1>3, <1>5, <1>6, <2>1 DEF OnePass, ReceivePicture
<1>9. ASSUME ~spoiled
      PROVE  InOrder'
  <2>1. InOrder
    BY <1>9 DEF CaptureInv
  <2>2. Low' = Head(decoder).number /\ High' = High
    BY <1>6 DEF Low, High, ReceivePicture
  <2>3. Ordered(decoder', place.pass, Head(decoder).number, High)
    BY <1>1, <1>2, <1>3, <2>1, CaptureNumbers, FewerInOrder DEF InOrder
  <2> QED
    BY <1>1, <1>6, <2>1, <2>2, <2>3, CaptureNumbers DEF InOrder, ReceivePicture
<1>10. ASSUME ~spoiled
       PROVE  \/ shown'.pass > shown.pass
              \/ shown'.pass = shown.pass /\ shown'.number > shown.number
  <2>1. shown.pass <= place.pass /\ Low < Head(decoder).number
    BY <1>2, <1>3, <1>10 DEF CaptureInv, InOrder, Ordered
  <2> QED
    BY <1>1, <1>4, <1>6, <2>1, CaptureNumbers DEF Low
<1> QED
  BY <1>7, <1>8, <1>9, <1>10 DEF CaptureInv, ReceivePicture

\* After a picture has failed to decode, only the pass is known.
LEMMA OnlyThePass ==
    ASSUME CaptureInv, spoiled', decoder' \in Seq(Picture),
           \A i \in 1 .. Len(decoder') : decoder'[i].pass = place.pass,
           UNCHANGED <<place, refused, origin, shown, stopAsked>>, spoiled' \in BOOLEAN
    PROVE  CaptureInv'
BY DEF CaptureInv, CaptureTypes, OnePass

LEMMA PictureFails ==
    ASSUME CaptureInv, DecodingFails
    PROVE  CaptureInv'
<1>1. CaptureTypes /\ OnePass
  BY DEF CaptureInv
<1>2. decoder' \in Seq(Picture) /\ \A i \in 1 .. Len(decoder') : decoder'[i].pass = place.pass
  <2>1. CASE Ready
    <3>1. decoder \in Seq(Picture) /\ decoder # <<>>
      BY <1>1, <2>1, CaptureNumbers DEF Ready, CaptureTypes
    <3>2. /\ decoder' = Tail(decoder) /\ decoder' \in Seq(Picture)
          /\ Len(decoder') = Len(decoder) - 1
          /\ \A i \in 1 .. Len(decoder') : decoder'[i] = decoder[i + 1]
      BY <2>1, <3>1, FewerPictures DEF DecodingFails
    <3>3. \A i \in 1 .. Len(decoder') : i + 1 \in 1 .. Len(decoder)
      BY <1>1, <3>2, CaptureNumbers
    <3> QED
      BY <1>1, <3>2, <3>3 DEF OnePass
  <2>2. CASE ~Ready
    BY <1>1, <2>2 DEF DecodingFails, CaptureTypes, OnePass
  <2> QED
    BY <2>1, <2>2
<1> QED
  BY <1>2, OnlyThePass DEF DecodingFails

LEMMA NothingReady ==
    ASSUME CaptureInv, ReceiveNone
    PROVE  CaptureInv'
<1>1. CaptureTypes /\ OnePass
  BY DEF CaptureInv
<1>2. CASE refused
  <2>1. spoiled /\ spoiled' = spoiled
    BY <1>2 DEF CaptureInv, InOrder, ReceiveNone
  <2>2. PICK n \in 0 .. 2 : decoder' = decoder \o Pictures(place, n)
    BY <1>2 DEF ReceiveNone
  <2>3. decoder \in Seq(Picture) /\ place \in Picture
    BY <1>1 DEF CaptureTypes
  <2>4. Follows(decoder', decoder, place, n)
    BY <2>2, <2>3, MorePictures
  <2> HIDE <2>2
  <2>5. decoder' \in Seq(Picture)
    BY <2>4 DEF Follows
  <2>6. \A i \in 1 .. Len(decoder') : decoder'[i].pass = place.pass
    BY <1>1, <2>3, <2>4, MoreOfPass DEF OnePass
  <2> QED
    BY <1>1, <2>1, <2>5, <2>6, OnlyThePass DEF ReceiveNone, CaptureTypes
<1>3. CASE ~refused
  BY <1>1, <1>3, Undisturbed DEF ReceiveNone, CaptureTypes
<1> QED
  BY <1>2, <1>3

\* Of all the steps, only receiving a picture shows one.
LEMMA CaptureInvStep ==
    ASSUME CaptureInv, [CaptureNext]_captureVars
    PROVE  /\ CaptureInv'
           /\ ~spoiled /\ shown' # shown =>
                \/ shown'.pass > shown.pass
                \/ shown'.pass = shown.pass /\ shown'.number > shown.number
<1>1. CaptureTypes
  BY DEF CaptureInv
<1>2. /\ [place EXCEPT !.number = @ + 1] = [pass |-> place.pass, number |-> place.number + 1]
      /\ place \in Picture
  BY <1>1 DEF CaptureTypes, Picture
<1>3. stopAsked \in BOOLEAN
  BY <1>1 DEF CaptureTypes
<1>4. /\ ~spoiled /\ stage \in {"open", "read"} => ~Ready
      /\ ~spoiled /\ stage = "test" => ~Ready \/ stopAsked
  BY DEF CaptureInv, InOrder
<1>5. ASSUME Connect \/ Open \/ OpenFails \/ Free \/ TestStop \/ ReadInterrupted
             \/ LeaveInner \/ Emit \/ SeekFails \/ ReadError
      PROVE  CaptureInv' /\ shown' = shown
  <2>1. /\ UNCHANGED <<place, refused, decoder, origin, shown, spoiled, stopAsked>>
        /\ ~spoiled /\ stage' \in {"open", "read"} => ~Ready
        /\ ~spoiled /\ stage' = "test" => ~Ready \/ stopAsked
    BY <1>4, <1>5 DEF Connect, Connecting, Open, OpenFails, Free, TestStop, ReadInterrupted,
       LeaveInner, Emit, SeekFails, ReadError
  <2> QED
    BY <1>3, <2>1, Undisturbed
<1>6. CASE ReceivePicture
  BY <1>6, PictureShown
<1>7. ASSUME DecodingFails
      PROVE  CaptureInv' /\ shown' = shown
  BY <1>7, PictureFails DEF DecodingFails
<1>8. ASSUME ReceiveNone
      PROVE  CaptureInv' /\ shown' = shown
  BY <1>8, NothingReady DEF ReceiveNone
<1>9. ASSUME Drain
      PROVE  CaptureInv' /\ shown' = shown
  BY <1>9, DecoderEmptied DEF Drain
<1>10. ASSUME ReadPacket
       PROVE  CaptureInv' /\ shown' = shown
  <2>1. place' = [pass |-> place.pass, number |-> place.number + 1] /\ place' \in Picture
    BY <1>1, <1>2, <1>10, CaptureNumbers DEF ReadPacket, Picture
  <2>2. decoder \in Seq(Picture)
    BY <1>1 DEF CaptureTypes
  <2>3. CASE Ready /\ refused' = TRUE /\ UNCHANGED decoder
    BY <1>10, <2>1, <2>3, PacketRefused DEF ReadPacket
  <2>4. ASSUME NEW n \in 0 .. 2, decoder' = decoder \o Pictures(place', n), refused' = FALSE
        PROVE  CaptureInv'
    <3>1. Follows(decoder', decoder, place', n)
      BY <2>1, <2>2, <2>4, MorePictures
    <3>2. stage = "read" /\ stage' = "receive" /\ UNCHANGED <<origin, shown, spoiled, stopAsked>>
      BY <1>10 DEF ReadPacket
    <3>3. refused' = FALSE
      BY <2>4
    <3> HIDE <2>4
    <3> QED
      BY <2>1, <3>1, <3>2, <3>3, PacketTaken
  <2> QED
    BY <1>10, <2>3, <2>4 DEF ReadPacket
<1>11. ASSUME PassOver
       PROVE  CaptureInv' /\ shown' = shown
  <2>1. CASE place' = place
    BY <1>3, <1>4, <1>11, <2>1, Undisturbed DEF PassOver
  <2>2. CASE place' = [pass |-> place.pass, number |-> place.number + 1]
    BY <1>11, <2>2, PacketPassedOver DEF PassOver
  <2> QED
    BY <1>2, <1>11, <2>1, <2>2 DEF PassOver
<1>12. ASSUME StartAgain
       PROVE  CaptureInv' /\ shown' = shown
  BY <1>12, PassStarts DEF StartAgain
<1>13. ASSUME TakeFromQueue \/ AskToStop \/ UNCHANGED captureVars
       PROVE  CaptureInv' /\ shown' = shown
  <2>1. UNCHANGED <<stage, place, refused, decoder, origin, shown, spoiled>>
    BY <1>13 DEF TakeFromQueue, AskToStop, captureVars
  <2>2. stopAsked' = stopAsked \/ stopAsked' = TRUE
    BY <1>13 DEF TakeFromQueue, AskToStop, captureVars
  <2>3. stopAsked' \in BOOLEAN /\ (stopAsked => stopAsked')
    BY <1>3, <2>2, Zenon
  <2>4. stage' = stage /\ Ready' = Ready
    BY <2>1 DEF Ready
  <2>5. /\ ~spoiled /\ stage' \in {"open", "read"} => ~Ready
        /\ ~spoiled /\ stage' = "test" => ~Ready \/ stopAsked'
    BY <1>4, <2>3, <2>4
  <2> QED
    BY <2>1, <2>3, <2>5, Undisturbed
<1> QED
  BY <1>5, <1>6, <1>7, <1>8, <1>9, <1>10, <1>11, <1>12, <1>13
     DEF CaptureNext, OwnStep, CameraAnswers

\* The clock of every picture shown was started in the picture's own pass.
THEOREM ClockNeverMixed == CaptureSpec => []ClockOfItsPass
<1>1. CaptureInv => ClockOfItsPass
  BY DEF CaptureInv, OnePass, ClockOfItsPass
<1> QED
  BY <1>1, CaptureInvInit, CaptureInvStep, PTL DEF CaptureSpec

\* Until a picture fails to decode, pictures are shown in the order of the stream.
THEOREM PicturesStayInOrder == CaptureSpec => PicturesInOrder
<1>1. CaptureInv /\ [CaptureNext]_captureVars =>
        [~spoiled /\ shown' # shown =>
           \/ shown'.pass > shown.pass
           \/ shown'.pass = shown.pass /\ shown'.number > shown.number]_captureVars
  BY CaptureInvStep
<1>2. CaptureInv /\ [CaptureNext]_captureVars => CaptureInv'
  BY CaptureInvStep
<1> QED
  BY <1>1, <1>2, CaptureInvInit, PTL DEF CaptureSpec, PicturesInOrder

------------------------------------------------------------------------------
(***************************************************************************)
(* What is opened is opened in the order of Resources, so that the number  *)
(* of things held says which.                                              *)
(***************************************************************************)

Opened(n) == { Resources[i] : i \in 1 .. n }

InLoop == {"test", "read", "receive", "emit", "leave"}

HoldsInv ==
    /\ place \in [pass : 1 .. MaxPasses, number : 0 .. Packets]
    /\ queued \in 0 .. FrameRoom
    /\ \E n \in 0 .. 7 : held = Opened(n) /\ (stage = "open" => n < 7)
    /\ stage \in InLoop => held = Opened(7)
    /\ stage = "done" => held = {}

LEMMA ResourcesApart ==
    /\ Len(Resources) = 7 /\ DOMAIN Resources = 1 .. 7
    /\ \A i, j \in 1 .. 7 : i # j => Resources[i] # Resources[j]
BY DEF Resources

LEMMA NextOpened ==
    /\ Opened(0) = {} /\ Opened(1) = {Resources[1]}
    /\ \A n \in 0 .. 6 : /\ Opened(n + 1) = Opened(n) \cup {Resources[n + 1]}
                        /\ Resources[n + 1] \notin Opened(n)
<1>1. ASSUME NEW n \in 0 .. 6
      PROVE  Opened(n + 1) = Opened(n) \cup {Resources[n + 1]} /\ Resources[n + 1] \notin Opened(n)
  <2>1. 1 .. n + 1 = (1 .. n) \cup {n + 1} /\ n + 1 \in 1 .. 7 /\ n + 1 \notin 1 .. n
    OBVIOUS
  <2>2. 1 .. n \subseteq 1 .. 7
    OBVIOUS
  <2> QED BY <2>1, <2>2, ResourcesApart DEF Opened
<1>2. Opened(0) = {}
  BY DEF Opened
<1> QED BY <1>1, <1>2

LEMMA OpenedCount == \A n \in 0 .. 7 : IsFiniteSet(Opened(n)) /\ Cardinality(Opened(n)) = n
<1> DEFINE Good(n) == IsFiniteSet(Opened(n)) /\ Cardinality(Opened(n)) = n
<1>1. Good(0)
  BY NextOpened, FS_EmptySet
<1>2. ASSUME NEW n \in 0 .. 6, Good(n) PROVE Good(n + 1)
  <2>1. /\ IsFiniteSet(Opened(n)) /\ Cardinality(Opened(n)) = n
        /\ Opened(n + 1) = Opened(n) \cup {Resources[n + 1]}
        /\ Resources[n + 1] \notin Opened(n)
    BY <1>2, NextOpened
  <2>2. /\ IsFiniteSet(Opened(n) \cup {Resources[n + 1]})
        /\ Cardinality(Opened(n) \cup {Resources[n + 1]}) = Cardinality(Opened(n)) + 1
    BY <2>1, FS_AddElement
  <2> QED BY <2>1, <2>2
<1> HIDE DEF Good
<1>3. Good(1) /\ Good(2) /\ Good(3) /\ Good(4) /\ Good(5) /\ Good(6) /\ Good(7)
  BY <1>1, <1>2
<1>4. \A n \in 0 .. 7 : Good(n)
  BY <1>1, <1>3
<1> QED BY <1>4 DEF Good

LEMMA HoldsInit == CaptureInit => HoldsInv
<1> SUFFICES ASSUME CaptureInit PROVE HoldsInv
  OBVIOUS
<1>1. place \in [pass : 1 .. MaxPasses, number : 0 .. Packets] /\ queued \in 0 .. FrameRoom
  BY CaptureAssumption DEF CaptureInit, CaptureAssumption
<1>2. held = Opened(0) /\ stage = "open"
  BY NextOpened DEF CaptureInit
<1> QED BY <1>1, <1>2 DEF HoldsInv, InLoop

LEMMA HoldsStep == HoldsInv /\ [CaptureNext]_captureVars => HoldsInv'
<1> SUFFICES ASSUME HoldsInv, [CaptureNext]_captureVars PROVE HoldsInv'
  OBVIOUS
<1>1. /\ Packets \in Nat /\ FrameRoom \in Nat /\ MaxPasses \in Nat
      /\ place \in [pass : 1 .. MaxPasses, number : 0 .. Packets]
      /\ place.pass \in 1 .. MaxPasses /\ place.number \in 0 .. Packets
      /\ queued \in 0 .. FrameRoom
  BY CaptureAssumption DEF CaptureAssumption, HoldsInv
<1>2. PICK n \in 0 .. 7 : held = Opened(n) /\ (stage = "open" => n < 7)
  BY DEF HoldsInv
<1>3. stage \in InLoop => held = Opened(7)
  BY DEF HoldsInv
<1>4. CASE Connect
  <2>1. UNCHANGED <<place, queued>> /\ stage' \in {"open", "free"}
    BY <1>4 DEF Connect, Connecting
  <2>2. held' = Opened(1) \/ (held' = held /\ stage' = "free")
    BY <1>4, NextOpened DEF Connect
  <2> QED BY <1>1, <1>2, <2>1, <2>2 DEF HoldsInv, InLoop
<1>5. CASE Open
  <2>1. UNCHANGED <<place, queued>> /\ stage = "open" /\ n \in 0 .. 6
    BY <1>2, <1>5 DEF Open
  <2>2. held' = Opened(n + 1)
    BY <1>2, <1>5, <2>1, NextOpened, OpenedCount DEF Open
  <2>3. Cardinality(held') = n + 1
    BY <2>1, <2>2, OpenedCount
  <2>4. stage' = IF n + 1 = 7 THEN "test" ELSE "open"
    BY <1>5, <2>1, <2>3, ResourcesApart DEF Open
  <2> QED BY <1>1, <2>1, <2>2, <2>4 DEF HoldsInv, InLoop
<1>6. CASE OpenFails \/ TestStop \/ ReadInterrupted \/ LeaveInner \/ SeekFails \/ ReadError
           \/ ReceivePicture \/ DecodingFails \/ ReceiveNone \/ Drain
  <2>1. UNCHANGED <<place, queued, held>>
    BY <1>6 DEF OpenFails, TestStop, ReadInterrupted, LeaveInner, SeekFails, ReadError,
       ReceivePicture, DecodingFails, ReceiveNone, Drain
  <2>2. /\ stage' \in InLoop \cup {"free", "aborted"}
        /\ stage' \in InLoop => stage \in InLoop
    BY <1>6 DEF OpenFails, TestStop, ReadInterrupted, LeaveInner, SeekFails, ReadError,
       ReceivePicture, DecodingFails, ReceiveNone, Drain, InLoop
  <2> QED BY <1>1, <1>2, <1>3, <2>1, <2>2 DEF HoldsInv, InLoop
<1>7. CASE Free
  <2>1. UNCHANGED <<place, queued>> /\ stage' = "done" /\ held' = Opened(0)
    BY <1>7, NextOpened DEF Free
  <2> QED BY <1>1, <2>1, NextOpened DEF HoldsInv, InLoop
<1>8. CASE Emit
  <2>1. UNCHANGED <<place, held>> /\ stage \in InLoop /\ stage' = "receive"
    BY <1>8 DEF Emit, InLoop
  <2>2. queued' \in 0 .. FrameRoom
    BY <1>1, <1>8 DEF Emit
  <2> QED BY <1>1, <1>2, <1>3, <2>1, <2>2 DEF HoldsInv, InLoop
<1>9. ASSUME ReadPacket \/ PassOver \/ StartAgain PROVE HoldsInv'
  <2>1. UNCHANGED <<held, queued>> /\ stage \in InLoop /\ stage' \in InLoop /\ stage' # "open"
    BY <1>9 DEF ReadPacket, PassOver, StartAgain, InLoop
  <2>2. place' \in [pass : 1 .. MaxPasses, number : 0 .. Packets]
    <3>1. CASE place' = place
      BY <1>1, <3>1
    <3>2. CASE place' = [place EXCEPT !.number = @ + 1] /\ place.number < Packets
      BY <1>1, <3>2
    <3>3. CASE place' = [pass |-> place.pass + 1, number |-> 0] /\ place.pass < MaxPasses
      BY <1>1, <3>3
    <3> QED BY <1>9, <3>1, <3>2, <3>3 DEF ReadPacket, PassOver, StartAgain
  <2> QED BY <1>1, <1>2, <1>3, <2>1, <2>2 DEF HoldsInv, InLoop
<1>10. CASE TakeFromQueue
  <2>1. UNCHANGED <<place, held, stage>> /\ queued' \in 0 .. FrameRoom
    BY <1>1, <1>10 DEF TakeFromQueue
  <2> QED BY <1>1, <2>1 DEF HoldsInv
<1>11. CASE AskToStop \/ UNCHANGED captureVars
  <2>1. UNCHANGED <<place, held, stage, queued>>
    BY <1>11 DEF AskToStop, captureVars
  <2> QED BY <2>1 DEF HoldsInv
<1> QED
  BY <1>4, <1>5, <1>6, <1>7, <1>8, <1>9, <1>10, <1>11 DEF CaptureNext, OwnStep, CameraAnswers

\* The loop runs with everything opened, and run() ends with everything freed, wherever
\* it was left.
THEOREM WhatIsOpenedIsFreed == CaptureSpec => []CaptureTypeOK
<1>1. HoldsInv => CaptureTypeOK
  <2> SUFFICES ASSUME HoldsInv PROVE CaptureTypeOK
    OBVIOUS
  <2>1. PICK n \in 0 .. 7 : held = Opened(n)
    BY DEF HoldsInv
  <2>2. held \subseteq { Resources[i] : i \in DOMAIN Resources }
    BY <2>1, ResourcesApart DEF Opened
  <2>3. stage \in InLoop => Cardinality(held) = Len(Resources)
    BY OpenedCount, ResourcesApart DEF HoldsInv
  <2> QED BY <2>2, <2>3 DEF HoldsInv, CaptureTypeOK, InLoop
<1> QED
  BY <1>1, HoldsInit, HoldsStep, PTL DEF CaptureSpec

------------------------------------------------------------------------------
(***************************************************************************)
(* No approach is missed and no stationary vehicle is detected twice, for  *)
(* any areas, minimum, waiting time and length of a day, however long the  *)
(* program runs and however often a midnight passes.                       *)
(*                                                                         *)
(* What makes this inductive is what the cache remembers of the sightings: *)
(* the area of the last trigger, or nothing, and then there is a reason.   *)
(***************************************************************************)

Sighting == [box : Box, time : Nat, deltas : BOOLEAN]

Entry == [known : BOOLEAN, lastSeenAt : Nat, lastTriggered : Nat \cup {None},
          maxObserved : Nat]

Approaches(s) ==
    \A i, j \in 1 .. Len(s) :
        (/\ i < j /\ s[i].deltas /\ WellSeen(s[j].box)
         /\ s[j].box.area * 10 >= s[i].box.area * 11)
        => \E m \in i + 1 .. j : s[m].deltas

\* Why a vehicle may trigger again after its sighting i: sighting m.
Reason(s, i, m) ==
    \/ s[m].box.area * 10 >= s[i].box.area * 11
    \/ s[m].box.area * 10 <= s[i].box.area * 8 /\ WellSeen(s[m].box)
    \/ s[m].time - s[m - 1].time > MaxLostWait

Sheds(s) ==
    \A i, j \in 1 .. Len(s) :
        i < j /\ s[i].deltas /\ s[j].deltas => \E m \in i + 1 .. j : Reason(s, i, m)

\* The entry h of a vehicle with the sightings s, at time t.
SeenLast(s, h, t) ==
    s # <<>> =>
        /\ s[Len(s)].time <= t
        /\ h.known => h.lastSeenAt = s[Len(s)].time % Day
        /\ ~h.known => t - s[Len(s)].time > MaxLostWait

Remembers(s, h) ==
    /\ ~h.known => h.lastTriggered = None
    /\ \A i \in 1 .. Len(s) : s[i].deltas =>
         \/ \E m \in i + 1 .. Len(s) : s[m].deltas
         \/ h.lastTriggered = s[i].box.area
         \/ /\ h.lastTriggered = None
            /\ ~h.known \/ \E m \in i + 1 .. Len(s) : Reason(s, i, m)

Fits(s, h, t) ==
    /\ s \in Seq(Sighting) /\ h \in Entry
    /\ SeenLast(s, h, t) /\ Remembers(s, h)
    /\ Approaches(s) /\ Sheds(s)

AreaInv ==
    /\ now \in Nat
    /\ cache \in [Trackers -> Entry] /\ sightings \in [Trackers -> Seq(Sighting)]
    /\ \A k \in Trackers : Fits(sightings[k], cache[k], now)

\* Times of day are no further apart than the times are.
LEMMA ClockRunsSlower ==
    ASSUME NEW a \in Nat, NEW b \in Nat, b <= a, NEW d \in Nat \ {0}
    PROVE  (a % d) - (b % d) <= a - b /\ a % d \in Nat
<1>1. a = d * (a \div d) + (a % d) /\ a % d \in 0 .. d - 1 /\ a \div d \in Int
  OBVIOUS
<1>2. b = d * (b \div d) + (b % d) /\ b % d \in 0 .. d - 1 /\ b \div d \in Int
  OBVIOUS
<1> DEFINE p == a \div d
           q == b \div d
<1>3. d * q <= d * p
  <2>1. CASE q <= p
    BY <1>1, <1>2, <2>1
  <2>2. CASE q >= p + 1
    BY <1>1, <1>2, <2>2
  <2> QED
    BY <1>1, <1>2, <2>1, <2>2
<1> QED
  BY <1>1, <1>2, <1>3

\* A time of day is a number.
LEMMA TimeOfDay == \A a \in Nat, d \in Nat \ {0} : a % d \in Nat
  OBVIOUS

\* What is in a sequence of sightings.
LEMMA Elements ==
    ASSUME NEW s \in Seq(Sighting)
    PROVE  /\ Len(s) \in Nat
           /\ \A i \in 1 .. Len(s) : /\ s[i] \in Sighting /\ s[i].box \in Box
                                    /\ s[i].time \in Nat /\ s[i].deltas \in BOOLEAN
           /\ s # <<>> => Len(s) \in 1 .. Len(s)
<1>1. Len(s) \in Nat /\ \A i \in 1 .. Len(s) : s[i] \in Sighting
  OBVIOUS
<1>2. s # <<>> => Len(s) \in 1 .. Len(s)
  OBVIOUS
<1> QED
  BY <1>1, <1>2 DEF Sighting

\* The constants are numbers.
LEMMA Constants ==
    /\ Areas \subseteq Nat /\ MinArea \in Nat /\ MaxLostWait \in Nat /\ Day \in Nat \ {0}
    /\ None \notin Nat
  BY EstimatorAssumption DEF None

\* The entry as RemoveLost leaves it.
Kept(h) ==
    IF h.known /\ SecsTo(h.lastSeenAt, Clock) > MaxLostWait THEN Unseen ELSE h

\* Removing lost vehicles forgets nothing that matters.
LEMMA KeptFits ==
    ASSUME NEW s, NEW h, now \in Nat, Fits(s, h, now)
    PROVE  Fits(s, Kept(h), now)
<1>1. CASE Kept(h) = h
  BY <1>1
<1>2. CASE h.known /\ SecsTo(h.lastSeenAt, Clock) > MaxLostWait
  <2>1. Kept(h) = Unseen
    BY <1>2 DEF Kept
  <2>2. Unseen \in Entry /\ Unseen.known = FALSE /\ Unseen.lastTriggered = None
    BY DEF Unseen, Entry
  <2>3. ASSUME s # <<>> PROVE now - s[Len(s)].time > MaxLostWait
    <3>1. /\ s[Len(s)].time \in Nat /\ s[Len(s)].time <= now
          /\ h.lastSeenAt = s[Len(s)].time % Day
      BY <1>2, <2>3, Elements DEF Fits, SeenLast
    <3>2. /\ (now % Day) - (s[Len(s)].time % Day) <= now - s[Len(s)].time
          /\ now % Day \in Nat
      BY <3>1, Constants, ClockRunsSlower
    <3>3. s[Len(s)].time % Day \in Nat
      BY <3>1, Constants, TimeOfDay
    <3>4. (now % Day) - (s[Len(s)].time % Day) > MaxLostWait
      BY <1>2, <3>1 DEF SecsTo, Clock
    <3> QED
      BY <3>1, <3>2, <3>3, <3>4, Constants
  <2>4. SeenLast(s, Unseen, now)
    BY <2>2, <2>3 DEF SeenLast, Fits
  <2>5. Remembers(s, Unseen)
    BY <2>2, Constants DEF Remembers, Fits
  <2> QED
    BY <2>1, <2>2, <2>4, <2>5 DEF Fits
<1> QED
  BY <1>1, <1>2 DEF Kept

\* Time passing changes nothing about the sightings.
LEMMA TimePasses ==
    ASSUME NEW s, NEW h, now \in Nat, Fits(s, h, now)
    PROVE  Fits(s, h, now + 1)
<1>1. s # <<>> => s[Len(s)].time \in Nat
  BY Elements DEF Fits
<1>2. SeenLast(s, h, now + 1)
  BY <1>1, Constants DEF Fits, SeenLast
<1> QED
  BY <1>2 DEF Fits

--------------------------------------------------------------------------------
(* A sighting.                                                             *)

Seen(h, box) == [box |-> box, time |-> now, deltas |-> HasDeltas(h, box)]

\* A sighting and the entry it leaves are well formed.
LEMMA SeenTypes ==
    ASSUME now \in Nat, NEW h \in Entry, NEW box \in Box
    PROVE  Observe(h, box) \in Entry /\ Seen(h, box) \in Sighting
<1>1. box.area \in Nat /\ box.side \in BOOLEAN
  BY Constants DEF Box
<1>2. Clock \in Nat
  BY Constants, TimeOfDay DEF Clock
<1>3. MaxObserved(h, box.area) \in Nat
  BY <1>1 DEF MaxObserved, LargerOf, Entry
<1>4. HasDeltas(h, box) \in BOOLEAN
  BY DEF HasDeltas
<1>5. Trigger(box.area) \in Entry
  BY <1>1, <1>2 DEF Trigger, Entry
<1>6. Observe(h, box) \in Entry
  BY <1>1, <1>2, <1>3, <1>5 DEF Observe, Entry
<1> QED
  BY <1>4, <1>6 DEF Seen, Sighting

\* The maximum includes this area, so that only approaching, or nothing
\* remembered, can trigger.
LEMMA WhenTriggered ==
    ASSUME NEW h \in Entry, NEW box \in Box
    PROVE  /\ HasDeltas(h, box) <=> /\ WellSeen(box)
                                   /\ \/ h.lastTriggered = None
                                      \/ Approaching(box.area, h.lastTriggered)
           /\ HasDeltas(h, box) => /\ Observe(h, box).known
                                   /\ Observe(h, box).lastTriggered = box.area
           /\ ~HasDeltas(h, box) =>
                 /\ Observe(h, box).known
                 /\ \/ Observe(h, box).lastTriggered = h.lastTriggered
                    \/ /\ Observe(h, box).lastTriggered = None
                       /\ WellSeen(box) /\ Departing(box.area, h.lastTriggered)
<1>1. box.area \in Nat /\ h.maxObserved \in Nat
  BY Constants DEF Box, Entry
<1>2. ~(box.area > MaxObserved(h, box.area))
  BY <1>1 DEF MaxObserved, LargerOf
<1> QED
  BY <1>2 DEF HasDeltas, WellSeen, Observe, Trigger

\* What the new sighting sees of the ones before.
LEMMA SightingAdded ==
    ASSUME now \in Nat, NEW s \in Seq(Sighting), NEW o \in Sighting
    PROVE  /\ Append(s, o) \in Seq(Sighting)
           /\ Len(Append(s, o)) = Len(s) + 1 /\ Len(s) \in Nat
           /\ \A i \in 1 .. Len(s) : Append(s, o)[i] = s[i]
           /\ Append(s, o)[Len(s) + 1] = o
  OBVIOUS

\* One more sighting keeps what the cache remembers.
LEMMA SeenFits ==
    ASSUME now \in Nat, NEW s, NEW h, Fits(s, h, now), NEW box \in Box
    PROVE  Fits(Append(s, Seen(h, box)), Observe(h, box), now)
<1> DEFINE o == Seen(h, box)
           z == Append(s, o)
           g == Observe(h, box)
           n == Len(s)
<1>1. /\ s \in Seq(Sighting) /\ h \in Entry
      /\ g \in Entry /\ o \in Sighting
  BY SeenTypes DEF Fits
<1>2. /\ z \in Seq(Sighting) /\ Len(z) = n + 1 /\ n \in Nat
      /\ \A i \in 1 .. n : z[i] = s[i]
      /\ z[n + 1] = o
  BY <1>1, SightingAdded
<1>3. o.box = box /\ o.time = now /\ o.deltas = HasDeltas(h, box)
  BY DEF Seen
<1>4. /\ o.deltas <=> /\ WellSeen(box)
                      /\ \/ h.lastTriggered = None
                         \/ Approaching(box.area, h.lastTriggered)
      /\ o.deltas => g.known /\ g.lastTriggered = box.area
      /\ ~o.deltas =>
            /\ g.known
            /\ \/ g.lastTriggered = h.lastTriggered
               \/ g.lastTriggered = None /\ WellSeen(box) /\ Departing(box.area, h.lastTriggered)
  BY <1>1, <1>3, WhenTriggered
<1>5. g.lastSeenAt = now % Day
  BY DEF Observe, Trigger, Clock
<1>6. \A i \in 1 .. n : /\ s[i].box.area \in Nat /\ s[i].box.area # None
                        /\ s[i].deltas \in BOOLEAN /\ s[i].time \in Nat
  BY <1>1, Elements, Constants DEF Box
<1>7. box.area \in Nat
  BY Constants DEF Box
\* Until now; and if the vehicle was gone, the new sighting comes late.
<1>8. ASSUME NEW i \in 1 .. n, s[i].deltas
      PROVE  \/ \E m \in i + 1 .. n : s[m].deltas
             \/ h.lastTriggered = s[i].box.area
             \/ /\ h.lastTriggered = None
                /\ \E m \in i + 1 .. n + 1 : Reason(z, i, m)
  <2>1. CASE \E m \in i + 1 .. n : s[m].deltas
    BY <2>1
  <2>2. CASE h.lastTriggered = s[i].box.area
    BY <2>2
  <2>3. CASE h.lastTriggered = None /\ ~h.known
    <3>1. s # <<>>
      BY <1>1, <1>8
    <3>2. now - s[n].time > MaxLostWait
      BY <2>3, <3>1 DEF Fits, SeenLast
    <3>3. z[n + 1].time - z[(n + 1) - 1].time > MaxLostWait
      BY <1>2, <1>3, <1>8, <3>2
    <3>4. Reason(z, i, n + 1) /\ n + 1 \in i + 1 .. n + 1
      BY <1>2, <1>8, <3>3 DEF Reason
    <3> QED
      BY <2>3, <3>4
  <2>4. CASE h.lastTriggered = None /\ \E m \in i + 1 .. n : Reason(s, i, m)
    <3>1. PICK m \in i + 1 .. n : Reason(s, i, m)
      BY <2>4
    <3>2. m \in 1 .. n /\ m - 1 \in 1 .. n
      BY <1>2, <1>8, <3>1
    <3>3. z[m] = s[m] /\ z[m - 1] = s[m - 1] /\ z[i] = s[i]
      BY <1>2, <1>8, <3>2
    <3>4. Reason(z, i, m) /\ m \in i + 1 .. n + 1
      BY <1>2, <3>1, <3>3 DEF Reason
    <3> QED
      BY <2>4, <3>4
  <2> QED
    BY <1>8, <2>1, <2>2, <2>3, <2>4 DEF Fits, Remembers
<1>9. SeenLast(z, g, now)
  BY <1>2, <1>3, <1>4, <1>5 DEF SeenLast
<1>10. ASSUME NEW i \in 1 .. n + 1, z[i].deltas
       PROVE  \/ \E m \in i + 1 .. n + 1 : z[m].deltas
              \/ g.lastTriggered = z[i].box.area
              \/ g.lastTriggered = None /\ \E m \in i + 1 .. n + 1 : Reason(z, i, m)
  <2>1. CASE o.deltas /\ i = n + 1
    BY <1>2, <1>3, <1>4, <2>1
  <2>2. CASE o.deltas /\ i # n + 1
    BY <1>2, <2>2
  <2>3. CASE ~o.deltas
    <3>1. i \in 1 .. n /\ z[i] = s[i]
      BY <1>2, <1>10, <2>3
    <3>2. CASE \E m \in i + 1 .. n : s[m].deltas
      BY <1>2, <3>1, <3>2
    <3>3. CASE g.lastTriggered = h.lastTriggered
      BY <1>2, <1>8, <1>10, <3>1, <3>2, <3>3
    <3>4. CASE g.lastTriggered = None /\ WellSeen(box) /\ Departing(box.area, h.lastTriggered)
      <4>1. CASE h.lastTriggered = s[i].box.area
        <5>1. Reason(z, i, n + 1)
          BY <1>2, <1>3, <3>1, <3>4, <4>1 DEF Reason, Departing
        <5> QED
          BY <1>2, <3>1, <3>4, <5>1
      <4>2. CASE h.lastTriggered = None
        BY <3>4, <4>2 DEF Departing
      <4> QED
        BY <1>2, <1>8, <1>10, <3>1, <3>2, <4>1, <4>2
    <3> QED
      BY <1>4, <2>3, <3>3, <3>4
  <2> QED
    BY <2>1, <2>2, <2>3
<1>11. Remembers(z, g)
  BY <1>2, <1>4, <1>10 DEF Remembers
<1>12. Approaches(z)
  <2> SUFFICES ASSUME NEW i \in 1 .. n + 1, NEW j \in 1 .. n + 1, i < j, z[i].deltas,
                      WellSeen(z[j].box), z[j].box.area * 10 >= z[i].box.area * 11
               PROVE  \E m \in i + 1 .. j : z[m].deltas
    BY <1>2 DEF Approaches
  <2>1. CASE j # n + 1
    <3>1. i \in 1 .. n /\ j \in 1 .. n /\ z[i] = s[i] /\ z[j] = s[j]
      BY <1>2, <2>1
    <3>2. PICK m \in i + 1 .. j : s[m].deltas
      BY <3>1 DEF Fits, Approaches
    <3> QED
      BY <1>2, <3>1, <3>2
  <2>2. CASE j = n + 1
    <3>1. i \in 1 .. n /\ z[i] = s[i] /\ z[j] = o
      BY <1>2, <2>2
    <3>2. CASE \E m \in i + 1 .. n : s[m].deltas
      BY <1>2, <2>2, <3>1, <3>2
    <3>3. CASE h.lastTriggered = s[i].box.area
      <4>1. Approaching(box.area, h.lastTriggered)
        BY <1>3, <1>6, <3>1, <3>3 DEF Approaching
      <4>2. o.deltas
        BY <1>3, <1>4, <3>1, <4>1
      <4> QED
        BY <1>2, <2>2, <3>1, <4>2
    <3>4. CASE h.lastTriggered = None
      <4>1. o.deltas
        BY <1>3, <1>4, <3>1, <3>4
      <4> QED
        BY <1>2, <2>2, <3>1, <4>1
    <3> QED
      BY <1>8, <3>1, <3>2, <3>3, <3>4
  <2> QED
    BY <2>1, <2>2
<1>13. Sheds(z)
  <2> SUFFICES ASSUME NEW i \in 1 .. n + 1, NEW j \in 1 .. n + 1, i < j, z[i].deltas,
                      z[j].deltas
               PROVE  \E m \in i + 1 .. j : Reason(z, i, m)
    BY <1>2 DEF Sheds
  <2>1. ASSUME NEW k \in 1 .. n, i < k, s[k].deltas, k <= j
        PROVE  \E m \in i + 1 .. j : Reason(z, i, m)
    <3>1. i \in 1 .. n /\ s[i].deltas
      BY <1>2, <2>1
    <3>2. PICK m \in i + 1 .. k : Reason(s, i, m)
      BY <2>1, <3>1 DEF Fits, Sheds
    <3>3. m \in 1 .. n /\ m - 1 \in 1 .. n /\ m \in i + 1 .. j
      BY <1>2, <2>1, <3>1, <3>2
    <3>4. z[m] = s[m] /\ z[m - 1] = s[m - 1] /\ z[i] = s[i]
      BY <1>2, <3>1, <3>3
    <3> QED
      BY <3>2, <3>3, <3>4 DEF Reason
  <2>2. CASE j # n + 1
    BY <1>2, <2>1, <2>2
  <2>3. CASE j = n + 1
    <3>1. i \in 1 .. n /\ z[i] = s[i] /\ z[j] = o /\ o.deltas
      BY <1>2, <2>3
    <3>2. CASE \E m \in i + 1 .. n : s[m].deltas
      <4>1. PICK k \in i + 1 .. n : s[k].deltas
        BY <3>2
      <4> QED
        BY <1>2, <2>1, <2>3, <3>1, <4>1
    <3>3. CASE h.lastTriggered = s[i].box.area
      <4>1. box.area * 10 >= s[i].box.area * 11
        BY <1>4, <1>6, <3>1, <3>3 DEF Approaching
      <4>2. Reason(z, i, n + 1)
        BY <1>2, <1>3, <3>1, <4>1 DEF Reason
      <4> QED
        BY <1>2, <2>3, <3>1, <4>2
    <3>4. CASE \E m \in i + 1 .. n + 1 : Reason(z, i, m)
      BY <2>3, <3>4
    <3> QED
      BY <1>8, <3>1, <3>2, <3>3, <3>4
  <2> QED
    BY <2>2, <2>3
<1> QED
  BY <1>1, <1>2, <1>9, <1>11, <1>12, <1>13 DEF Fits

--------------------------------------------------------------------------------
\* Nothing has been seen at first.
LEMMA AreaInvInit == AreaInit => AreaInv
<1> SUFFICES ASSUME AreaInit PROVE AreaInv
  OBVIOUS
<1>1. Unseen \in Entry /\ Unseen.known = FALSE /\ Unseen.lastTriggered = None
  BY DEF Unseen, Entry
<1>2. <<>> \in Seq(Sighting) /\ Len(<<>>) = 0
  OBVIOUS
<1>3. Fits(<<>>, Unseen, 0)
  BY <1>1, <1>2 DEF Fits, SeenLast, Remembers, Approaches, Sheds
<1> QED
  BY <1>1, <1>2, <1>3 DEF AreaInit, AreaInv

\* Every frame and every second keeps the invariant.
LEMMA AreaInvStep == AreaInv /\ [AreaNext]_areaVars => AreaInv'
<1> SUFFICES ASSUME AreaInv, [AreaNext]_areaVars PROVE AreaInv'
  OBVIOUS
<1>1. ASSUME NEW seen \in SUBSET Trackers, NEW boxes \in [seen -> Box],
             EstimateChangesInArea(boxes)
      PROVE  AreaInv'
  <2>1. RemoveLost = [k \in Trackers |-> Kept(cache[k])]
    BY DEF RemoveLost, Kept
  <2>2. /\ now' = now /\ now \in Nat /\ DOMAIN boxes = seen
        /\ \A k \in Trackers : Fits(sightings[k], cache[k], now)
    BY <1>1 DEF EstimateChangesInArea, AreaInv
  <2>3. cache' = [k \in Trackers |-> IF k \in seen THEN Observe(Kept(cache[k]), boxes[k])
                                     ELSE Kept(cache[k])]
    BY <1>1, <2>1, <2>2 DEF EstimateChangesInArea
  <2>4. sightings' = [k \in Trackers |->
                        IF k \in seen
                        THEN Append(sightings[k], Seen(Kept(cache[k]), boxes[k]))
                        ELSE sightings[k]]
    BY <1>1, <2>1, <2>2 DEF EstimateChangesInArea, Seen
  <2>5. ASSUME NEW k \in Trackers PROVE Fits(sightings'[k], cache'[k], now)
    <3>1. Fits(sightings[k], Kept(cache[k]), now)
      BY <2>2, KeptFits
    <3>2. CASE k \in seen
      BY <2>2, <2>3, <2>4, <3>1, <3>2, SeenFits
    <3>3. CASE k \notin seen
      BY <2>3, <2>4, <3>1, <3>3
    <3> QED
      BY <3>2, <3>3
  <2>6. cache' \in [Trackers -> Entry] /\ sightings' \in [Trackers -> Seq(Sighting)]
    BY <2>3, <2>4, <2>5 DEF Fits
  <2> QED
    BY <2>2, <2>5, <2>6 DEF AreaInv
<1>2. CASE Tick
  BY <1>2, TimePasses DEF Tick, AreaInv
<1>3. CASE UNCHANGED areaVars
  BY <1>3 DEF areaVars, AreaInv
<1> QED
  BY <1>1, <1>2, <1>3 DEF AreaNext

\* A vehicle that comes closer by a tenth triggers a detection (estimateChangesInArea).
THEOREM ApproachesTrigger == AreaSpec => []ApproachTriggers
<1>1. AreaInv => ApproachTriggers
  BY DEF AreaInv, Fits, Approaches, ApproachTriggers
<1> QED
  BY <1>1, AreaInvInit, AreaInvStep, PTL DEF AreaSpec

\* A vehicle that stays where it is does not: there is a reason for each trigger
\* but the first (estimateChangesInArea).
THEOREM TriggersHaveReasons == AreaSpec => []TriggeredForAReason
<1>1. AreaInv => TriggeredForAReason
  BY DEF AreaInv, Fits, Sheds, Reason, TriggeredForAReason
<1> QED
  BY <1>1, AreaInvInit, AreaInvStep, PTL DEF AreaSpec

--------------------------------------------------------------------------------
(* Types.  The invariant above says less of the entries: here they are     *)
(* made of areas that were seen and of times of day.                       *)

Dated == [known : BOOLEAN, lastSeenAt : 0 .. Day - 1, lastTriggered : Areas \cup {None},
          maxObserved : Areas \cup {0}]

LEMMA DatedEntries ==
    ASSUME now \in Nat
    PROVE  /\ Unseen \in Dated
           /\ \A h \in Dated, box \in Box : Observe(h, box) \in Dated /\ Seen(h, box) \in Sighting
<1>1. Clock \in 0 .. Day - 1 /\ 0 \in 0 .. Day - 1
  BY Constants DEF Clock
<1>2. Unseen \in Dated
  BY <1>1 DEF Unseen, Dated
<1>3. ASSUME NEW h \in Dated, NEW box \in Box
      PROVE  Observe(h, box) \in Dated /\ Seen(h, box) \in Sighting
  <2>1. /\ box.area \in Areas /\ h.maxObserved \in Areas \cup {0}
        /\ h.lastTriggered \in Areas \cup {None}
    BY DEF Dated, Box
  <2>2. MaxObserved(h, box.area) \in Areas \cup {0}
    BY <2>1 DEF MaxObserved, LargerOf
  <2>3. Observe(h, box) \in Dated
    BY <1>1, <2>1, <2>2 DEF Observe, Trigger, Dated
  <2>4. HasDeltas(h, box) \in BOOLEAN
    BY DEF HasDeltas
  <2> QED BY <2>3, <2>4 DEF Seen, Sighting
<1> QED BY <1>2, <1>3

\* Entries hold areas that were seen and times of day, for any areas and lengths of a day.
THEOREM AreaTypesHold == AreaSpec => []AreaTypeOK
<1> USE DEF Dated, Sighting
<1>1. AreaInit => AreaTypeOK
  <2> SUFFICES ASSUME AreaInit PROVE AreaTypeOK
    OBVIOUS
  <2>1. now \in 0 .. MaxTime
    BY EstimatorAssumption DEF AreaInit
  <2>2. cache \in [Trackers -> Dated] /\ sightings \in [Trackers -> Seq(Sighting)]
    <3>1. now \in Nat /\ <<>> \in Seq(Sighting)
      BY DEF AreaInit
    <3> HIDE DEF Dated, Sighting
    <3> QED BY <3>1, DatedEntries DEF AreaInit
  <2> QED BY <2>1, <2>2 DEF AreaTypeOK
<1>2. AreaTypeOK /\ [AreaNext]_areaVars => AreaTypeOK'
  <2> SUFFICES ASSUME AreaTypeOK, [AreaNext]_areaVars PROVE AreaTypeOK'
    OBVIOUS
  <2>1. /\ now \in 0 .. MaxTime /\ now \in Nat
        /\ cache \in [Trackers -> Dated] /\ sightings \in [Trackers -> Seq(Sighting)]
    <3>1. now \in 0 .. MaxTime
      BY DEF AreaTypeOK
    <3>2. cache \in [Trackers -> Dated] /\ sightings \in [Trackers -> Seq(Sighting)]
      BY Zenon DEF AreaTypeOK
    <3>3. MaxTime \in Nat
      BY EstimatorAssumption
    <3>4. now \in Nat
      BY <3>1, <3>3
    <3> QED BY <3>1, <3>2, <3>4, Zenon
  <2>2. ASSUME NEW seen \in SUBSET Trackers, NEW boxes \in [seen -> Box],
               EstimateChangesInArea(boxes)
        PROVE  AreaTypeOK'
    <3> HIDE DEF Dated, Sighting
    <3>1. RemoveLost \in [Trackers -> Dated]
      BY <2>1, DatedEntries DEF RemoveLost
    <3>2. ASSUME NEW k \in Trackers
          PROVE  cache'[k] \in Dated /\ sightings'[k] \in Seq(Sighting)
      <4>1. RemoveLost[k] \in Dated /\ sightings[k] \in Seq(Sighting)
        BY <2>1, <3>1
      <4>2. CASE k \in seen
        <5>1. /\ boxes[k] \in Box /\ k \in DOMAIN boxes
              /\ cache'[k] = Observe(RemoveLost[k], boxes[k])
              /\ sightings'[k] = Append(sightings[k], Seen(RemoveLost[k], boxes[k]))
          BY <2>2, <4>2 DEF EstimateChangesInArea, Seen
        <5>2. Observe(RemoveLost[k], boxes[k]) \in Dated /\ Seen(RemoveLost[k], boxes[k]) \in Sighting
          BY <2>1, <4>1, <5>1, DatedEntries
        <5> QED BY <4>1, <5>1, <5>2
      <4>3. CASE k \notin seen
        BY <2>2, <4>1, <4>3 DEF EstimateChangesInArea
      <4> QED BY <4>2, <4>3
    <3>3. cache' \in [Trackers -> Dated] /\ sightings' \in [Trackers -> Seq(Sighting)]
      BY <2>2, <3>2 DEF EstimateChangesInArea
    <3> USE DEF Dated, Sighting
    <3>4. now' = now
      BY <2>2 DEF EstimateChangesInArea
    <3> QED BY <2>1, <3>3, <3>4 DEF AreaTypeOK
  <2>3. CASE Tick
    <3>1. now' \in 0 .. MaxTime
      BY <2>1, <2>3, EstimatorAssumption DEF Tick
    <3> QED BY <2>1, <2>3, <3>1 DEF Tick, AreaTypeOK
  <2>4. CASE UNCHANGED areaVars
    BY <2>4, <2>1 DEF areaVars, AreaTypeOK
  <2> QED BY <2>2, <2>3, <2>4 DEF AreaNext
<1> QED
  BY <1>1, <1>2, PTL DEF AreaSpec

--------------------------------------------------------------------------------
(***************************************************************************)
(* Rates count the latest events, for any window, room and times.          *)
(*                                                                         *)
(* The list is always the updates but for the first m, and these were left *)
(* out because they are old, as is everything before an old one, or        *)
(* because there are MaxEvents later ones.                                 *)
(***************************************************************************)

IsSuffix(times, all, m) ==
    /\ Len(times) = Len(all) - m
    /\ \A i \in 1 .. Len(times) : times[i] = all[m + i]

Enough(times, all, m) == m = 0 \/ ~Recent(all[m]) \/ Len(times) >= MaxEvents

InTime(all) ==
    \A i \in 1 .. Len(all) :
        all[i] <= clock /\ \A j \in 1 .. Len(all) : i <= j => all[i] <= all[j]

RateInv ==
    /\ clock \in Nat \ {0} /\ started \in 0 .. clock
    /\ updates \in Seq(Nat) /\ timestamps \in Seq(Nat)
    /\ InTime(updates)
    /\ Len(timestamps) <= MaxEvents + Slack
    /\ \E m \in 0 .. Len(updates) :
         IsSuffix(timestamps, updates, m) /\ Enough(timestamps, updates, m)

\* What is left of a sequence when its first n elements are removed.
LEMMA RestOf ==
    ASSUME NEW S, NEW s \in Seq(S), NEW n \in 0 .. Len(s)
    PROVE  /\ SubSeq(s, n + 1, Len(s)) \in Seq(S)
           /\ Len(SubSeq(s, n + 1, Len(s))) = Len(s) - n
           /\ \A i \in 1 .. Len(s) - n : SubSeq(s, n + 1, Len(s))[i] = s[n + i]
<1>1. Len(s) \in Nat /\ \A i \in 1 .. Len(s) : s[i] \in S
  OBVIOUS
<1>2. \A i \in n + 1 .. Len(s) : s[i] \in S
  BY <1>1
<1> QED BY <1>1, <1>2

\* What expireTimestamps removes.
LEMMA OldOnes ==
    ASSUME NEW times \in Seq(Nat)
    PROVE  /\ Old(times) \in 0 .. Len(times)
           /\ Old(times) = Len(times) \/ Recent(times[Old(times) + 1])
           /\ \A k \in 1 .. Old(times) : ~Recent(times[k])
<1> DEFINE T == { n \in 0 .. Len(times) : n = Len(times) \/ Recent(times[n + 1]) }
           Ends(n) == /\ n = Len(times) \/ Recent(times[n + 1])
                      /\ \A k \in 1 .. n : ~Recent(times[k])
<1>1. Len(times) \in Nat /\ Len(times) \in T /\ T \subseteq Nat
  OBVIOUS
<1>2. PICK n \in T : \A y \in T : n <= y
  <2> HIDE DEF T
  <2> QED BY <1>1, LeastNumber
<1>3. ASSUME NEW k \in 1 .. n PROVE ~Recent(times[k])
  <2>1. /\ k - 1 \in 0 .. Len(times) /\ (k - 1) + 1 = k /\ k - 1 # Len(times)
        /\ ~(n <= k - 1)
    BY <1>1
  <2>2. k - 1 \notin T
    BY <1>2, <2>1
  <2> QED BY <2>1, <2>2
<1>4. n \in 0 .. Len(times) /\ Ends(n)
  BY <1>3
<1>5. Old(times) = CHOOSE o \in 0 .. Len(times) : Ends(o)
  BY DEF Old
<1>6. Old(times) \in 0 .. Len(times) /\ Ends(Old(times))
  <2> HIDE DEF Ends
  <2> QED BY <1>4, <1>5
<1> QED BY <1>6

LEMMA ExpiredFits ==
    ASSUME NEW times \in Seq(Nat), NEW all \in Seq(Nat), NEW m \in 0 .. Len(all),
           IsSuffix(times, all, m), Enough(times, all, m)
    PROVE  /\ Expired(times) \in Seq(Nat) /\ Len(Expired(times)) <= Len(times)
           /\ m + Old(times) \in 0 .. Len(all)
           /\ IsSuffix(Expired(times), all, m + Old(times))
           /\ Enough(Expired(times), all, m + Old(times))
           /\ Len(Expired(times)) > 0 => Recent(all[m + Old(times) + 1])
<1> DEFINE n == Old(times)
           rest == Expired(times)
<1>0. Len(times) \in Nat /\ Len(all) \in Nat /\ Len(times) = Len(all) - m
  BY DEF IsSuffix
<1>1. \A i \in 1 .. Len(times) : times[i] = all[m + i]
  BY DEF IsSuffix
<1>2. /\ n \in 0 .. Len(times) /\ (n = Len(times) \/ Recent(times[n + 1]))
      /\ \A k \in 1 .. n : ~Recent(times[k])
  BY OldOnes
<1> HIDE DEF n
<1>3. /\ rest \in Seq(Nat) /\ Len(rest) = Len(times) - n
      /\ \A i \in 1 .. Len(rest) : rest[i] = times[n + i]
  <2>1. rest = SubSeq(times, n + 1, Len(times))
    BY DEF Expired, n
  <2> HIDE DEF rest
  <2> QED BY <1>2, <2>1, RestOf
<1> HIDE DEF rest
<1>4. m + n \in 0 .. Len(all) /\ Len(rest) = Len(all) - (m + n)
  BY <1>0, <1>2, <1>3
<1>5. ASSUME NEW i \in 1 .. Len(rest) PROVE rest[i] = all[(m + n) + i]
  <2>1. n + i \in 1 .. Len(times) /\ m + (n + i) = (m + n) + i
    BY <1>0, <1>2, <1>3
  <2> QED BY <1>1, <1>3, <2>1
<1>6. Enough(rest, all, m + n)
  <2>1. CASE n = 0
    BY <1>0, <1>3, <2>1 DEF Enough
  <2>2. CASE n # 0
    <3>1. n \in 1 .. n /\ n \in 1 .. Len(times)
      BY <1>0, <1>2, <2>2
    <3>2. ~Recent(all[m + n])
      BY <1>1, <1>2, <3>1
    <3> QED BY <3>2 DEF Enough
  <2> QED BY <2>1, <2>2
<1>7. ASSUME Len(rest) > 0 PROVE Recent(all[m + n + 1])
  <2>1. n # Len(times) /\ n + 1 \in 1 .. Len(times) /\ m + (n + 1) = m + n + 1
    <3>1. n \in 0 .. Len(times) /\ Len(rest) = Len(times) - n
      BY <1>2, <1>3
    <3>2. \A l \in Nat : \A k \in 0 .. l : l - k > 0 => k # l /\ k + 1 \in 1 .. l
      OBVIOUS
    <3>3. n # Len(times) /\ n + 1 \in 1 .. Len(times)
      BY <1>0, <1>7, <3>1, <3>2
    <3>4. m \in Nat /\ n \in Nat
      BY <1>0, <3>1
    <3> QED BY <3>3, <3>4
  <2> QED BY <1>1, <1>2, <2>1
<1>8. IsSuffix(rest, all, m + n)
  BY <1>4, <1>5 DEF IsSuffix
<1>9. rest \in Seq(Nat) /\ Len(rest) <= Len(times)
  BY <1>0, <1>2, <1>3
<1> QED BY <1>4, <1>6, <1>7, <1>8, <1>9 DEF n, rest

\* The list is cut at its old end.
LEMMA CutFits ==
    ASSUME NEW times \in Seq(Nat), NEW all \in Seq(Nat), NEW m \in 0 .. Len(all),
           IsSuffix(times, all, m), Enough(times, all, m)
    PROVE  /\ Cut(times) \in Seq(Nat) /\ Len(Cut(times)) <= MaxEvents + Slack
           /\ \E o \in 0 .. Len(all) : IsSuffix(Cut(times), all, o) /\ Enough(Cut(times), all, o)
<1>0. /\ Len(times) \in Nat /\ Len(all) \in Nat /\ Len(times) = Len(all) - m
      /\ MaxEvents \in Nat \ {0} /\ Slack \in Nat
  BY RateAssumption DEF IsSuffix
<1>1. \A i \in 1 .. Len(times) : times[i] = all[m + i]
  BY DEF IsSuffix
<1>2. CASE ~(Len(times) > MaxEvents + Slack)
  BY <1>0, <1>2 DEF Cut
<1>3. CASE Len(times) > MaxEvents + Slack
  <2> DEFINE n == Len(times) - MaxEvents
             rest == SubSeq(times, n + 1, Len(times))
  <2>1. Cut(times) = rest /\ n \in 1 .. Len(times)
    <3>1. n \in 1 .. Len(times)
      <4>1. \A l, e, x \in Nat : l > e + x => l - e \in 1 .. l
        OBVIOUS
      <4> QED BY <1>0, <1>3, <4>1
    <3>2. Cut(times) = SubSeq(times, Len(times) - MaxEvents + 1, Len(times))
      BY <1>3 DEF Cut
    <3> QED BY <3>1, <3>2
  <2>2. /\ rest \in Seq(Nat) /\ Len(rest) = MaxEvents
        /\ \A i \in 1 .. Len(rest) : rest[i] = times[n + i]
    <3>1. n \in 0 .. Len(times) /\ MaxEvents = Len(times) - n
      BY <1>0, <2>1
    <3> HIDE DEF n
    <3> QED BY <3>1, RestOf
  <2>3. m + n \in 0 .. Len(all) /\ MaxEvents = Len(all) - (m + n) /\ MaxEvents <= MaxEvents + Slack
    BY <1>0, <2>1
  <2> HIDE DEF rest
  <2>4. ASSUME NEW i \in 1 .. Len(rest) PROVE rest[i] = all[(m + n) + i]
    <3>1. n + i \in 1 .. Len(times) /\ m + (n + i) = (m + n) + i
      BY <1>0, <2>1, <2>2
    <3> QED BY <1>1, <2>2, <3>1
  <2> HIDE DEF n
  <2>5. IsSuffix(rest, all, m + n) /\ Enough(rest, all, m + n)
    BY <1>0, <2>2, <2>3, <2>4 DEF IsSuffix, Enough
  <2> QED BY <2>1, <2>2, <2>3, <2>5
<1> QED BY <1>2, <1>3

LEMMA RateInit0 == RateInit => RateInv
<1> SUFFICES ASSUME RateInit PROVE RateInv
  OBVIOUS
<1>1. IsSuffix(timestamps, updates, 0) /\ Enough(timestamps, updates, 0) /\ InTime(updates)
  BY DEF RateInit, IsSuffix, Enough, InTime
<1> QED BY <1>1, RateAssumption DEF RateInit, RateInv

\* The list after expireTimestamps, at an unchanged time.
LEMMA RateExpires ==
    ASSUME NEW times \in Seq(Nat), NEW m \in 0 .. Len(updates'),
           clock \in Nat \ {0}, started \in 0 .. clock,
           updates' \in Seq(Nat), InTime(updates'), clock' = clock, started' = Started,
           Len(times) <= MaxEvents + Slack,
           IsSuffix(times, updates', m), Enough(times, updates', m),
           timestamps' = Expired(times)
    PROVE  RateInv'
<1>1. /\ Expired(times) \in Seq(Nat) /\ Len(Expired(times)) <= Len(times)
      /\ m + Old(times) \in 0 .. Len(updates')
      /\ IsSuffix(Expired(times), updates', m + Old(times))
      /\ Enough(Expired(times), updates', m + Old(times))
  BY ExpiredFits
<1>2. InTime(updates)'
  BY DEF InTime
<1>3. Len(timestamps') <= MaxEvents + Slack
  <2>1. Len(times) \in Nat /\ Len(Expired(times)) \in Nat
    BY <1>1
  <2> QED BY <1>1, <2>1, RateAssumption
<1>4. started' \in 0 .. clock' /\ clock' \in Nat \ {0}
  BY DEF Started
<1>5. PICK o \in 0 .. Len(updates') :
        IsSuffix(timestamps', updates', o) /\ Enough(timestamps', updates', o)
  BY <1>1
<1>6. (IsSuffix(timestamps, updates, o) /\ Enough(timestamps, updates, o))'
  BY <1>5 DEF IsSuffix, Enough, Recent
<1>7. timestamps' \in Seq(Nat)
  BY <1>1
<1> QED BY <1>2, <1>3, <1>4, <1>6, <1>7 DEF RateInv

\* One more update, and the list with it.
LEMMA UpdateAdded ==
    ASSUME RateInv, NEW m \in 0 .. Len(updates),
           IsSuffix(timestamps, updates, m), Enough(timestamps, updates, m)
    PROVE  /\ Append(updates, clock) \in Seq(Nat) /\ Append(timestamps, clock) \in Seq(Nat)
           /\ InTime(Append(updates, clock)) /\ m \in 0 .. Len(Append(updates, clock))
           /\ IsSuffix(Append(timestamps, clock), Append(updates, clock), m)
           /\ Enough(Append(timestamps, clock), Append(updates, clock), m)
<1> DEFINE all == Append(updates, clock)
           times == Append(timestamps, clock)
<1>1. /\ clock \in Nat /\ updates \in Seq(Nat) /\ timestamps \in Seq(Nat)
      /\ Len(updates) \in Nat /\ Len(timestamps) \in Nat
      /\ Len(timestamps) = Len(updates) - m
  BY DEF RateInv, IsSuffix
<1>2. /\ all \in Seq(Nat) /\ Len(all) = Len(updates) + 1 /\ all[Len(updates) + 1] = clock
      /\ \A i \in 1 .. Len(updates) : all[i] = updates[i]
  BY <1>1
<1>3. /\ times \in Seq(Nat) /\ Len(times) = Len(timestamps) + 1
      /\ times[Len(timestamps) + 1] = clock
      /\ \A i \in 1 .. Len(timestamps) : times[i] = timestamps[i]
  BY <1>1
<1> HIDE DEF all, times
<1>4. InTime(all)
  <2> SUFFICES ASSUME NEW i \in 1 .. Len(all)
               PROVE  /\ all[i] <= clock
                      /\ \A j \in 1 .. Len(all) : i <= j => all[i] <= all[j]
    BY DEF InTime
  <2>1. ASSUME NEW k \in 1 .. Len(updates) PROVE all[k] \in Nat /\ all[k] <= clock
    <3>1. updates[k] \in Nat
      BY <1>1, <2>1
    <3>2. updates[k] <= clock
      BY <2>1 DEF RateInv, InTime
    <3>3. all[k] = updates[k]
      BY <1>2, <2>1
    <3>4. QED
      BY <3>1, <3>2, <3>3
  <2>2. \A k \in 1 .. Len(all) : k \in 1 .. Len(updates) \/ k = Len(updates) + 1
    BY <1>1, <1>2
  <2>3. ASSUME NEW k \in 1 .. Len(all) PROVE all[k] \in Nat /\ all[k] <= clock
    <3>1. CASE k = Len(updates) + 1
      <4>1. all[k] = clock
        BY <1>2, <3>1
      <4> QED BY <1>1, <4>1
    <3> QED BY <2>1, <2>2, <3>1
  <2>4. ASSUME NEW j \in 1 .. Len(all), i <= j PROVE all[i] <= all[j]
    <3>1. CASE j = Len(updates) + 1
      BY <1>2, <2>3, <3>1
    <3>2. CASE j \in 1 .. Len(updates)
      <4>1. i \in 1 .. Len(updates)
        BY <1>1, <2>4, <3>2
      <4> QED BY <1>2, <2>4, <3>2, <4>1 DEF RateInv, InTime
    <3> QED BY <2>2, <3>1, <3>2
  <2> QED BY <2>3, <2>4
<1>5. ASSUME NEW i \in 1 .. Len(times) PROVE times[i] = all[m + i]
  <2>1. CASE i = Len(timestamps) + 1
    <3>1. m + i = Len(updates) + 1
      BY <1>1, <2>1
    <3> QED BY <1>2, <1>3, <2>1, <3>1
  <2>2. CASE i # Len(timestamps) + 1
    <3>1. i \in 1 .. Len(timestamps)
      <4>1. \A l \in Nat : \A k \in 1 .. l + 1 : k # l + 1 => k \in 1 .. l
        OBVIOUS
      <4>2. i \in 1 .. Len(timestamps) + 1
        BY <1>3
      <4> QED BY <1>1, <2>2, <4>1, <4>2
    <3>2. \A u \in Nat : \A k \in 0 .. u : \A j \in 1 .. u - k : k + j \in 1 .. u
      OBVIOUS
    <3>3. m + i \in 1 .. Len(updates)
      BY <1>1, <3>1, <3>2
    <3> QED BY <1>2, <1>3, <3>1, <3>3 DEF IsSuffix
  <2> QED BY <2>1, <2>2
<1>6. Enough(times, all, m)
  <2>1. m # 0 => m \in 1 .. Len(updates)
    BY <1>1
  <2>2. m # 0 => all[m] = updates[m]
    BY <1>2, <2>1
  <2>3. Len(timestamps) >= MaxEvents => Len(times) >= MaxEvents
    BY <1>1, <1>3, RateAssumption
  <2> QED BY <2>2, <2>3 DEF Enough
<1>7. m \in 0 .. Len(all) /\ Len(times) = Len(all) - m
  BY <1>1, <1>2, <1>3
<1> QED BY <1>2, <1>3, <1>4, <1>5, <1>6, <1>7 DEF IsSuffix, all, times

LEMMA RateStep == RateInv /\ [RateNext]_rateVars => RateInv'
<1> SUFFICES ASSUME RateInv, [RateNext]_rateVars PROVE RateInv'
  OBVIOUS
<1>1. PICK m \in 0 .. Len(updates) :
        IsSuffix(timestamps, updates, m) /\ Enough(timestamps, updates, m)
  BY DEF RateInv
<1>2. /\ clock \in Nat \ {0} /\ started \in 0 .. clock
      /\ updates \in Seq(Nat) /\ timestamps \in Seq(Nat) /\ InTime(updates)
      /\ Len(timestamps) <= MaxEvents + Slack
  BY DEF RateInv
<1>3. CASE StartRate \/ SecondPasses \/ UNCHANGED rateVars
  <2>1. /\ updates' = updates /\ timestamps' = timestamps /\ clock' \in {clock, clock + 1}
        /\ started' \in {started, clock}
    BY <1>3 DEF StartRate, SecondPasses, rateVars
  <2>2. clock' \in Nat \ {0} /\ clock <= clock' /\ started' \in 0 .. clock'
    BY <1>2, <2>1
  <2>3. InTime(updates)'
    <3>1. \A i \in 1 .. Len(updates) : updates[i] \in Nat
      BY <1>2
    <3>2. \A i \in 1 .. Len(updates) : updates[i] <= clock'
      <4>1. \A u, c, d \in Nat : u <= c /\ c <= d => u <= d
        OBVIOUS
      <4>2. \A i \in 1 .. Len(updates) : updates[i] <= clock
        BY <1>2 DEF InTime
      <4> QED BY <1>2, <2>2, <3>1, <4>1, <4>2
    <3> QED BY <1>2, <2>1, <3>2 DEF InTime
  <2>4. (IsSuffix(timestamps, updates, m) /\ Enough(timestamps, updates, m))'
    <3>1. m # 0 => updates[m] \in Nat
      BY <1>2
    <3>2. m # 0 /\ ~(updates[m] + LastSeconds >= clock) => ~(updates[m] + LastSeconds >= clock')
      <4>1. \A u, l, c, d \in Nat : c <= d /\ ~(u + l >= c) => ~(u + l >= d)
        OBVIOUS
      <4>2. clock \in Nat /\ clock' \in Nat /\ LastSeconds \in Nat
        BY <1>2, <2>2, RateAssumption
      <4> QED BY <2>2, <3>1, <4>1, <4>2
    <3> QED BY <1>1, <2>1, <3>2 DEF IsSuffix, Enough, Recent
  <2> QED BY <1>2, <2>1, <2>2, <2>3, <2>4 DEF RateInv
<1>4. CASE Eps
  <2>1. UNCHANGED <<clock, updates>> /\ started' = Started /\ timestamps' = Expired(timestamps)
    BY <1>4 DEF Eps
  <2>2. m \in 0 .. Len(updates')
    BY <2>1
  <2> QED BY <1>1, <1>2, <2>1, <2>2, RateExpires
<1>5. CASE UpdateRate
  <2> DEFINE all == Append(updates, clock)
             times == Append(timestamps, clock)
  <2>1. /\ clock' = clock /\ started' = Started /\ updates' = all
        /\ timestamps' = Expired(Cut(times))
    BY <1>5 DEF UpdateRate
  <2>2. /\ all \in Seq(Nat) /\ times \in Seq(Nat) /\ InTime(all) /\ m \in 0 .. Len(all)
        /\ IsSuffix(times, all, m) /\ Enough(times, all, m)
    BY <1>1, UpdateAdded
  <2> HIDE DEF all, times
  <2>3. /\ Cut(times) \in Seq(Nat) /\ Len(Cut(times)) <= MaxEvents + Slack
        /\ \E o \in 0 .. Len(all) : IsSuffix(Cut(times), all, o) /\ Enough(Cut(times), all, o)
    BY <2>2, CutFits
  <2>4. PICK o \in 0 .. Len(all) : IsSuffix(Cut(times), all, o) /\ Enough(Cut(times), all, o)
    BY <2>3
  <2> QED BY <1>2, <2>1, <2>2, <2>3, <2>4, RateExpires
<1> QED BY <1>3, <1>4, <1>5 DEF RateNext

LEMMA LaterIsRecent ==
    ASSUME RateInv, NEW t \in Nat, NEW u \in Nat, Recent(t), t <= u
    PROVE  Recent(u)
<1>1. clock \in Nat /\ LastSeconds \in Nat
  BY RateAssumption DEF RateInv
<1> QED BY <1>1 DEF Recent

\* The rate counts all updates of the window, or at least the latest MaxEvents.
LEMMA RateCounts == RateInv => CountsTheLatest
<1> SUFFICES ASSUME RateInv PROVE CountsTheLatest
  OBVIOUS
<1> DEFINE latest == { i \in DOMAIN updates : Recent(updates[i]) }
           n == Old(timestamps)
           L == Len(updates)
           count == Len(Expired(timestamps))
<1>1. PICK m \in 0 .. Len(updates) :
        IsSuffix(timestamps, updates, m) /\ Enough(timestamps, updates, m)
  BY DEF RateInv
<1>2. /\ clock \in Nat \ {0} /\ started \in 0 .. clock
      /\ updates \in Seq(Nat) /\ timestamps \in Seq(Nat) /\ InTime(updates)
      /\ Len(timestamps) <= MaxEvents + Slack /\ L \in Nat /\ DOMAIN updates = 1 .. L
  BY DEF RateInv
<1>3. /\ Expired(timestamps) \in Seq(Nat) /\ m + n \in 0 .. L
      /\ IsSuffix(Expired(timestamps), updates, m + n)
      /\ Enough(Expired(timestamps), updates, m + n)
      /\ count > 0 => Recent(updates[m + n + 1])
  BY <1>1, <1>2, ExpiredFits
<1> DEFINE o == m + n
<1>4. count = L - o /\ o \in 0 .. L /\ count \in Nat
  BY <1>2, <1>3 DEF IsSuffix
<1>5. o = 0 \/ ~Recent(updates[o]) \/ count >= MaxEvents
  BY <1>3 DEF Enough
<1>6. count > 0 => Recent(updates[o + 1])
  BY <1>3
<1> HIDE DEF o, count, n
<1>7. o + 1 .. L \subseteq latest
  <2> SUFFICES ASSUME NEW i \in o + 1 .. L PROVE Recent(updates[i])
    BY <1>2, <1>4
  <2>1. count > 0 /\ i \in 1 .. L /\ o + 1 \in 1 .. L /\ o + 1 <= i
    BY <1>2, <1>4
  <2>2. updates[o + 1] <= updates[i] /\ updates[o + 1] \in Nat /\ updates[i] \in Nat
    BY <1>2, <2>1 DEF InTime
  <2>3. Recent(updates[o + 1])
    BY <1>6, <2>1
  <2> QED BY <2>2, <2>3, LaterIsRecent
<1>8. ASSUME o = 0 \/ ~Recent(updates[o]) PROVE latest = o + 1 .. L
  <2> SUFFICES ASSUME NEW i \in latest PROVE i \in o + 1 .. L
    BY <1>7
  <2>1. i \in 1 .. L /\ Recent(updates[i])
    BY <1>2
  <2>2. CASE i >= o + 1
    BY <1>4, <2>1, <2>2
  <2>3. CASE i <= o
    <3>1. o \in 1 .. L /\ ~Recent(updates[o])
      BY <1>4, <1>8, <2>1, <2>3
    <3>2. updates[i] <= updates[o] /\ updates[o] \in Nat /\ updates[i] \in Nat
      BY <1>2, <2>1, <2>3, <3>1 DEF InTime
    <3> QED BY <2>1, <3>1, <3>2, LaterIsRecent
  <2> QED BY <1>4, <2>1, <2>2, <2>3
<1>9. IsFiniteSet(latest) /\ count <= Cardinality(latest) /\ Cardinality(o + 1 .. L) = count
  <2>1. /\ IsFiniteSet(1 .. L) /\ Cardinality(o + 1 .. L) = IF o + 1 > L THEN 0 ELSE L - (o + 1) + 1
        /\ IsFiniteSet(latest)
    <3>1. IsFiniteSet(1 .. L)
      BY <1>2, FS_Interval
    <3>2. latest \in SUBSET (1 .. L)
      BY <1>2
    <3>3. o + 1 \in Int /\ L \in Int
      BY <1>4, <1>2
    <3> HIDE DEF latest, L
    <3> QED BY <3>1, <3>2, <3>3, FS_Subset, FS_Interval
  <2>2. Cardinality(o + 1 .. L) = count
    BY <1>2, <1>4, <2>1
  <2>3. Cardinality(o + 1 .. L) <= Cardinality(latest)
    <3> HIDE DEF latest, L
    <3> QED BY <1>7, <2>1, FS_Subset
  <2> QED BY <2>1, <2>2, <2>3
<1>10. Cardinality(latest) \in Nat
  BY <1>9, FS_CardinalityType
<1>11. o = 0 \/ ~Recent(updates[o]) => Cardinality(latest) = count
  BY <1>8, <1>9
<1>12. Rate.count = count /\ Rate.seconds \in 1 .. LastSeconds
  <2>1. Rate.count = count
    BY DEF Rate, count
  <2>2. clock - Started \in Nat
    BY <1>2 DEF Started
  <2> QED BY <2>1, <2>2, RateAssumption DEF Rate
<1> HIDE DEF latest
<1>13. /\ count <= Cardinality(latest)
       /\ Cardinality(latest) <= MaxEvents => count = Cardinality(latest)
       /\ Cardinality(latest) > MaxEvents => count >= MaxEvents
  BY <1>4, <1>5, <1>9, <1>10, <1>11, RateAssumption
<1> QED BY <1>2, <1>12, <1>13 DEF CountsTheLatest, latest

\* EventsPerSecond counts the events of its window, up to the number it keeps.
THEOREM RatesCountTheLatest == RateSpec => []CountsTheLatest
<1> QED
  BY RateInit0, RateStep, RateCounts, PTL DEF RateSpec

--------------------------------------------------------------------------------
(***************************************************************************)
(* The packet buffer holds the latest packets, for any limit, durations    *)
(* and gaps.                                                               *)
(*                                                                         *)
(* Sums of a sequence's beginnings do the accounting: what is dropped is a *)
(* beginning of the buffer, and what stays is worth the difference.        *)
(***************************************************************************)

LEMMA ElementsOf ==
    ASSUME NEW S, NEW s \in Seq(S)
    PROVE  Len(s) \in Nat /\ \A i \in 1 .. Len(s) : s[i] \in S
OBVIOUS

LEMMA SumsAre ==
    ASSUME NEW s \in Seq(Nat)
    PROVE  /\ Sums(s) \in [0 .. Len(s) -> Nat] /\ Sums(s)[0] = 0
           /\ \A n \in 1 .. Len(s) : Sums(s)[n] = Sums(s)[n - 1] + s[n]
<1> DEFINE L == Len(s)
           g == [turn \in (1 .. L) \X Nat |-> turn[2] + s[turn[1]]]
           Body(f) == [n \in 0 .. L |-> IF n = 0 THEN 0 ELSE f[n - 1] + s[n]]
           total == CHOOSE f : f = Body(f)
<1>1. L \in Nat /\ \A n \in 1 .. L : s[n] \in Nat
  OBVIOUS
<1> HIDE DEF L
<1>2. ASSUME NEW n \in 1 .. L, NEW v \in Nat PROVE g[<<n, v>>] = v + s[n]
  OBVIOUS
<1>3. g \in [(1 .. L) \X Nat -> Nat]
  <2> SUFFICES ASSUME NEW turn \in (1 .. L) \X Nat PROVE turn[2] + s[turn[1]] \in Nat
    OBVIOUS
  <2>1. turn[1] \in 1 .. L /\ turn[2] \in Nat
    OBVIOUS
  <2> QED BY <1>1, <2>1
<1>4. PICK f \in [0 .. L -> Nat] :
          \A n \in 0 .. L : f[n] = IF n = 0 THEN 0 ELSE g[<<n, f[n - 1]>>]
  <2> HIDE DEF g
  <2>1. Turns(Nat, 0, L, g) # {}
    BY <1>1, <1>3, Loop
  <2> QED BY <2>1 DEF Turns
<1>5. f = Body(f)
  <2>1. ASSUME NEW n \in 0 .. L PROVE f[n] = Body(f)[n]
    <3>1. CASE n = 0
      BY <1>4, <3>1
    <3>2. CASE n # 0
      <4>1. n \in 1 .. L /\ n - 1 \in 0 .. L
        BY <1>1, <3>2
      <4>2. f[n - 1] \in Nat
        BY <4>1
      <4>3. f[n] = f[n - 1] + s[n]
        <5> HIDE DEF g
        <5> QED BY <1>2, <1>4, <3>2, <4>1, <4>2
      <4> QED BY <3>2, <4>3
    <3> QED BY <3>1, <3>2
  <2> QED BY <2>1
<1>6. total = Body(total)
  <2> HIDE DEF Body
  <2> QED BY <1>5
<1>7. Sums(s) = total
  BY DEF Sums, L
<1> HIDE DEF total, g
<1>8. total[0] = 0 /\ \A n \in 1 .. L : total[n] = total[n - 1] + s[n]
  <2>1. \A n \in 0 .. L : total[n] = IF n = 0 THEN 0 ELSE total[n - 1] + s[n]
    BY <1>6
  <2>2. 0 \in 0 .. L /\ \A n \in 1 .. L : n \in 0 .. L /\ n # 0
    BY <1>1
  <2> QED BY <2>1, <2>2
<1>9. total \in [0 .. L -> Nat]
  <2> DEFINE T == { n \in Nat : n <= L => total[n] \in Nat }
  <2>1. 0 \in T
    BY <1>8
  <2>2. \A n \in Nat : n \in T => n + 1 \in T
    <3> SUFFICES ASSUME NEW n \in Nat, n + 1 <= L, total[n] \in Nat PROVE total[n + 1] \in Nat
      BY <1>1
    <3>1. n + 1 \in 1 .. L /\ (n + 1) - 1 = n
      BY <1>1
    <3>2. total[n + 1] = total[n] + s[n + 1] /\ s[n + 1] \in Nat
      BY <1>1, <1>8, <3>1
    <3> HIDE DEF Body
    <3> QED BY <3>2
  <2>3. Nat \subseteq T
    <3> HIDE DEF T
    <3> QED BY <2>1, <2>2, Induction
  <2>4. \A n \in 0 .. L : total[n] \in Nat
    BY <1>1, <2>3
  <2>5. total = [n \in 0 .. L |-> total[n]]
    BY <1>6
  <2> QED BY <2>4, <2>5
<1> QED BY <1>7, <1>8, <1>9 DEF L

\* The sums of t are those of s from m on, if its elements are.
LEMMA SumsShifted ==
    ASSUME NEW s \in Seq(Nat), NEW t \in Seq(Nat), NEW m \in 0 .. Len(s), NEW k \in 0 .. Len(t),
           m + k <= Len(s), \A i \in 1 .. k : t[i] = s[m + i]
    PROVE  Sums(t)[k] = Sums(s)[m + k] - Sums(s)[m]
<1>1. /\ Len(s) \in Nat /\ Len(t) \in Nat /\ m \in Nat /\ k \in Nat /\ k <= Len(t)
      /\ Sums(s) \in [0 .. Len(s) -> Nat] /\ Sums(t) \in [0 .. Len(t) -> Nat]
      /\ Sums(t)[0] = 0
  BY SumsAre
<1>0. \A n \in 0 .. Len(s) : Sums(s)[n] \in Nat
  BY SumsAre
<1> DEFINE T == { n \in Nat : n <= k => Sums(t)[n] = Sums(s)[m + n] - Sums(s)[m] }
<1>2. 0 \in T
  <2>1. Sums(s)[m] \in Nat /\ m + 0 = m
    BY <1>0, <1>1
  <2> QED BY <1>1, <2>1
<1>3. \A n \in Nat : n \in T => n + 1 \in T
  <2> SUFFICES ASSUME NEW n \in Nat, n + 1 <= k, Sums(t)[n] = Sums(s)[m + n] - Sums(s)[m]
               PROVE  Sums(t)[n + 1] = Sums(s)[m + (n + 1)] - Sums(s)[m]
    BY <1>1
  <2>1. /\ n + 1 \in 1 .. Len(t) /\ (n + 1) - 1 = n /\ n + 1 \in 1 .. k
        /\ m + (n + 1) \in 1 .. Len(s) /\ m + (n + 1) - 1 = m + n
        /\ m + n \in 0 .. Len(s)
    BY <1>1
  <2>2. /\ Sums(t)[n + 1] = Sums(t)[n] + t[n + 1]
        /\ Sums(s)[m + (n + 1)] = Sums(s)[m + n] + s[m + (n + 1)]
        /\ t[n + 1] = s[m + (n + 1)]
    BY <2>1, SumsAre
  <2>3. /\ Sums(s)[m + n] \in Nat /\ Sums(s)[m] \in Nat
    BY <1>0, <2>1
  <2>4. s[m + (n + 1)] \in Nat
    <3>1. \A i \in 1 .. Len(s) : s[i] \in Nat
      BY ElementsOf
    <3> QED BY <2>1, <3>1
  <2>5. \A b, c, e \in Nat : (b - c) + e = (b + e) - c
    OBVIOUS
  <2>6. Sums(t)[n + 1] = (Sums(s)[m + n] - Sums(s)[m]) + s[m + (n + 1)]
    BY <2>2
  <2>7. (Sums(s)[m + n] - Sums(s)[m]) + s[m + (n + 1)]
            = (Sums(s)[m + n] + s[m + (n + 1)]) - Sums(s)[m]
    <3> DEFINE b == Sums(s)[m + n]
               c == Sums(s)[m]
               e == s[m + (n + 1)]
    <3>1. b \in Nat /\ c \in Nat /\ e \in Nat
      BY <2>3, <2>4
    <3> HIDE DEF b, c, e
    <3>2. (b - c) + e = (b + e) - c
      BY <2>5, <3>1
    <3> QED BY <3>2 DEF b, c, e
  <2>8. Sums(t)[n + 1] = (Sums(s)[m + n] + s[m + (n + 1)]) - Sums(s)[m]
    BY <2>6, <2>7
  <2> QED BY <2>2, <2>8
<1>4. Nat \subseteq T
  <2> HIDE DEF T
  <2> QED BY <1>2, <1>3, Induction
<1> QED BY <1>1, <1>4

LEMMA SumOf ==
    ASSUME NEW s \in Seq(Nat)
    PROVE  /\ Sum(s) \in Nat /\ Sum(s) = Sums(s)[Len(s)]
           /\ \A n \in 0 .. Len(s) : /\ Sums(s)[n] \in Nat
                                     /\ Sum(SubSeq(s, 1, n)) = Sums(s)[n]
                                     /\ Sum(SubSeq(s, n + 1, Len(s))) = Sum(s) - Sums(s)[n]
           /\ \A d \in Nat : Sum(Append(s, d)) = Sum(s) + d
<1>1. /\ Len(s) \in Nat /\ Sums(s) \in [0 .. Len(s) -> Nat] /\ Sums(s)[0] = 0
      /\ 0 \in 0 .. Len(s) /\ Len(s) \in 0 .. Len(s)
  BY SumsAre
<1>2. Sum(s) \in Nat /\ Sum(s) = Sums(s)[Len(s)]
  BY <1>1 DEF Sum
<1>3. ASSUME NEW n \in 0 .. Len(s)
      PROVE  /\ Sums(s)[n] \in Nat
             /\ Sum(SubSeq(s, 1, n)) = Sums(s)[n]
             /\ Sum(SubSeq(s, n + 1, Len(s))) = Sum(s) - Sums(s)[n]
  <2> DEFINE first == SubSeq(s, 1, n)
             rest == SubSeq(s, n + 1, Len(s))
  <2>1. first \in Seq(Nat) /\ Len(first) = n /\ \A i \in 1 .. n : first[i] = s[0 + i]
    <3>1. \A i \in 1 .. n : s[i] \in Nat
      OBVIOUS
    <3> QED BY <1>1, <3>1
  <2>2. rest \in Seq(Nat) /\ Len(rest) = Len(s) - n /\ \A i \in 1 .. Len(rest) : rest[i] = s[n + i]
    BY RestOf
  <2> HIDE DEF first, rest
  <2>3. /\ n \in 0 .. Len(first) /\ 0 + n <= Len(s) /\ 0 + n = n
        /\ Len(rest) \in 0 .. Len(rest) /\ n + Len(rest) <= Len(s) /\ n + Len(rest) = Len(s)
    BY <1>1, <2>1, <2>2
  <2>4. Sums(first)[n] = Sums(s)[0 + n] - Sums(s)[0]
    BY <1>1, <2>1, <2>3, SumsShifted
  <2>5. Sums(rest)[Len(rest)] = Sums(s)[n + Len(rest)] - Sums(s)[n]
    BY <2>2, <2>3, SumsShifted
  <2>6. Sums(s)[n] \in Nat
    BY <1>1
  <2> QED BY <1>1, <1>2, <2>1, <2>3, <2>4, <2>5, <2>6 DEF first, rest, Sum
<1>4. ASSUME NEW d \in Nat PROVE Sum(Append(s, d)) = Sum(s) + d
  <2> DEFINE more == Append(s, d)
  <2>1. /\ more \in Seq(Nat) /\ Len(more) = Len(s) + 1 /\ more[Len(s) + 1] = d
        /\ \A i \in 1 .. Len(s) : more[i] = s[0 + i]
    OBVIOUS
  <2> HIDE DEF more
  <2>2. /\ Len(s) \in 0 .. Len(more) /\ 0 + Len(s) = Len(s) /\ 0 + Len(s) <= Len(s)
        /\ Len(more) \in 1 .. Len(more) /\ Len(more) - 1 = Len(s)
    BY <1>1, <2>1
  <2>3. Sums(more)[Len(s)] = Sums(s)[0 + Len(s)] - Sums(s)[0]
    BY <1>1, <2>1, <2>2, SumsShifted
  <2>4. Sums(more)[Len(more)] = Sums(more)[Len(s)] + d
    BY <2>1, <2>2, SumsAre
  <2> QED BY <1>1, <1>2, <2>2, <2>3, <2>4 DEF Sum, more
<1> QED BY <1>2, <1>3, <1>4

\* Of two runs of the same elements that end together, the one is the rest of the other.
LEMMA LatestIs ==
    ASSUME NEW all \in Seq(Nat), NEW m \in 0 .. Len(all), NEW t \in Seq(Nat)
    PROVE  IsSuffix(t, all, m) <=> t = SubSeq(all, Len(all) - Len(t) + 1, Len(all)) /\ Len(t) = Len(all) - m
<1> DEFINE rest == SubSeq(all, m + 1, Len(all))
<1>1. /\ rest \in Seq(Nat) /\ Len(rest) = Len(all) - m
      /\ \A i \in 1 .. Len(all) - m : rest[i] = all[m + i]
  BY RestOf
<1>2. Len(all) \in Nat /\ m \in Nat /\ Len(t) \in Nat
  OBVIOUS
<1>3. Len(t) = Len(all) - m => Len(all) - Len(t) = m
  BY <1>2
<1> HIDE DEF rest
<1>4. ASSUME IsSuffix(t, all, m) PROVE t = rest
  <2>1. Len(t) = Len(rest) /\ \A i \in 1 .. Len(t) : t[i] = rest[i]
    BY <1>1, <1>4 DEF IsSuffix
  <2>2. t = [i \in 1 .. Len(t) |-> t[i]] /\ rest = [i \in 1 .. Len(rest) |-> rest[i]]
    BY <1>1
  <2> QED BY <2>1, <2>2
<1>5. ASSUME Len(t) = Len(all) - m, t = rest PROVE IsSuffix(t, all, m)
  BY <1>1, <1>5 DEF IsSuffix
<1> QED BY <1>3, <1>4, <1>5 DEF rest, IsSuffix

\* How many packets push() drops.
LEMMA ExcessIs ==
    ASSUME NEW packets \in Seq(Nat), NEW total \in Nat
    PROVE  LET n == Excess(packets, total)
           IN  /\ n \in 0 .. Len(packets)
               /\ Dropped(n, packets, total) <= DurationLimit \/ n = Len(packets)
               /\ \A k \in 0 .. n - 1 : Dropped(k, packets, total) > DurationLimit
<1> DEFINE Fits0(n) == Dropped(n, packets, total) <= DurationLimit \/ n = Len(packets)
           T == { n \in 0 .. Len(packets) : Fits0(n) }
           Ends(n) == Fits0(n) /\ \A k \in 0 .. n - 1 : Dropped(k, packets, total) > DurationLimit
<1>1. Len(packets) \in Nat /\ Len(packets) \in T /\ T \subseteq Nat
  OBVIOUS
<1>2. PICK n \in T : \A y \in T : n <= y
  <2> HIDE DEF T
  <2> QED BY <1>1, LeastNumber
<1>3. ASSUME NEW k \in 0 .. n - 1 PROVE Dropped(k, packets, total) > DurationLimit
  <2>1. k \in 0 .. Len(packets) /\ ~(n <= k) /\ k # Len(packets)
    BY <1>1
  <2>2. k \notin T
    BY <1>2, <2>1
  <2>3. Dropped(k, packets, total) \in Int /\ DurationLimit \in Int
    <3>1. Sum(SubSeq(packets, 1, k)) \in Nat
      BY <2>1, SumOf
    <3> QED BY <3>1, RingAssumption DEF Dropped
  <2> QED BY <2>1, <2>2, <2>3
<1>4. n \in 0 .. Len(packets) /\ Ends(n)
  BY <1>3
<1>5. Excess(packets, total) = CHOOSE o \in 0 .. Len(packets) : Ends(o)
  BY DEF Excess
<1>6. Excess(packets, total) \in 0 .. Len(packets) /\ Ends(Excess(packets, total))
  <2> HIDE DEF Ends
  <2> QED BY <1>4, <1>5
<1> QED BY <1>6

AllTimed == \A i \in DOMAIN pushes : pushes[i] > 0

RingInv ==
    /\ ring \in Seq(Nat) /\ pushes \in Seq(Nat) /\ totalTime \in Nat
    /\ Len(ring) <= Len(pushes) /\ IsSuffix(ring, pushes, Len(pushes) - Len(ring))
    /\ Sum(ring) <= DurationLimit /\ Sum(ring) <= totalTime
    /\ AllTimed => /\ totalTime = Sum(ring)
                   /\ \/ Len(ring) = Len(pushes)
                      \/ Sum(Latest(Len(ring) + 1)) > DurationLimit

LEMMA RingStarts == RingInit => RingInv
<1> SUFFICES ASSUME RingInit PROVE RingInv
  OBVIOUS
<1>1. <<>> \in Seq(Nat) /\ Len(<<>>) = 0
  OBVIOUS
<1>2. Sum(<<>>) = 0
  BY <1>1, SumsAre DEF Sum
<1> QED BY <1>1, <1>2, RingAssumption DEF RingInit, RingInv, IsSuffix

\* A packet is pushed: the new buffer is a rest of the old one with the packet behind it.
LEMMA PushKeeps ==
    ASSUME RingInv, NEW duration \in Nat, NEW gap \in Nat, Push(duration, gap)
    PROVE  RingInv'
<1> DEFINE packets == Append(ring, duration)
           all == Append(pushes, duration)
           total == totalTime + (IF duration > 0 THEN duration ELSE gap)
           n == Excess(packets, total)
           L == Len(packets)
           M == Len(all)
           rest == SubSeq(packets, n + 1, L)
<1>1. /\ ring' = rest /\ totalTime' = Dropped(n, packets, total) /\ pushes' = all
  BY DEF Push
<1>2. /\ ring \in Seq(Nat) /\ pushes \in Seq(Nat) /\ totalTime \in Nat
      /\ Len(ring) \in Nat /\ Len(pushes) \in Nat /\ Len(ring) <= Len(pushes)
      /\ \A i \in 1 .. Len(ring) : ring[i] = pushes[(Len(pushes) - Len(ring)) + i]
      /\ DurationLimit \in Nat
  BY RingAssumption DEF RingInv, IsSuffix
<1>3. /\ packets \in Seq(Nat) /\ L = Len(ring) + 1 /\ packets[L] = duration
      /\ \A i \in 1 .. Len(ring) : packets[i] = ring[i]
  BY <1>2
<1>4. /\ all \in Seq(Nat) /\ M = Len(pushes) + 1 /\ all[M] = duration
      /\ \A i \in 1 .. Len(pushes) : all[i] = pushes[i]
  BY <1>2
<1>5. Sum(packets) = Sum(ring) + duration /\ Sum(ring) \in Nat
  BY <1>2, SumOf
<1>6. total \in Nat
  BY <1>2
<1>7. Sum(packets) <= total
  <2>1. Sum(ring) <= totalTime
    BY DEF RingInv
  <2>2. \A s, t, d, x \in Nat : s <= t /\ (x = d \/ d = 0) => s + d <= t + x
    OBVIOUS
  <2> QED BY <1>2, <1>5, <2>1, <2>2
<1> HIDE DEF packets, all, total
<1>8. /\ n \in 0 .. L /\ (Dropped(n, packets, total) <= DurationLimit \/ n = L)
      /\ \A k \in 0 .. n - 1 : Dropped(k, packets, total) > DurationLimit
  BY <1>3, <1>6, ExcessIs
<1> HIDE DEF n
<1>9. L \in Nat /\ M \in Nat /\ L <= M /\ M - L = Len(pushes) - Len(ring) /\ n \in Nat
  BY <1>2, <1>3, <1>4, <1>8
<1>10. ASSUME NEW i \in 1 .. L PROVE packets[i] = all[(M - L) + i]
  <2>1. CASE i = L
    <3>1. (M - L) + i = M
      BY <1>9, <2>1
    <3> QED BY <1>3, <1>4, <2>1, <3>1
  <2>2. CASE i # L
    <3>1. \A l \in Nat : \A k \in 1 .. l + 1 : k # l + 1 => k \in 1 .. l
      OBVIOUS
    <3>2. i \in 1 .. Len(ring)
      BY <1>2, <1>3, <2>2, <3>1
    <3>3. \A l, m \in Nat : \A k \in 1 .. l : l <= m => (m - l) + k \in 1 .. m
      OBVIOUS
    <3>4. (Len(pushes) - Len(ring)) + i \in 1 .. Len(pushes)
      BY <1>2, <3>2, <3>3
    <3> QED BY <1>2, <1>3, <1>4, <1>9, <3>2, <3>4
  <2> QED BY <2>1, <2>2
<1>11. /\ rest \in Seq(Nat) /\ Len(rest) = L - n
       /\ \A i \in 1 .. L - n : rest[i] = packets[n + i]
  BY <1>3, <1>8, RestOf
<1>12. ASSUME NEW k \in 0 .. L
       PROVE  /\ Sum(SubSeq(packets, k + 1, L)) = Sum(packets) - Sums(packets)[k]
              /\ Dropped(k, packets, total) = total - Sums(packets)[k]
              /\ Sums(packets)[k] \in Nat /\ Sums(packets)[k] <= Sum(packets)
  <2>1. /\ Sum(SubSeq(packets, k + 1, L)) = Sum(packets) - Sums(packets)[k]
        /\ Sum(SubSeq(packets, 1, k)) = Sums(packets)[k] /\ Sums(packets)[k] \in Nat
        /\ Sum(packets) \in Nat
    BY <1>3, SumOf
  <2>2. SubSeq(packets, k + 1, L) \in Seq(Nat)
    BY <1>3, RestOf
  <2>3. Sum(SubSeq(packets, k + 1, L)) \in Nat
    BY <2>2, SumOf
  <2> QED BY <2>1, <2>3 DEF Dropped
<1>13. /\ Sum(rest) = Sum(packets) - Sums(packets)[n] /\ Sums(packets)[n] \in Nat
       /\ totalTime' = total - Sums(packets)[n] /\ Sums(packets)[n] <= Sum(packets)
  BY <1>1, <1>8, <1>12
<1> HIDE DEF rest
<1>14. Sum(packets) \in Nat /\ Sum(packets) = Sums(packets)[L] /\ Sum(rest) \in Nat
  BY <1>3, <1>11, SumOf
<1>15. totalTime' \in Nat /\ Sum(rest) <= totalTime'
  <2>1. \A t, s, x \in Nat : s <= t /\ x <= s => t - x \in Nat /\ s - x <= t - x
    OBVIOUS
  <2> QED BY <1>6, <1>7, <1>13, <1>14, <2>1
<1>16. Sum(rest) <= DurationLimit
  <2>1. CASE n = L
    BY <1>2, <1>13, <1>14, <2>1
  <2>2. CASE Dropped(n, packets, total) <= DurationLimit
    BY <1>1, <1>2, <1>14, <1>15, <2>2
  <2> QED BY <1>8, <2>1, <2>2
<1>17. IsSuffix(rest, all, M - Len(rest)) /\ Len(rest) <= M
  <2>1. Len(rest) \in Nat /\ Len(rest) <= M /\ Len(rest) = M - (M - Len(rest))
    BY <1>8, <1>9, <1>11
  <2>2. ASSUME NEW i \in 1 .. Len(rest) PROVE rest[i] = all[(M - Len(rest)) + i]
    <3>1. n + i \in 1 .. L /\ (M - L) + (n + i) = (M - Len(rest)) + i
      BY <1>8, <1>9, <1>11
    <3> QED BY <1>10, <1>11, <3>1
  <2> QED BY <2>1, <2>2 DEF IsSuffix
<1>18. ASSUME AllTimed'
       PROVE  totalTime' = Sum(rest) /\ (Len(rest) = M \/ Sum(Latest(Len(ring) + 1)') > DurationLimit)
  <2>1. duration > 0 /\ AllTimed
    <3>1. \A i \in 1 .. M : all[i] > 0
      BY <1>1, <1>4, <1>18 DEF AllTimed
    <3>2. M \in 1 .. M /\ \A i \in 1 .. Len(pushes) : i \in 1 .. M
      BY <1>2, <1>4
    <3>3. DOMAIN pushes = 1 .. Len(pushes)
      BY <1>2
    <3> QED BY <1>4, <3>1, <3>2, <3>3 DEF AllTimed
  <2>2. total = totalTime + duration /\ totalTime = Sum(ring)
    BY <2>1 DEF total, RingInv
  <2>3. total = Sum(packets)
    BY <1>5, <2>2
  <2>4. totalTime' = Sum(rest)
    BY <1>13, <2>3
  <2>5. CASE n # 0
    <3> DEFINE longer == SubSeq(packets, (n - 1) + 1, L)
    <3>1. n - 1 \in 0 .. n - 1 /\ n - 1 \in 0 .. L
      BY <1>8, <1>9, <2>5
    <3>2. Sum(longer) = Dropped(n - 1, packets, total)
      BY <1>12, <2>3, <3>1
    <3>3. Sum(longer) > DurationLimit
      BY <1>8, <3>1, <3>2
    <3>4. /\ longer \in Seq(Nat) /\ Len(longer) = L - (n - 1)
          /\ \A i \in 1 .. L - (n - 1) : longer[i] = packets[(n - 1) + i]
      BY <1>3, <3>1, RestOf
    <3> HIDE DEF longer
    <3>5. /\ (M - L) + (n - 1) \in 0 .. M /\ Len(longer) = M - ((M - L) + (n - 1))
          /\ Len(longer) = Len(rest) + 1
      <4>1. \A l, m \in Nat : \A k \in 1 .. l : l <= m =>
              /\ (m - l) + (k - 1) \in 0 .. m /\ l - (k - 1) = m - ((m - l) + (k - 1))
              /\ l - (k - 1) = (l - k) + 1
        OBVIOUS
      <4>2. n \in 1 .. L
        BY <1>8, <1>9, <2>5
      <4> QED BY <1>9, <1>11, <3>4, <4>1, <4>2
    <3>6. ASSUME NEW i \in 1 .. Len(longer)
          PROVE  longer[i] = all[((M - L) + (n - 1)) + i]
      <4>1. /\ (n - 1) + i \in 1 .. L
            /\ (M - L) + ((n - 1) + i) = ((M - L) + (n - 1)) + i
        <5>1. \A l, m \in Nat : \A k \in 0 .. l : \A j \in 1 .. l - k :
                k + j \in 1 .. l /\ (m - l) + (k + j) = ((m - l) + k) + j
          OBVIOUS
        <5>2. i \in 1 .. L - (n - 1)
          BY <3>4
        <5> QED BY <1>9, <3>1, <5>1, <5>2
      <4> QED BY <1>10, <3>4, <4>1
    <3>7. longer = SubSeq(all, M - Len(longer) + 1, M)
      <4>1. IsSuffix(longer, all, (M - L) + (n - 1))
        BY <3>5, <3>6 DEF IsSuffix
      <4> QED BY <1>4, <3>4, <3>5, <4>1, LatestIs
    <3>8. Latest(Len(ring) + 1)' = SubSeq(all, M - (Len(rest) + 1) + 1, M)
      BY <1>1 DEF Latest
    <3> QED BY <2>4, <3>3, <3>5, <3>7, <3>8
  <2>6. CASE n = 0
    <3>1. Len(rest) = L
      BY <1>3, <1>9, <1>11, <2>6
    <3>2. CASE Len(ring) = Len(pushes)
      BY <1>3, <1>4, <2>4, <3>1, <3>2
    <3>3. CASE Len(ring) # Len(pushes)
      <4> DEFINE q == (Len(pushes) - Len(ring)) - 1
                 old == SubSeq(pushes, q + 1, Len(pushes))
                 longer == Append(old, duration)
      <4>1. q \in 0 .. Len(pushes) /\ Len(pushes) - q = Len(ring) + 1
        BY <1>2, <3>3
      <4>2. /\ old \in Seq(Nat) /\ Len(old) = Len(ring) + 1
            /\ \A i \in 1 .. Len(ring) + 1 : old[i] = pushes[q + i]
        <5>1. pushes \in Seq(Nat)
          BY <1>2
        <5>2. /\ old \in Seq(Nat) /\ Len(old) = Len(pushes) - q
              /\ \A i \in 1 .. Len(pushes) - q : old[i] = pushes[q + i]
          BY <4>1, <5>1, RestOf
        <5> QED BY <4>1, <5>2
      <4>3. Sum(old) > DurationLimit
        <5>1. Len(pushes) - (Len(ring) + 1) + 1 = q + 1
          BY <1>2, <4>1
        <5>2. Latest(Len(ring) + 1) = old
          BY <5>1 DEF Latest
        <5> QED BY <2>1, <3>3, <5>2 DEF RingInv
      <4> HIDE DEF old
      <4>4. /\ longer \in Seq(Nat) /\ Len(longer) = Len(ring) + 2
            /\ longer[Len(ring) + 2] = duration
            /\ \A i \in 1 .. Len(ring) + 1 : longer[i] = old[i]
        <5>1. Len(ring) + 2 = Len(old) + 1
          BY <1>2, <4>2
        <5> QED BY <4>2, <5>1
      <4>5. Sum(longer) > DurationLimit
        <5>1. Sum(longer) = Sum(old) + duration /\ Sum(old) \in Nat
          BY <4>2, SumOf
        <5> QED BY <1>2, <4>3, <5>1
      <4> HIDE DEF longer
      <4>6. IsSuffix(longer, all, q)
        <5>1. Len(longer) = M - q /\ q \in Nat
          BY <1>2, <1>4, <4>1, <4>4
        <5>2. ASSUME NEW i \in 1 .. Len(longer) PROVE longer[i] = all[q + i]
          <6>1. CASE i = Len(ring) + 2
            <7>1. q + i = M
              BY <1>2, <1>4, <4>1, <6>1
            <7> QED BY <1>4, <4>4, <6>1, <7>1
          <6>2. CASE i # Len(ring) + 2
            <7>1. \A l \in Nat : \A k \in 1 .. l + 2 : k # l + 2 => k \in 1 .. l + 1
              OBVIOUS
            <7>2. i \in 1 .. Len(ring) + 1
              BY <1>2, <4>4, <6>2, <7>1
            <7>3. \A u, l, o \in Nat : u - o = l => \A k \in 1 .. l : o + k \in 1 .. u
              OBVIOUS
            <7>4. q + i \in 1 .. Len(pushes)
              <8>1. Len(ring) + 1 \in Nat
                BY <1>2
              <8> QED BY <1>2, <4>1, <5>1, <7>2, <7>3, <8>1
            <7> QED BY <1>4, <4>2, <4>4, <7>2, <7>4
          <6> QED BY <6>1, <6>2
        <5> QED BY <5>1, <5>2 DEF IsSuffix
      <4>7. longer = SubSeq(all, M - Len(longer) + 1, M)
        <5>1. q \in 0 .. M
          BY <1>2, <1>4, <4>1
        <5> QED BY <1>4, <4>4, <4>6, <5>1, LatestIs
      <4>8. Len(longer) = Len(rest) + 1
        BY <1>2, <1>3, <3>1, <4>4
      <4>9. Latest(Len(ring) + 1)' = SubSeq(all, M - (Len(rest) + 1) + 1, M)
        BY <1>1 DEF Latest
      <4> QED BY <2>4, <4>5, <4>7, <4>8, <4>9
    <3> QED BY <3>2, <3>3
  <2> QED BY <2>5, <2>6
<1> QED
  <2>1. /\ ring' \in Seq(Nat) /\ pushes' \in Seq(Nat) /\ totalTime' \in Nat
        /\ Sum(ring)' <= DurationLimit /\ Sum(ring)' <= totalTime'
        /\ Len(ring)' <= Len(pushes)'
    BY <1>1, <1>4, <1>11, <1>15, <1>16, <1>17
  <2>2. IsSuffix(ring, pushes, Len(pushes) - Len(ring))'
    BY <1>1, <1>17 DEF IsSuffix
  <2>3. AllTimed' => /\ totalTime' = Sum(ring)'
                     /\ Len(ring)' = Len(pushes)' \/ Sum(Latest(Len(ring) + 1))' > DurationLimit
    BY <1>1, <1>18
  <2> QED BY <2>1, <2>2, <2>3 DEF RingInv

\* The buffer holds the latest packets, as many as the limit allows if all are timed.
THEOREM BufferHoldsTheLatest == RingSpec => []HoldsLongestSuffix
<1>1. RingInv => HoldsLongestSuffix
  <2> SUFFICES ASSUME RingInv PROVE HoldsLongestSuffix
    OBVIOUS
  <2>1. Len(pushes) - Len(ring) \in 0 .. Len(pushes)
    <3>1. Len(pushes) \in Nat /\ Len(ring) \in Nat /\ Len(ring) <= Len(pushes)
      BY DEF RingInv
    <3> QED BY <3>1
  <2>2. ring = Latest(Len(ring))
    BY <2>1, LatestIs DEF RingInv, Latest
  <2> QED BY <2>2 DEF RingInv, HoldsLongestSuffix, AllTimed
<1>2. RingInv /\ [RingNext]_ringVars => RingInv'
  <2> SUFFICES ASSUME RingInv, [RingNext]_ringVars PROVE RingInv'
    OBVIOUS
  <2>1. ASSUME NEW duration \in Durations, NEW gap \in Gaps, Push(duration, gap)
        PROVE  RingInv'
    <3>1. duration \in Nat /\ gap \in Nat
      BY RingAssumption
    <3> QED BY <2>1, <3>1, PushKeeps
  <2>2. CASE UNCHANGED ringVars
    BY <2>2 DEF ringVars, RingInv, AllTimed, IsSuffix, Latest
  <2> QED BY <2>1, <2>2 DEF RingNext, ExtractAll
<1> QED
  BY <1>1, <1>2, RingStarts, PTL DEF RingSpec
==============================================================================
