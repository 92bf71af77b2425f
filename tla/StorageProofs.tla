---------------------------- MODULE StorageProofs ----------------------------
(***************************************************************************)
(* Theorems about the persistence layer: the statements of a connection,   *)
(* and creating and migrating the schema.                                  *)
(***************************************************************************)
EXTENDS ObjectStatements, SchemaVersions, Loops, SequenceTheorems, FiniteSetTheorems, TLAPS

------------------------------------------------------------------------------
(***************************************************************************)
(* BindingsAreLive for any number of connections and rows, and any texts.  *)
(*                                                                         *)
(* The property alone is not inductive: an array could carry a version the *)
(* image has yet to reach, and pass for current when it gets there.  So    *)
(* versions of arrays are at most that of the image (Sound).  What the     *)
(* operations do to the statements of a connection is made of three steps  *)
(* that keep them sound: the image is given values, its buffers are given  *)
(* capacities (Resized), an array is filled (Bind).                        *)
(***************************************************************************)

\* The fields of a connection's statements; no more of their types is needed.
Formed(s) ==
    /\ s = [val |-> s.val, cap |-> s.cap, version |-> s.version, made |-> s.made]
    /\ s.version \in Nat
    /\ s.made = [k \in Kinds |-> s.made[k]]
    /\ \A k \in Kinds : s.made[k].version \in Nat

Sound(s) ==
    /\ Formed(s)
    /\ \A k \in Kinds :
         /\ s.made[k].version <= s.version
         /\ s.made[k].bound /\ s.made[k].version = s.version => s.made[k].caps = s.cap

StatementsInv ==
    /\ stmts = [u \in Connections |-> stmts[u]]
    /\ \A u \in Connections : Sound(stmts[u])

\* Values come and go without harm.
LEMMA ValuesSound ==
    ASSUME NEW s, Sound(s), NEW val
    PROVE  Sound([s EXCEPT !.val = val])
BY DEF Sound, Formed

\* Whatever the capacities become, an array that does not fit them is out of date.
LEMMA ResizedSound ==
    ASSUME NEW s, Sound(s), NEW cap
    PROVE  Sound(Resized(s, cap))
<1>1. CASE cap = s.cap
  BY <1>1 DEF Sound, Formed, Resized
<1>2. CASE cap # s.cap
  <2> DEFINE r == Resized(s, cap)
  <2>1. r = [val |-> s.val, cap |-> cap, version |-> s.version + 1, made |-> s.made]
    <3>1. s = [val |-> s.val, cap |-> s.cap, version |-> s.version, made |-> s.made]
      BY DEF Sound, Formed
    <3>2. r = [s EXCEPT !.cap = cap, !.version = s.version + 1]
      BY <1>2 DEF Resized
    <3> QED
      BY <3>1, <3>2
  <2>2. Formed(r)
    BY <2>1 DEF Sound, Formed
  <2>3. \A k \in Kinds : r.made[k].version <= r.version /\ r.made[k].version # r.version
    BY <2>1 DEF Sound, Formed
  <2> QED
    BY <2>2, <2>3 DEF Sound
<1> QED
  BY <1>1, <1>2

\* An array is made for the capacities of the moment, or is left because it is current.
LEMMA BindSound ==
    ASSUME NEW s, Sound(s), NEW kind \in Kinds
    PROVE  Sound(Bind(s, kind))
<1> DEFINE array == [bound |-> TRUE, version |-> s.version, caps |-> s.cap]
           b == [val |-> s.val, cap |-> s.cap, version |-> s.version,
                 made |-> [k \in Kinds |-> IF k = kind THEN array ELSE s.made[k]]]
<1>1. Bind(s, kind) = s \/ Bind(s, kind) = b
  BY DEF Bind, Sound, Formed
<1>2. Formed(b)
  BY DEF Sound, Formed
<1>3. Sound(b)
  <2>1. ASSUME NEW k \in Kinds
        PROVE  /\ b.made[k].version <= b.version
               /\ b.made[k].bound /\ b.made[k].version = b.version => b.made[k].caps = b.cap
    BY DEF Sound, Formed
  <2> QED
    BY <1>2, <2>1 DEF Sound
<1> QED
  BY <1>1, <1>3

\* Saving an object: capacities, then values.
LEMMA SaveSound ==
    ASSUME NEW s, Sound(s), NEW o
    PROVE  Sound(Save(s, o))
BY ResizedSound, ValuesSound DEF Save

\* Loading a row: an array, values, capacities, the array again, the rest of the values.
LEMMA LoadSound ==
    ASSUME NEW s, Sound(s), NEW row, NEW text
    PROVE  Sound(Load(s, row, text))
<1>1. "select" \in Kinds
  BY DEF Kinds
<1>2. \A r, columns : Sound(r) => Sound(Received(r, row, text, columns))
  BY ValuesSound DEF Received
<1> QED
  BY <1>1, <1>2, BindSound, ResizedSound DEF Load

\* Nothing is bound at first.
LEMMA StatementsInvInit == StatementsInit => StatementsInv
<1> SUFFICES ASSUME StatementsInit PROVE StatementsInv
  OBVIOUS
<1>1. Sound(FreshStatements)
  BY DEF FreshStatements, Sound, Formed, Unbound
<1> QED
  BY <1>1 DEF StatementsInit, StatementsInv

\* An operation that leaves the connections' statements sound one by one.
LEMMA OneConnection ==
    ASSUME StatementsInv, NEW u \in Connections, NEW s, Sound(s),
           stmts' = [stmts EXCEPT ![u] = s]
    PROVE  StatementsInv'
BY DEF StatementsInv

\* Every operation keeps the statements sound.
LEMMA StatementsInvStep ==
    StatementsInv /\ [StatementsNext]_statementVars => StatementsInv'
<1> SUFFICES ASSUME StatementsInv, [StatementsNext]_statementVars
             PROVE  StatementsInv'
  OBVIOUS
<1>1. \A u \in Connections : Sound(stmts[u])
  BY DEF StatementsInv
<1>2. \A k \in {"insert", "update", "select"} : k \in Kinds
  BY DEF Kinds
<1>3. ASSUME NEW u \in Connections, NEW o \in Objects, Persist(u, o)
      PROVE  StatementsInv'
  BY <1>1, <1>2, <1>3, SaveSound, BindSound, OneConnection DEF Persist
<1>4. ASSUME NEW u \in Connections, NEW o \in Objects, NEW id, Update(u, id, o)
      PROVE  StatementsInv'
  BY <1>1, <1>2, <1>4, SaveSound, BindSound, OneConnection DEF Update
<1>5. ASSUME NEW u \in Connections, NEW ids, Erase(u, ids)
      PROVE  StatementsInv'
  BY <1>5 DEF Erase, StatementsInv
<1>6. ASSUME NEW u \in Connections, NEW id, Find(u, id)
      PROVE  StatementsInv'
  <2>1. Sound(Bind(stmts[u], "select"))
    BY <1>1, <1>2, BindSound
  <2>2. CASE id \in DOMAIN rows
    BY <1>1, <1>6, <2>2, LoadSound, OneConnection DEF Find
  <2>3. CASE id \notin DOMAIN rows
    <3>1. stmts' = [stmts EXCEPT ![u] = Bind(stmts[u], "select")]
      BY <1>6, <2>3 DEF Find
    <3> QED
      BY <2>1, <3>1, OneConnection
  <2> QED
    BY <2>2, <2>3
<1>7. ASSUME NEW u \in Connections, NEW ids, Query(u, ids)
      PROVE  StatementsInv'
  <2>1. stmts' = [stmts EXCEPT ![u] = Bind(stmts[u], "select")]
    BY <1>7 DEF Query
  <2> QED
    BY <1>1, <1>2, <2>1, BindSound, OneConnection
<1>8. ASSUME NEW u \in Connections, NextRow(u)
      PROVE  StatementsInv'
  BY <1>1, <1>8, LoadSound, OneConnection DEF NextRow
<1>9. CASE UNCHANGED statementVars
  BY <1>9 DEF statementVars, StatementsInv
<1> QED
  BY <1>3, <1>4, <1>5, <1>6, <1>7, <1>8, <1>9 DEF StatementsNext, EraseQuery

\* No statement ever runs on an array that passes for current and is not.
THEOREM BindingsStayLive == StatementsSpec => []BindingsAreLive
<1>1. StatementsInv => BindingsAreLive
  BY DEF StatementsInv, Sound, BindingsAreLive
<1> QED
  BY <1>1, StatementsInvInit, StatementsInvStep, PTL DEF StatementsSpec

------------------------------------------------------------------------------
(***************************************************************************)
(* KeepsObjects: the statements implement the object table.                *)
(*                                                                         *)
(* Columns and bindings first.  The present columns of a text are those of *)
(* the array its statement is bound to, place by place, and each column of *)
(* the class is one of them: so what is bound for a column is what the     *)
(* text means by it.                                                       *)
(***************************************************************************)

\* What a column adds to those found before it.
Found(before, c) == IF Present(c) THEN Append(before, c) ELSE before

LEMMA FoundOneByOne ==
    ASSUME NEW S, NEW order \in Seq(S)
    PROVE  /\ PresentUpTo(order) \in [0 .. Len(order) -> Seq(S)]
           /\ PresentUpTo(order)[0] = <<>>
           /\ \A n \in 1 .. Len(order) :
                PresentUpTo(order)[n] = Found(PresentUpTo(order)[n - 1], order[n])
<1> DEFINE L == Len(order)
           g == [turn \in (1 .. L) \X Seq(S) |-> Found(turn[2], order[turn[1]])]
           Body(f) == [n \in 0 .. L |->
               IF n = 0 THEN <<>>
               ELSE IF Present(order[n]) THEN Append(f[n - 1], order[n]) ELSE f[n - 1]]
           found == CHOOSE f : f = Body(f)
<1>1. L \in Nat /\ \A n \in 1 .. L : order[n] \in S
  OBVIOUS
<1>2. \A c \in S, before \in Seq(S) : Found(before, c) \in Seq(S)
  BY AppendProperties DEF Found
<1> HIDE DEF L
<1>3. ASSUME NEW n \in 1 .. L, NEW v \in Seq(S) PROVE g[<<n, v>>] = Found(v, order[n])
  OBVIOUS
<1>4. g \in [(1 .. L) \X Seq(S) -> Seq(S)]
  <2> SUFFICES ASSUME NEW turn \in (1 .. L) \X Seq(S) PROVE Found(turn[2], order[turn[1]]) \in Seq(S)
    OBVIOUS
  <2>1. turn[1] \in 1 .. L /\ turn[2] \in Seq(S)
    OBVIOUS
  <2> QED BY <1>1, <1>2, <2>1
<1>5. PICK f \in [0 .. L -> Seq(S)] :
          \A n \in 0 .. L : f[n] = IF n = 0 THEN <<>> ELSE g[<<n, f[n - 1]>>]
  <2> HIDE DEF g
  <2>1. <<>> \in Seq(S)
    OBVIOUS
  <2>2. Turns(Seq(S), <<>>, L, g) # {}
    BY <1>1, <1>4, <2>1, Loop
  <2> QED BY <2>2 DEF Turns
<1>6. f = Body(f)
  <2>1. ASSUME NEW n \in 0 .. L PROVE f[n] = Body(f)[n]
    <3>1. CASE n = 0
      BY <1>5, <3>1
    <3>2. CASE n # 0
      <4>1. n \in 1 .. L /\ n - 1 \in 0 .. L
        BY <1>1, <3>2
      <4>2. f[n - 1] \in Seq(S)
        BY <4>1
      <4>3. f[n] = Found(f[n - 1], order[n])
        <5> HIDE DEF g
        <5> QED BY <1>3, <1>5, <3>2, <4>1, <4>2
      <4> QED BY <3>2, <4>3 DEF Found
    <3> QED BY <3>1, <3>2
  <2> QED BY <2>1
<1>7. found = Body(found)
  <2> HIDE DEF Body
  <2> QED BY <1>6
<1>8. PresentUpTo(order) = found
  BY DEF PresentUpTo, L
<1> HIDE DEF found, g
<1>9. found[0] = <<>> /\ \A n \in 1 .. L : found[n] = Found(found[n - 1], order[n])
  <2>1. \A n \in 0 .. L : found[n] =
            IF n = 0 THEN <<>>
            ELSE IF Present(order[n]) THEN Append(found[n - 1], order[n]) ELSE found[n - 1]
    BY <1>7
  <2>2. 0 \in 0 .. L /\ \A n \in 1 .. L : n \in 0 .. L /\ n # 0
    BY <1>1
  <2> QED BY <2>1, <2>2 DEF Found
<1>10. found \in [0 .. L -> Seq(S)]
  <2> DEFINE T == { n \in Nat : n <= L => found[n] \in Seq(S) }
  <2>1. 0 \in T
    <3>1. <<>> \in Seq(S)
      OBVIOUS
    <3> QED BY <1>9, <3>1
  <2>2. ASSUME NEW n \in Nat, n \in T PROVE n + 1 \in T
    <3> SUFFICES ASSUME n + 1 <= L PROVE found[n + 1] \in Seq(S)
      OBVIOUS
    <3>1. n + 1 \in 1 .. L /\ (n + 1) - 1 = n /\ n <= L
      BY <1>1
    <3>2. found[n] \in Seq(S)
      BY <2>2, <3>1
    <3> QED BY <1>1, <1>2, <1>9, <3>1, <3>2
  <2>3. Nat \subseteq T
    <3> HIDE DEF T
    <3> QED BY <2>1, <2>2, Induction
  <2>4. \A n \in 0 .. L : found[n] \in Seq(S)
    BY <1>1, <2>3
  <2>5. found = [n \in 0 .. L |-> found[n]]
    BY <1>7
  <2> QED BY <2>4, <2>5
<1> QED BY <1>8, <1>9, <1>10 DEF L

\* Every present column of an order is found.
LEMMA PresentFound ==
    ASSUME NEW S, NEW order \in Seq(S), NEW m \in 1 .. Len(order), Present(order[m])
    PROVE  \E k \in DOMAIN PresentIn(order) : PresentIn(order)[k] = order[m]
<1> DEFINE L == Len(order)
           f == PresentUpTo(order)
           Has(n) == \E k \in 1 .. Len(f[n]) : f[n][k] = order[m]
           T == { n \in Nat : m <= n /\ n <= L => Has(n) }
<1>1. L \in Nat /\ m \in Nat /\ m >= 1 /\ m <= L /\ \A n \in 1 .. L : order[n] \in S
  OBVIOUS
<1>2. f \in [0 .. L -> Seq(S)] /\ \A n \in 1 .. L : f[n] = Found(f[n - 1], order[n])
  BY FoundOneByOne
<1> HIDE DEF L, f
<1>3. ASSUME NEW n \in 1 .. L, n = m \/ Has(n - 1) PROVE Has(n)
  <2>1. n - 1 \in 0 .. L
    BY <1>1
  <2>2. f[n - 1] \in Seq(S) /\ Len(f[n - 1]) \in Nat
    BY <1>2, <2>1, LenProperties
  <2>3. CASE Present(order[n])
    <3>1. f[n] = Append(f[n - 1], order[n])
      BY <1>2, <2>3 DEF Found
    <3>2. /\ Len(f[n]) = Len(f[n - 1]) + 1 /\ f[n][Len(f[n - 1]) + 1] = order[n]
          /\ \A k \in 1 .. Len(f[n - 1]) : f[n][k] = f[n - 1][k]
      BY <1>1, <2>2, <3>1, AppendProperties
    <3>3. Len(f[n - 1]) + 1 \in 1 .. Len(f[n]) /\ \A k \in 1 .. Len(f[n - 1]) : k \in 1 .. Len(f[n])
      BY <2>2, <3>2
    <3> QED BY <1>3, <3>2, <3>3
  <2>4. CASE ~Present(order[n])
    <3>1. f[n] = f[n - 1] /\ n # m
      BY <1>2, <2>4 DEF Found
    <3> QED BY <1>3, <3>1
  <2> QED BY <2>3, <2>4
<1>4. 0 \in T
  BY <1>1
<1>5. ASSUME NEW n \in Nat, n \in T PROVE n + 1 \in T
  <2> SUFFICES ASSUME m <= n + 1, n + 1 <= L PROVE Has(n + 1)
    <3> HIDE DEF Has
    <3> QED OBVIOUS
  <2> HIDE DEF Has
  <2>1. n + 1 \in 1 .. L /\ (n + 1) - 1 = n /\ n <= L
    BY <1>1
  <2>2. n + 1 = m \/ m <= n
    BY <1>1
  <2>3. n + 1 = m \/ Has(n)
    BY <1>5, <2>1, <2>2
  <2> QED BY <1>3, <2>1, <2>3
<1>6. L \in T
  <2>1. Nat \subseteq T
    <3> HIDE DEF T
    <3> QED BY <1>4, <1>5, Induction
  <2> HIDE DEF T
  <2> QED BY <1>1, <2>1
<1>7. Has(L)
  <2> HIDE DEF Has
  <2> QED BY <1>1, <1>6
<1>8. PresentIn(order) = f[L] /\ f[L] \in Seq(S)
  <2>1. L \in 0 .. L
    BY <1>1
  <2> QED BY <1>2, <2>1 DEF PresentIn, f, L
<1> QED BY <1>7, <1>8, LenProperties

\* Two orders, one with a present column in front of the other.
LEMMA PresentBehind ==
    ASSUME NEW S, NEW a \in Seq(S), NEW b \in Seq(S), Len(a) = Len(b) + 1,
           Present(a[1]), \A n \in 1 .. Len(b) : a[n + 1] = b[n]
    PROVE  Tail(PresentIn(a)) = PresentIn(b)
<1> DEFINE L == Len(b)
           f == PresentUpTo(a)
           g == PresentUpTo(b)
           T == { n \in Nat : n <= L => f[n + 1] # <<>> /\ Tail(f[n + 1]) = g[n] }
<1>1. /\ L \in Nat /\ Len(a) = L + 1
      /\ \A n \in 1 .. L + 1 : a[n] \in S
  OBVIOUS
<1>2. /\ f \in [0 .. L + 1 -> Seq(S)] /\ f[0] = <<>>
      /\ \A n \in 1 .. L + 1 : f[n] = Found(f[n - 1], a[n])
  BY FoundOneByOne
<1>3. /\ g[0] = <<>>
      /\ \A n \in 1 .. L : g[n] = Found(g[n - 1], b[n])
  BY FoundOneByOne
<1>4. \A n \in 1 .. L : a[n + 1] = b[n]
  OBVIOUS
<1> HIDE DEF L, f, g
<1>5. 0 \in T
  <2>1. 1 \in 1 .. L + 1 /\ 1 - 1 = 0
    BY <1>1
  <2>2. f[1] = Append(<<>>, a[1]) /\ a[1] \in S
    <3>1. f[1] = Found(f[0], a[1]) /\ f[0] = <<>>
      BY <1>2, <2>1
    <3> QED BY <1>1, <2>1, <3>1 DEF Found
  <2>3. f[1] # <<>> /\ Tail(f[1]) = <<>>
    <3>1. <<>> \in Seq(S)
      OBVIOUS
    <3> QED BY <2>2, <3>1, AppendProperties, HeadTailAppend
  <2>4. f[0 + 1] # <<>> /\ Tail(f[0 + 1]) = g[0]
    BY <1>3, <2>3
  <2> QED BY <2>4
<1>6. ASSUME NEW n \in Nat, n \in T PROVE n + 1 \in T
  <2> SUFFICES ASSUME n + 1 <= L
               PROVE  f[(n + 1) + 1] # <<>> /\ Tail(f[(n + 1) + 1]) = g[n + 1]
    OBVIOUS
  <2>1. /\ n + 1 \in 1 .. L /\ (n + 1) - 1 = n /\ n <= L /\ n + 1 \in 0 .. L + 1
        /\ (n + 1) + 1 \in 1 .. L + 1 /\ ((n + 1) + 1) - 1 = n + 1
    BY <1>1
  <2>2. f[n + 1] # <<>> /\ Tail(f[n + 1]) = g[n] /\ f[n + 1] \in Seq(S)
    BY <1>2, <1>6, <2>1
  <2>3. f[(n + 1) + 1] = Found(f[n + 1], a[(n + 1) + 1]) /\ g[n + 1] = Found(g[n], b[n + 1])
    BY <1>2, <1>3, <2>1
  <2>4. a[(n + 1) + 1] = b[n + 1] /\ a[(n + 1) + 1] \in S
    BY <1>1, <1>4, <2>1
  <2> HIDE DEF T
  <2> DEFINE s == f[n + 1]  c == a[(n + 1) + 1]
  <2>5. s \in Seq(S) /\ s # <<>> /\ c \in S /\ Tail(s) = g[n]
    BY <2>2, <2>4
  <2>6. f[(n + 1) + 1] = Found(s, c) /\ g[n + 1] = Found(g[n], c)
    BY <2>3, <2>4
  <2> HIDE DEF s, c
  <2>7. Append(s, c) # <<>>
    BY <2>5, AppendProperties
  <2>8. Tail(Append(s, c)) = Append(Tail(s), c)
    BY <2>5, HeadTailAppend
  <2> QED BY <2>5, <2>6, <2>7, <2>8 DEF Found
<1>7. L \in T
  <2>1. Nat \subseteq T
    <3> HIDE DEF T
    <3> QED BY <1>5, <1>6, Induction
  <2> HIDE DEF T
  <2> QED BY <1>1, <2>1
<1>8. Tail(f[L + 1]) = g[L]
  BY <1>1, <1>7
<1> QED BY <1>1, <1>8 DEF PresentIn, f, g, L

\* The orders are sequences of names.
Names == {"id"} \cup EventSaved \cup PredictionSaved

LEMMA Listed ==
    ASSUME NEW S, NEW n \in Nat, NEW t, t = [i \in 1 .. n |-> t[i]], \A i \in 1 .. n : t[i] \in S
    PROVE  t \in Seq(S)
OBVIOUS

LEMMA OrdersAreOfNames ==
    /\ EventBind \in Seq(Names) /\ EventUpdate \in Seq(Names) /\ EventInsert \in Seq(Names)
    /\ PredictionBind \in Seq(Names) /\ PredictionUpdate \in Seq(Names)
    /\ PredictionInsert \in Seq(Names)
<1>1. EventBind \in Seq(Names)
  <2>1. EventBind = [i \in 1 .. 12 |-> EventBind[i]]
    BY DEF EventBind
  <2>2. \A i \in 1 .. 12 : EventBind[i] \in Names
    BY DEF EventBind, Names, EventSaved, PredictionSaved
  <2> HIDE DEF Names
  <2> QED BY <2>1, <2>2, Listed
<1>2. EventUpdate \in Seq(Names)
  <2>1. EventUpdate = [i \in 1 .. 11 |-> EventUpdate[i]]
    BY DEF EventUpdate
  <2>2. \A i \in 1 .. 11 : EventUpdate[i] \in Names
    BY DEF EventUpdate, Names, EventSaved, PredictionSaved
  <2> HIDE DEF Names
  <2> QED BY <2>1, <2>2, Listed
<1>3. EventInsert \in Seq(Names)
  <2>1. EventInsert = [i \in 1 .. 12 |-> EventInsert[i]]
    BY DEF EventInsert
  <2>2. \A i \in 1 .. 12 : EventInsert[i] \in Names
    BY DEF EventInsert, Names, EventSaved, PredictionSaved
  <2> HIDE DEF Names
  <2> QED BY <2>1, <2>2, Listed
<1>4. PredictionBind \in Seq(Names)
  <2>1. PredictionBind = [i \in 1 .. 7 |-> PredictionBind[i]]
    BY DEF PredictionBind
  <2>2. \A i \in 1 .. 7 : PredictionBind[i] \in Names
    BY DEF PredictionBind, Names, EventSaved, PredictionSaved
  <2> HIDE DEF Names
  <2> QED BY <2>1, <2>2, Listed
<1>5. PredictionUpdate \in Seq(Names)
  <2>1. PredictionUpdate = [i \in 1 .. 6 |-> PredictionUpdate[i]]
    BY DEF PredictionUpdate
  <2>2. \A i \in 1 .. 6 : PredictionUpdate[i] \in Names
    BY DEF PredictionUpdate, Names, EventSaved, PredictionSaved
  <2> HIDE DEF Names
  <2> QED BY <2>1, <2>2, Listed
<1>6. PredictionInsert \in Seq(Names)
  <2>1. PredictionInsert = [i \in 1 .. 7 |-> PredictionInsert[i]]
    BY DEF PredictionInsert
  <2>2. \A i \in 1 .. 7 : PredictionInsert[i] \in Names
    BY DEF PredictionInsert, Names, EventSaved, PredictionSaved
  <2> HIDE DEF Names
  <2> QED BY <2>1, <2>2, Listed
<1> QED BY <1>1, <1>2, <1>3, <1>4, <1>5, <1>6

\* Every statement's array has the columns in the order of its text.
LEMMA ArraysFitTexts ==
    /\ Slots("insert") = InsertText /\ Slots("update") = UpdateText
    /\ Slots("select") = SelectText /\ Slots("select") = QueryText
<1>1. /\ Len(EventBind) = Len(EventUpdate) + 1 /\ EventBind[1] = "id"
      /\ \A n \in 1 .. Len(EventUpdate) : EventBind[n + 1] = EventUpdate[n]
  BY DEF EventBind, EventUpdate
<1>2. /\ Len(PredictionBind) = Len(PredictionUpdate) + 1 /\ PredictionBind[1] = "id"
      /\ \A n \in 1 .. Len(PredictionUpdate) : PredictionBind[n + 1] = PredictionUpdate[n]
  BY DEF PredictionBind, PredictionUpdate
<1>3. Present("id")
  BY DEF Present
<1>4. /\ Tail(PresentIn(EventBind)) = PresentIn(EventUpdate)
      /\ Tail(PresentIn(PredictionBind)) = PresentIn(PredictionUpdate)
  BY <1>1, <1>2, <1>3, OrdersAreOfNames, PresentBehind
<1>5. Slots("update") = UpdateText
  BY <1>4 DEF Slots, UpdateText, Of
<1>6. EventInsert = EventBind /\ EventQuery = EventBind /\ EventSelect = EventBind
  BY DEF EventBind, EventInsert, EventSelect, EventQuery
<1>7. /\ PredictionInsert = PredictionBind /\ PredictionQuery = PredictionBind
      /\ PredictionSelect = PredictionBind
  BY DEF PredictionBind, PredictionInsert, PredictionSelect, PredictionQuery
<1> QED
  BY <1>5, <1>6, <1>7 DEF Slots, InsertText, SelectText, QueryText

\* Every column of the class has a place in each text.
Covers(text) == \A c \in Columns : \E i \in DOMAIN text : text[i] = c

LEMMA TextsCover ==
    Covers(InsertText) /\ Covers(UpdateText) /\ Covers(SelectText) /\ Covers(QueryText)
<1>1. ASSUME NEW c \in EventSaved
      PROVE  /\ \E m \in 1 .. Len(EventUpdate) : EventUpdate[m] = c
             /\ \E m \in 1 .. Len(EventInsert) : EventInsert[m] = c
  <2>1. /\ Len(EventUpdate) = 11 /\ EventUpdate[1] = "label" /\ EventUpdate[2] = "subLabel"
        /\ EventUpdate[3] = "camera" /\ EventUpdate[4] = "startTime"
        /\ EventUpdate[5] = "endTime" /\ EventUpdate[6] = "trackerId"
        /\ EventUpdate[7] = "topScore" /\ EventUpdate[8] = "score"
        /\ EventUpdate[9] = "thumbnail" /\ EventUpdate[10] = "hasClip"
        /\ EventUpdate[11] = "licensePlateResults"
    BY DEF EventUpdate
  <2>2. \E m \in 1 .. 11 : EventUpdate[m] = c
    <3>1. \A k \in {1, 2, 3, 4, 5, 6, 7, 8, 9, 10, 11} : k \in 1 .. 11
      OBVIOUS
    <3> QED BY <1>1, <2>1, <3>1 DEF EventSaved
  <2>3. /\ Len(EventInsert) = 12 /\ Len(EventUpdate) = 11
        /\ \A m \in 1 .. 11 : EventInsert[m + 1] = EventUpdate[m]
    BY DEF EventInsert, EventUpdate
  <2>4. \A m \in 1 .. 11 : m + 1 \in 1 .. 12
    OBVIOUS
  <2> QED BY <2>2, <2>3, <2>4
<1>2. ASSUME NEW c \in PredictionSaved
      PROVE  /\ \E m \in 1 .. Len(PredictionUpdate) : PredictionUpdate[m] = c
             /\ \E m \in 1 .. Len(PredictionInsert) : PredictionInsert[m] = c
  <2>1. /\ Len(PredictionUpdate) = 6 /\ PredictionUpdate[1] = "eventId"
        /\ PredictionUpdate[2] = "frameId" /\ PredictionUpdate[3] = "videoTimestamp"
        /\ PredictionUpdate[4] = "streamTimestamp" /\ PredictionUpdate[5] = "data"
        /\ PredictionUpdate[6] = "hasSubPredictions"
    BY DEF PredictionUpdate
  <2>2. \E m \in 1 .. 6 : PredictionUpdate[m] = c
    <3>1. \A k \in {1, 2, 3, 4, 5, 6} : k \in 1 .. 6
      OBVIOUS
    <3> QED BY <1>2, <2>1, <3>1 DEF PredictionSaved
  <2>3. /\ Len(PredictionInsert) = 7
        /\ \A m \in 1 .. 6 : PredictionInsert[m + 1] = PredictionUpdate[m]
    BY DEF PredictionInsert, PredictionUpdate
  <2>4. \A m \in 1 .. 6 : m + 1 \in 1 .. 7
    OBVIOUS
  <2> QED BY <2>1, <2>2, <2>3, <2>4
<1>3. EventQuery = EventInsert /\ EventSelect = EventInsert
  BY DEF EventInsert, EventSelect, EventQuery
<1>4. PredictionQuery = PredictionInsert /\ PredictionSelect = PredictionInsert
  BY DEF PredictionInsert, PredictionSelect, PredictionQuery
<1>5. Covers(UpdateText) /\ Covers(InsertText)
  <2> SUFFICES ASSUME NEW c \in Columns
               PROVE  /\ \E i \in DOMAIN UpdateText : UpdateText[i] = c
                      /\ \E i \in DOMAIN InsertText : InsertText[i] = c
    BY DEF Covers
  <2>1. Present(c) /\ c \in Of(EventSaved, PredictionSaved)
    BY DEF Columns
  <2>2. CASE class = "Event"
    <3>1. c \in EventSaved /\ UpdateText = PresentIn(EventUpdate) /\ InsertText = PresentIn(EventInsert)
      BY <2>1, <2>2 DEF Of, UpdateText, InsertText
    <3>2. PICK m \in 1 .. Len(EventUpdate), n \in 1 .. Len(EventInsert) :
                EventUpdate[m] = c /\ EventInsert[n] = c
      BY <1>1, <3>1
    <3> QED BY <2>1, <3>1, <3>2, OrdersAreOfNames, PresentFound
  <2>3. CASE class # "Event"
    <3>1. /\ c \in PredictionSaved /\ UpdateText = PresentIn(PredictionUpdate)
          /\ InsertText = PresentIn(PredictionInsert)
      BY <2>1, <2>3 DEF Of, UpdateText, InsertText
    <3>2. PICK m \in 1 .. Len(PredictionUpdate), n \in 1 .. Len(PredictionInsert) :
                PredictionUpdate[m] = c /\ PredictionInsert[n] = c
      BY <1>2, <3>1
    <3> QED BY <2>1, <3>1, <3>2, OrdersAreOfNames, PresentFound
  <2> QED BY <2>2, <2>3
<1> QED
  BY <1>3, <1>4, <1>5 DEF InsertText, SelectText, QueryText

------------------------------------------------------------------------------
(***************************************************************************)
(* An object is sent whole, and a row is loaded whole, by statements that  *)
(* are sound: the array in use points to the buffers of the image, and     *)
(* text and array agree.  What is loaded truncated makes a buffer grow, so *)
(* the image gets a new version and the text is fetched again.             *)
(***************************************************************************)

\* The image has a value for every column and a capacity for every text.
Filled(s) == DOMAIN s.val = Columns /\ s.cap \in [Texts -> Nat]

LEMMA ObjectParts ==
    ASSUME NEW o \in Objects
    PROVE  o = [c \in Columns |-> o[c]] /\ \A c \in Columns : o[c].len \in Nat
BY DEF Objects, Value

LEMMA ObjectsOfAnyVersion == Objects \subseteq AnyObject
<1> DEFINE saved == Of(EventSaved, PredictionSaved)
           old == IF version2 THEN {} ELSE {"licensePlateResults", "hasSubPredictions"}
<1>1. Columns = saved \ old
  BY DEF Columns, Present
<1>2. saved \in {EventSaved, PredictionSaved}
  BY DEF Of
<1>3. old \in {{}, {"licensePlateResults", "hasSubPredictions"}}
  OBVIOUS
<1> DEFINE Made(columns) ==
               { [c \in columns |-> Value(c, IF c \in long THEN 2 ELSE 1)] : long \in LongColumns }
           All == { some \ gone : some \in {EventSaved, PredictionSaved},
                                  gone \in {{}, {"licensePlateResults", "hasSubPredictions"}} }
<1>4. Columns \in All
  <2> HIDE DEF saved, old
  <2> QED BY <1>1, <1>2, <1>3
<1>5. Objects = Made(Columns) /\ AnyObject = UNION { Made(columns) : columns \in All }
  BY DEF Objects, AnyObject
<1> HIDE DEF All, Made
<1> QED BY <1>4, <1>5

\* Filling an array leaves the image alone, and the array fits it then.
LEMMA BindFits ==
    ASSUME NEW s, Sound(s), NEW kind \in Kinds
    PROVE  /\ Bind(s, kind).val = s.val /\ Bind(s, kind).cap = s.cap
           /\ Bind(s, kind).version = s.version
           /\ Bind(s, kind).made[kind].caps = s.cap
<1>1. CASE s.made[kind].bound /\ s.made[kind].version = s.version
  BY <1>1 DEF Bind, Sound
<1>2. CASE ~(s.made[kind].bound /\ s.made[kind].version = s.version)
  <2> DEFINE array == [bound |-> TRUE, version |-> s.version, caps |-> s.cap]
  <2>1. Bind(s, kind) = [s EXCEPT !.made[kind] = array]
    BY <1>2 DEF Bind
  <2>2. /\ s = [val |-> s.val, cap |-> s.cap, version |-> s.version, made |-> s.made]
        /\ s.made = [k \in Kinds |-> s.made[k]]
    BY DEF Sound, Formed
  <2>3. Bind(s, kind) = [val |-> s.val, cap |-> s.cap, version |-> s.version,
                         made |-> [s.made EXCEPT ![kind] = array]]
    BY <2>1, <2>2
  <2>4. [s.made EXCEPT ![kind] = array][kind] = array
    BY <2>2
  <2> QED BY <2>3, <2>4
<1> QED BY <1>1, <1>2

\* What is sent is the image, column by column.
LEMMA SentWhole ==
    ASSUME NEW s, NEW kind, s.made[kind].caps = s.cap, NEW text,
           Slots(kind) = text, Covers(text)
    PROVE  Sent(s, kind, text) = [c \in Columns |-> s.val[c]]
<1>1. ASSUME NEW c \in Columns
      PROVE  text[CHOOSE i \in DOMAIN text : text[i] = c] = c
  BY DEF Covers
<1>2. \A c : Points(s, kind, c)
  BY DEF Points
<1> QED BY <1>1, <1>2 DEF Sent

\* What is received replaces the values of the columns asked for.
LEMMA ReceivedWhole ==
    ASSUME NEW s, Sound(s), Filled(s), s.made["select"].caps = s.cap, NEW text,
           Slots("select") = text, Covers(text), NEW row, NEW columns \in SUBSET Columns
    PROVE  Received(s, row, text, columns) =
             [val |-> [c \in Columns |-> IF c \in columns THEN row[c] ELSE s.val[c]],
              cap |-> s.cap, version |-> s.version, made |-> s.made]
<1> DEFINE At(c) == { i \in { k \in DOMAIN text : text[k] \in columns } : text[i] = c }
<1>1. \A c : Points(s, "select", c)
  BY DEF Points
<1>2. Received(s, row, text, columns) =
        [s EXCEPT !.val = [c \in DOMAIN s.val |->
            IF At(c) = {} THEN s.val[c] ELSE row[text[CHOOSE i \in At(c) : TRUE]]]]
  BY <1>1 DEF Received
<1>3. ASSUME NEW c \in Columns
      PROVE  (IF At(c) = {} THEN s.val[c] ELSE row[text[CHOOSE i \in At(c) : TRUE]])
                = IF c \in columns THEN row[c] ELSE s.val[c]
  <2>1. CASE c \in columns
    <3>1. At(c) # {}
      BY <2>1 DEF Covers
    <3>2. \A i \in At(c) : text[i] = c
      OBVIOUS
    <3> HIDE DEF At
    <3>3. text[CHOOSE i \in At(c) : TRUE] = c
      BY <3>1, <3>2
    <3> QED BY <2>1, <3>1, <3>3
  <2>2. CASE c \notin columns
    <3>1. At(c) = {}
      BY <2>2
    <3> QED BY <2>2, <3>1
  <2> QED BY <2>1, <2>2
<1>4. s = [val |-> s.val, cap |-> s.cap, version |-> s.version, made |-> s.made]
  BY DEF Sound, Formed
<1>5. DOMAIN s.val = Columns
  BY DEF Filled
<1> HIDE DEF At
<1>6. [c \in DOMAIN s.val |->
            IF At(c) = {} THEN s.val[c] ELSE row[text[CHOOSE i \in At(c) : TRUE]]]
        = [c \in Columns |-> IF c \in columns THEN row[c] ELSE s.val[c]]
  BY <1>3, <1>5
<1> QED BY <1>2, <1>4, <1>6

\* Growing a buffer gives the image a new version.
LEMMA ResizedParts ==
    ASSUME NEW s, Sound(s), NEW cap
    PROVE  /\ Resized(s, cap) = [val |-> s.val, cap |-> cap, made |-> s.made,
                                 version |-> IF cap = s.cap THEN s.version ELSE s.version + 1]
           /\ cap # s.cap => s.version + 1 # s.version
<1>1. s = [val |-> s.val, cap |-> s.cap, version |-> s.version, made |-> s.made]
      /\ s.version \in Nat
  BY DEF Sound, Formed
<1>2. Resized(s, cap) = [s EXCEPT !.cap = cap,
                                  !.version = IF cap = s.cap THEN s.version ELSE s.version + 1]
  BY DEF Resized
<1>3. CASE cap = s.cap
  <2>1. Resized(s, cap) = [s EXCEPT !.cap = cap, !.version = s.version]
    BY <1>2, <1>3
  <2> QED BY <1>1, <1>3, <2>1
<1>4. CASE cap # s.cap
  <2>1. Resized(s, cap) = [s EXCEPT !.cap = cap, !.version = s.version + 1]
    BY <1>2, <1>4
  <2>2. Resized(s, cap) = [val |-> s.val, cap |-> cap, version |-> s.version + 1, made |-> s.made]
    BY <1>1, <2>1
  <2> QED BY <1>1, <1>4, <2>2
<1> QED BY <1>3, <1>4

\* Saving gives the image the object's values, and room for its texts.
LEMMA SavedWhole ==
    ASSUME NEW s, Sound(s), Filled(s), NEW o \in Objects
    PROVE  /\ Save(s, o).val = [c \in Columns |-> o[c]]
           /\ Filled(Save(s, o))
<1> DEFINE saved == { c \in Of(EventSaved, PredictionSaved) : Present(c) }
           cap == [t \in Texts |-> IF t \in saved /\ o[t].len > s.cap[t] THEN o[t].len
                                   ELSE s.cap[t]]
           r == Resized(s, cap)
<1>1. saved = Columns
  BY DEF Columns
<1>2. cap \in [Texts -> Nat]
  BY <1>1, ObjectParts DEF Filled
<1> HIDE DEF cap
<1>3. r = [val |-> s.val, cap |-> cap, made |-> s.made, version |-> r.version]
  BY ResizedParts
<1>4. Save(s, o) = [r EXCEPT !.val = [c \in DOMAIN r.val |-> IF c \in saved THEN o[c] ELSE r.val[c]]]
  BY DEF Save, cap
<1>5. [c \in DOMAIN r.val |-> IF c \in saved THEN o[c] ELSE r.val[c]] = [c \in Columns |-> o[c]]
  <2>1. DOMAIN r.val = Columns
    BY <1>3 DEF Filled
  <2> HIDE DEF saved, r
  <2> QED BY <1>1, <2>1
<1> HIDE DEF saved, r
<1>6. Save(s, o) = [val |-> [c \in Columns |-> o[c]], cap |-> cap, made |-> r.made, version |-> r.version]
  BY <1>3, <1>4, <1>5
<1> QED BY <1>2, <1>6 DEF Filled

\* INSERT and UPDATE send the object that is saved.
LEMMA ObjectSent ==
    ASSUME NEW s, Sound(s), Filled(s), NEW o \in Objects, NEW kind \in Kinds, NEW text,
           Slots(kind) = text, Covers(text)
    PROVE  /\ Sent(Bind(Save(s, o), kind), kind, text) = o
           /\ Filled(Bind(Save(s, o), kind))
<1> DEFINE f == Save(s, o)
<1>1. Sound(f) /\ f.val = [c \in Columns |-> o[c]] /\ Filled(f)
  BY SaveSound, SavedWhole
<1> HIDE DEF f
<1>2. /\ Bind(f, kind).val = f.val /\ Bind(f, kind).cap = f.cap
      /\ Bind(f, kind).made[kind].caps = Bind(f, kind).cap
  BY <1>1, BindFits
<1>3. Sent(Bind(f, kind), kind, text) = [c \in Columns |-> f.val[c]]
  BY <1>2, SentWhole
<1>4. o = [c \in Columns |-> o[c]]
  BY ObjectParts
<1>5. Filled(Bind(f, kind))
  BY <1>1, <1>2 DEF Filled
<1>6. [c \in Columns |-> f.val[c]] = o
  BY <1>1, <1>4
<1> QED BY <1>3, <1>5, <1>6 DEF f

\* find and a query's result load the object of the row.
LEMMA RowLoaded ==
    ASSUME NEW s0, Sound(s0), Filled(s0), NEW row \in Objects, NEW text,
           Slots("select") = text, Covers(text)
    PROVE  Loaded(Load(s0, row, text)) = row /\ Filled(Load(s0, row, text))
<1> DEFINE s == Bind(s0, "select")
           truncated == { c \in Columns \cap Texts : row[c].len > s.made["select"].caps[c] }
           first == Received(s, row, text, Columns \ truncated)
           grown == truncated \cap Of(EventGrown, PredictionGrown)
           cap == [t \in Texts |-> IF t \in grown THEN row[t].len ELSE first.cap[t]]
           large == Resized(first, cap)
           again == Bind(large, "select")
           last == Received(again, row, text, truncated)
<1>0. "select" \in Kinds
  BY DEF Kinds
<1>1. /\ Sound(s) /\ Filled(s) /\ s.made["select"].caps = s.cap
  BY <1>0, BindSound, BindFits DEF Filled
<1>2. /\ truncated \subseteq Columns /\ truncated \subseteq Texts /\ grown = truncated
      /\ \A c \in truncated : row[c].len > s.cap[c] /\ s.cap[c] \in Nat /\ row[c].len \in Nat
  <2>1. Texts = Of(EventGrown, PredictionGrown)
    BY DEF Texts, Of, EventGrown, PredictionGrown
  <2> HIDE DEF s
  <2>2. truncated \subseteq Columns /\ truncated \subseteq Texts
    OBVIOUS
  <2>3. \A c \in truncated : row[c].len > s.cap[c]
    BY <1>1
  <2>4. \A c \in truncated : s.cap[c] \in Nat /\ row[c].len \in Nat
    BY <1>1, <2>2, ObjectParts DEF Filled
  <2> QED BY <2>1, <2>2, <2>3, <2>4
<1>3. Load(s0, row, text) = IF again.version = first.version THEN first ELSE last
  BY DEF Load
<1> HIDE DEF s, truncated
<1>4. /\ first = [val |-> [c \in Columns |-> IF c \in Columns \ truncated THEN row[c] ELSE s.val[c]],
                  cap |-> s.cap, version |-> s.version, made |-> s.made]
      /\ Sound(first)
  <2>1. Columns \ truncated \in SUBSET Columns
    OBVIOUS
  <2>2. Sound(first)
    BY <1>1, ValuesSound DEF Received
  <2> QED BY <1>1, <2>1, <2>2, ReceivedWhole
<1> HIDE DEF first, grown
<1>5. Filled(first)
  BY <1>1, <1>4 DEF Filled
<1>6. cap \in [Texts -> Nat] /\ \A c \in truncated : cap[c] = row[c].len
  <2>1. first.cap \in [Texts -> Nat]
    BY <1>5 DEF Filled
  <2> QED BY <1>2, <2>1
<1>7. truncated = {} => cap = first.cap
  <2>1. first.cap \in [Texts -> Nat]
    BY <1>5 DEF Filled
  <2> QED BY <1>2, <2>1
<1> HIDE DEF cap
<1>8. /\ large = [val |-> first.val, cap |-> cap, made |-> first.made,
                  version |-> IF cap = first.cap THEN first.version ELSE first.version + 1]
      /\ cap # first.cap => first.version + 1 # first.version
      /\ Sound(large)
  BY <1>4, ResizedParts, ResizedSound
<1>9. /\ again.val = first.val /\ again.cap = cap
      /\ again.version = IF cap = first.cap THEN first.version ELSE first.version + 1
      /\ again.made["select"].caps = again.cap /\ Sound(again)
  <2> HIDE DEF large
  <2> QED BY <1>0, <1>8, BindFits, BindSound
<1> HIDE DEF large, again
<1>10. row = [c \in Columns |-> row[c]]
  BY ObjectParts
<1>11. /\ Load(s0, row, text).val = row
       /\ Load(s0, row, text).cap \in [Texts -> Nat]
  <2>1. CASE truncated = {}
    <3>1. Load(s0, row, text) = first
      BY <1>3, <1>7, <1>9, <2>1
    <3>2. first.val = row
      BY <1>4, <1>10, <2>1
    <3> QED BY <1>5, <3>1, <3>2 DEF Filled
  <2>2. CASE truncated # {}
    <3>1. cap # first.cap
      <4>1. PICK c \in truncated : TRUE
        BY <2>2
      <4>2. first.cap[c] = s.cap[c]
        BY <1>4
      <4>3. cap[c] > first.cap[c] /\ cap[c] \in Nat /\ first.cap[c] \in Nat
        BY <1>2, <1>6, <4>1, <4>2
      <4> QED BY <4>3
    <3>2. Load(s0, row, text) = last
      BY <1>3, <1>8, <1>9, <3>1
    <3>3. Filled(again)
      BY <1>5, <1>6, <1>9 DEF Filled
    <3>4. last = [val |-> [c \in Columns |-> IF c \in truncated THEN row[c] ELSE again.val[c]],
                  cap |-> again.cap, version |-> again.version, made |-> again.made]
      BY <1>2, <1>9, <3>3, ReceivedWhole
    <3>5. [c \in Columns |-> IF c \in truncated THEN row[c] ELSE again.val[c]] = [c \in Columns |-> row[c]]
      <4>1. ASSUME NEW c \in Columns, c \notin truncated PROVE again.val[c] = row[c]
        BY <1>4, <1>9, <4>1
      <4> QED BY <4>1
    <3> QED BY <1>6, <1>9, <1>10, <3>2, <3>4, <3>5
  <2> QED BY <2>1, <2>2
<1>12. Loaded(Load(s0, row, text)) = [c \in Columns |-> Load(s0, row, text).val[c]]
  <2>1. \A c \in Columns : c \in Of(EventLoaded, PredictionLoaded)
    BY DEF Columns, Of, EventLoaded, PredictionLoaded
  <2> QED BY <2>1 DEF Loaded
<1>13. DOMAIN row = Columns
  BY <1>10
<1> QED BY <1>10, <1>11, <1>12, <1>13 DEF Filled

\* Of n or more ids, one is the n-th.
LEMMA NthId ==
    ASSUME NEW L \in Nat, NEW ids \in SUBSET (1 .. L), NEW n \in 1 .. Cardinality(ids)
    PROVE  \E i \in ids : Cardinality({ j \in ids : j <= i }) = n
<1> DEFINE Upto(i) == { j \in ids : j <= i }
           T == { i \in Nat : Cardinality(Upto(i)) >= n }
<1>1. IsFiniteSet(ids)
  <2>1. IsFiniteSet(1 .. L)
    BY FS_Interval
  <2> QED BY <2>1, FS_Subset
<1>2. \A i \in Nat : IsFiniteSet(Upto(i)) /\ Cardinality(Upto(i)) \in Nat
  <2>1. \A i \in Nat : Upto(i) \in SUBSET ids
    OBVIOUS
  <2> HIDE DEF Upto
  <2> QED BY <1>1, <2>1, FS_Subset, FS_CardinalityType
<1>3. n \in Nat /\ n >= 1 /\ Cardinality(ids) >= n
  BY <1>1, FS_CardinalityType
<1>4. Upto(L) = ids /\ Upto(0) = {}
  <2>1. \A j \in ids : j \in Nat /\ j <= L /\ ~(j <= 0)
    OBVIOUS
  <2> QED BY <2>1
<1>5. \A i \in Nat : Upto(i + 1) = IF i + 1 \in ids THEN Upto(i) \cup {i + 1} ELSE Upto(i)
  <2> SUFFICES ASSUME NEW i \in Nat, NEW j
               PROVE  j \in Upto(i + 1) <=>
                        j \in (IF i + 1 \in ids THEN Upto(i) \cup {i + 1} ELSE Upto(i))
    BY Zenon
  <2>1. CASE j \in ids
    BY <2>1
  <2>2. CASE j \notin ids
    BY <2>2
  <2> QED BY <2>1, <2>2
<1>6. \A i \in Nat : i + 1 \notin Upto(i)
  OBVIOUS
<1> HIDE DEF Upto
<1>7. PICK i \in T : \A j \in T : i <= j
  <2>1. L \in T
    BY <1>3, <1>4
  <2>2. T \subseteq Nat
    OBVIOUS
  <2> HIDE DEF T
  <2> QED BY <2>1, <2>2, LeastNumber
<1>8. i \in Nat /\ Cardinality(Upto(i)) >= n
  BY <1>7
<1>9. i # 0
  <2>1. Cardinality(Upto(0)) = 0
    BY <1>4, FS_EmptySet
  <2> QED BY <1>3, <1>8, <2>1
<1>10. i - 1 \in Nat /\ (i - 1) + 1 = i /\ ~(i <= i - 1)
  BY <1>8, <1>9
<1>11. Cardinality(Upto(i - 1)) \in Nat /\ Cardinality(Upto(i - 1)) < n
  <2>1. i - 1 \notin T
    BY <1>7, <1>10
  <2> QED BY <1>2, <1>3, <1>10, <2>1
<1>12. Upto(i) = IF i \in ids THEN Upto(i - 1) \cup {i} ELSE Upto(i - 1)
  BY <1>5, <1>10
<1>13. i \in ids
  BY <1>3, <1>8, <1>11, <1>12
<1>14. Cardinality(Upto(i)) = Cardinality(Upto(i - 1)) + 1
  <2>1. i \notin Upto(i - 1)
    BY <1>6, <1>10
  <2> QED BY <1>2, <1>10, <1>12, <1>13, <2>1, FS_AddElement
<1>15. Cardinality(Upto(i)) = n
  BY <1>3, <1>8, <1>11, <1>14
<1> QED BY <1>13, <1>15 DEF Upto

------------------------------------------------------------------------------
(***************************************************************************)
(* The invariant of the refinement: the statements are sound and filled,   *)
(* and the table and the rows of open queries are objects of the class.    *)
(***************************************************************************)
ObjectsInv ==
    /\ StatementsInv
    /\ \A u \in Connections : Filled(stmts[u])
    /\ lastId \in Nat /\ DOMAIN rows \subseteq 1 .. lastId
    /\ \A id \in DOMAIN rows : rows[id] \in Objects
    /\ cursor \in [Connections -> Seq(Objects)]

LEMMA ObjectsInvInit == StatementsInit => ObjectsInv /\ Store!StoreInit
<1> SUFFICES ASSUME StatementsInit PROVE ObjectsInv /\ Store!StoreInit
  OBVIOUS
<1>1. Filled(FreshStatements)
  BY DEF Filled, FreshStatements
<1>2. \A u \in Connections : Filled(stmts[u])
  BY <1>1 DEF StatementsInit
<1>3. rows = <<>> /\ DOMAIN rows = {} /\ lastId = 0
  BY DEF StatementsInit
<1>4. cursor = [u \in Connections |-> <<>>] /\ <<>> \in Seq(Objects)
  BY DEF StatementsInit
<1>5. cursor \in [Connections -> Seq(Objects)]
  BY <1>4
<1>6. ObjectsInv
  BY <1>2, <1>3, <1>5, StatementsInvInit DEF ObjectsInv
<1>7. Store!StoreInit
  BY DEF StatementsInit, Store!StoreInit
<1> QED BY <1>6, <1>7

\* The class and its version stay, and with them columns, texts and objects.
LEMMA ClassStays ==
    ASSUME UNCHANGED <<class, version2>>
    PROVE  Columns' = Columns /\ Texts' = Texts /\ Objects' = Objects
<1>1. class' = class /\ version2' = version2
  OBVIOUS
<1>2. Columns' = Columns /\ Texts' = Texts
  BY <1>1 DEF Columns, Texts, Of, Present
<1> QED BY <1>2 DEF Objects

\* The statements of one connection are replaced.
LEMMA FilledStays ==
    ASSUME ObjectsInv, UNCHANGED <<class, version2>>, NEW u \in Connections, NEW s, Filled(s),
           stmts' = [stmts EXCEPT ![u] = s]
    PROVE  \A v \in Connections : Filled(stmts[v])'
<1>1. Columns' = Columns /\ Texts' = Texts
  BY ClassStays
<1>2. \A v \in Connections : stmts'[v] = IF v = u THEN s ELSE stmts[v]
  BY DEF ObjectsInv, StatementsInv
<1>3. \A v \in Connections : Filled(stmts[v])
  BY DEF ObjectsInv
<1> QED BY <1>1, <1>2, <1>3 DEF Filled

\* Objects that are written: an insert is Put, an update is Replace.
LEMMA PersistPuts ==
    ASSUME ObjectsInv, NEW u \in Connections, NEW o \in Objects, Persist(u, o), StatementsInv'
    PROVE  ObjectsInv' /\ Store!StoreNext
<1> DEFINE s == Bind(Save(stmts[u], o), "insert")
<1>1. "insert" \in Kinds /\ Sound(stmts[u]) /\ Filled(stmts[u])
  BY DEF Kinds, ObjectsInv, StatementsInv
<1>2. Sent(s, "insert", InsertText) = o /\ Filled(s)
  BY <1>1, ArraysFitTexts, TextsCover, ObjectSent
<1>3. /\ lastId' = lastId + 1
      /\ rows' = [i \in DOMAIN rows \cup {lastId'} |->
                     IF i = lastId' THEN Sent(s, "insert", InsertText) ELSE rows[i]]
      /\ stmts' = [stmts EXCEPT ![u] = s]
      /\ passed' = o /\ class' = class /\ version2' = version2 /\ cursor' = cursor
  BY DEF Persist
<1> HIDE DEF s
<1>4. rows' = [i \in DOMAIN rows \cup {lastId'} |-> IF i = lastId' THEN o ELSE rows[i]]
  BY <1>2, <1>3
<1>5. lastId \in Nat /\ DOMAIN rows \subseteq 1 .. lastId /\ cursor \in [Connections -> Seq(Objects)]
      /\ \A id \in DOMAIN rows : rows[id] \in Objects
  BY DEF ObjectsInv
<1>6. lastId' \in Nat /\ DOMAIN rows' \subseteq 1 .. lastId'
  BY <1>3, <1>4, <1>5
<1>7. \A id \in DOMAIN rows' : rows'[id] \in Objects
  BY <1>4, <1>5
<1>8. Objects' = Objects
  BY <1>3, ClassStays
<1>9. \A v \in Connections : Filled(stmts[v])'
  BY <1>2, <1>3, FilledStays
<1>10. ObjectsInv'
  BY <1>3, <1>5, <1>6, <1>7, <1>8, <1>9 DEF ObjectsInv
<1>11. Store!Put(o) /\ o \in AnyObject
  BY <1>3, <1>4, ObjectsOfAnyVersion DEF Store!Put
<1> QED BY <1>10, <1>11 DEF Store!StoreNext

LEMMA UpdateReplaces ==
    ASSUME ObjectsInv, NEW u \in Connections, NEW o \in Objects, NEW id \in 1 .. lastId,
           Update(u, id, o), StatementsInv'
    PROVE  ObjectsInv' /\ Store!StoreNext
<1> DEFINE s == Bind(Save(stmts[u], o), "update")
<1>1. "update" \in Kinds /\ Sound(stmts[u]) /\ Filled(stmts[u])
  BY DEF Kinds, ObjectsInv, StatementsInv
<1>2. Sent(s, "update", UpdateText) = o /\ Filled(s)
  BY <1>1, ArraysFitTexts, TextsCover, ObjectSent
<1>3. /\ rows' = IF id \in DOMAIN rows
                 THEN [rows EXCEPT ![id] = Sent(s, "update", UpdateText)] ELSE rows
      /\ stmts' = [stmts EXCEPT ![u] = s]
      /\ passed' = IF id \in DOMAIN rows THEN o ELSE NoResult
      /\ class' = class /\ version2' = version2 /\ cursor' = cursor /\ lastId' = lastId
  BY DEF Update
<1> HIDE DEF s
<1>4. lastId \in Nat /\ DOMAIN rows \subseteq 1 .. lastId /\ cursor \in [Connections -> Seq(Objects)]
      /\ \A i \in DOMAIN rows : rows[i] \in Objects
  BY DEF ObjectsInv
<1>5. DOMAIN rows' = DOMAIN rows /\ \A i \in DOMAIN rows : rows'[i] \in Objects
  BY <1>2, <1>3, <1>4
<1>6. Objects' = Objects
  BY <1>3, ClassStays
<1>7. \A v \in Connections : Filled(stmts[v])'
  BY <1>2, <1>3, FilledStays
<1>8. ObjectsInv'
  BY <1>3, <1>4, <1>5, <1>6, <1>7 DEF ObjectsInv
<1>9. CASE id \in DOMAIN rows
  <2>1. Store!Replace(id, o) /\ o \in AnyObject
    BY <1>2, <1>3, <1>9, ObjectsOfAnyVersion DEF Store!Replace
  <2> QED BY <1>8, <2>1 DEF Store!StoreNext
<1>10. CASE id \notin DOMAIN rows
  <2>1. Store!NotPersistent
    BY <1>3, <1>10 DEF Store!NotPersistent
  <2> QED BY <1>8, <2>1 DEF Store!StoreNext
<1> QED BY <1>9, <1>10

LEMMA EraseDeletes ==
    ASSUME ObjectsInv, NEW u \in Connections, NEW ids \in SUBSET (1 .. lastId),
           Erase(u, ids), StatementsInv'
    PROVE  ObjectsInv' /\ Store!StoreNext
<1>1. /\ rows' = [i \in DOMAIN rows \ ids |-> rows[i]] /\ passed' = NoResult
      /\ class' = class /\ version2' = version2 /\ cursor' = cursor /\ lastId' = lastId
      /\ stmts' = stmts
  BY DEF Erase
<1>2. Columns' = Columns /\ Texts' = Texts /\ Objects' = Objects
  BY <1>1, ClassStays
<1>3. \A v \in Connections : Filled(stmts[v])'
  BY <1>1, <1>2 DEF ObjectsInv, Filled
<1>4. DOMAIN rows' \subseteq DOMAIN rows /\ \A i \in DOMAIN rows' : rows'[i] = rows[i]
  BY <1>1
<1>5. ObjectsInv'
  BY <1>1, <1>2, <1>3, <1>4 DEF ObjectsInv
<1>6. Store!Delete(ids)
  BY <1>1 DEF Store!Delete
<1> QED BY <1>5, <1>6 DEF Store!StoreNext

LEMMA FindGets ==
    ASSUME ObjectsInv, NEW u \in Connections, NEW id \in 1 .. lastId, Find(u, id), StatementsInv'
    PROVE  ObjectsInv' /\ Store!StoreNext
<1>1. "select" \in Kinds /\ Sound(stmts[u]) /\ Filled(stmts[u])
  BY DEF Kinds, ObjectsInv, StatementsInv
<1>2. PICK s : /\ Filled(s) /\ stmts' = [stmts EXCEPT ![u] = s]
               /\ passed' = IF id \in DOMAIN rows THEN rows[id] ELSE NoResult
  <2>1. CASE id \in DOMAIN rows
    <3>1. rows[id] \in Objects
      BY <2>1 DEF ObjectsInv
    <3>2. Loaded(Load(stmts[u], rows[id], SelectText)) = rows[id]
          /\ Filled(Load(stmts[u], rows[id], SelectText))
      BY <1>1, <3>1, ArraysFitTexts, TextsCover, RowLoaded
    <3>3. passed' = Loaded(Load(stmts[u], rows[id], SelectText))
          /\ stmts' = [stmts EXCEPT ![u] = Load(stmts[u], rows[id], SelectText)]
      BY <2>1 DEF Find
    <3> QED BY <2>1, <3>2, <3>3
  <2>2. CASE id \notin DOMAIN rows
    <3>1. passed' = NoResult /\ stmts' = [stmts EXCEPT ![u] = Bind(stmts[u], "select")]
      BY <2>2 DEF Find
    <3>2. Filled(Bind(stmts[u], "select"))
      BY <1>1, BindFits DEF Filled
    <3> QED BY <2>2, <3>1, <3>2
  <2> QED BY <2>1, <2>2
<1>3. class' = class /\ version2' = version2 /\ cursor' = cursor /\ lastId' = lastId /\ rows' = rows
  BY DEF Find
<1>4. Objects' = Objects /\ \A v \in Connections : Filled(stmts[v])'
  BY <1>2, <1>3, ClassStays, FilledStays
<1>5. ObjectsInv'
  BY <1>3, <1>4 DEF ObjectsInv
<1>6. Store!Get(id)
  BY <1>2, <1>3 DEF Store!Get
<1> QED BY <1>5, <1>6 DEF Store!StoreNext

\* A query's rows are fixed when it is executed.
LEMMA QueryOpens ==
    ASSUME ObjectsInv, NEW u \in Connections, NEW ids \in SUBSET DOMAIN rows,
           Query(u, ids), StatementsInv'
    PROVE  ObjectsInv' /\ Store!StoreNext
<1> DEFINE found == [n \in 1 .. Cardinality(ids) |->
                        rows[CHOOSE i \in ids : Cardinality({ j \in ids : j <= i }) = n]]
<1>1. "select" \in Kinds /\ Sound(stmts[u]) /\ Filled(stmts[u])
  BY DEF Kinds, ObjectsInv, StatementsInv
<1>2. lastId \in Nat /\ ids \in SUBSET (1 .. lastId) /\ \A i \in ids : rows[i] \in Objects
  BY DEF ObjectsInv
<1>3. found \in Seq(Objects)
  <2>1. ASSUME NEW n \in 1 .. Cardinality(ids) PROVE found[n] \in Objects
    <3>1. \E i \in ids : Cardinality({ j \in ids : j <= i }) = n
      BY <1>2, NthId
    <3>2. (CHOOSE i \in ids : Cardinality({ j \in ids : j <= i }) = n) \in ids
      BY <3>1
    <3> QED BY <1>2, <3>2
  <2>2. Cardinality(ids) \in Nat
    <3>1. IsFiniteSet(1 .. lastId)
      BY <1>2, FS_Interval
    <3> QED BY <1>2, <3>1, FS_Subset, FS_CardinalityType
  <2>3. found = [n \in 1 .. Cardinality(ids) |-> found[n]]
    OBVIOUS
  <2> HIDE DEF found
  <2> QED BY <2>1, <2>2, <2>3, Listed
<1>4. /\ stmts' = [stmts EXCEPT ![u] = Bind(stmts[u], "select")]
      /\ cursor' = [cursor EXCEPT ![u] = found] /\ passed' = NoResult
      /\ class' = class /\ version2' = version2 /\ lastId' = lastId /\ rows' = rows
  BY DEF Query
<1>5. Store!Open(u, ids)
  <2>1. Store!InOrder(ids) = found
    BY DEF Store!InOrder, Store!Cardinality, Cardinality
  <2> HIDE DEF found
  <2> QED BY <1>4, <2>1 DEF Store!Open
<1> HIDE DEF found
<1>6. Filled(Bind(stmts[u], "select"))
  BY <1>1, BindFits DEF Filled
<1>7. Objects' = Objects /\ \A v \in Connections : Filled(stmts[v])'
  BY <1>4, <1>6, ClassStays, FilledStays
<1>8. cursor' \in [Connections -> Seq(Objects)]
  BY <1>3, <1>4 DEF ObjectsInv
<1>9. ObjectsInv'
  BY <1>4, <1>7, <1>8 DEF ObjectsInv
<1> QED BY <1>5, <1>9 DEF Store!StoreNext

LEMMA NextRowFetches ==
    ASSUME ObjectsInv, NEW u \in Connections, NextRow(u), StatementsInv'
    PROVE  ObjectsInv' /\ Store!StoreNext
<1> DEFINE row == Head(cursor[u])
           s == Load(stmts[u], row, QueryText)
<1>1. Sound(stmts[u]) /\ Filled(stmts[u])
  BY DEF ObjectsInv, StatementsInv
<1>2. cursor[u] \in Seq(Objects) /\ cursor[u] # <<>>
  BY DEF ObjectsInv, NextRow
<1>3. row \in Objects /\ Tail(cursor[u]) \in Seq(Objects)
  BY <1>2, HeadTailProperties
<1>4. /\ passed' = Loaded(s) /\ stmts' = [stmts EXCEPT ![u] = s]
      /\ cursor' = [cursor EXCEPT ![u] = Tail(cursor[u])]
      /\ class' = class /\ version2' = version2 /\ lastId' = lastId /\ rows' = rows
  BY DEF NextRow
<1> HIDE DEF row
<1>5. Loaded(s) = row /\ Filled(s)
  BY <1>1, <1>3, ArraysFitTexts, TextsCover, RowLoaded
<1> HIDE DEF s
<1>6. Objects' = Objects /\ \A v \in Connections : Filled(stmts[v])'
  BY <1>4, <1>5, ClassStays, FilledStays
<1>7. cursor' \in [Connections -> Seq(Objects)]
  BY <1>3, <1>4 DEF ObjectsInv
<1>8. ObjectsInv'
  BY <1>4, <1>6, <1>7 DEF ObjectsInv
<1>9. Store!Fetch(u)
  BY <1>2, <1>4, <1>5 DEF Store!Fetch, row
<1> QED BY <1>8, <1>9 DEF Store!StoreNext

\* Every step of the statements is a step of the table, or none.
LEMMA StatementsStep ==
    ObjectsInv /\ [StatementsNext]_statementVars
        => ObjectsInv' /\ [Store!StoreNext]_(Store!storeVars)
<1> SUFFICES ASSUME ObjectsInv, [StatementsNext]_statementVars
             PROVE  ObjectsInv' /\ [Store!StoreNext]_(Store!storeVars)
  OBVIOUS
<1>0. StatementsInv'
  BY StatementsInvStep DEF ObjectsInv
<1>1. ASSUME NEW u \in Connections, NEW o \in Objects, Persist(u, o)
      PROVE  ObjectsInv' /\ Store!StoreNext
  BY <1>0, <1>1, PersistPuts
<1>2. ASSUME NEW u \in Connections, NEW o \in Objects, NEW id \in 1 .. lastId, Update(u, id, o)
      PROVE  ObjectsInv' /\ Store!StoreNext
  BY <1>0, <1>2, UpdateReplaces
<1>3. ASSUME NEW u \in Connections, NEW id \in 1 .. lastId, Erase(u, {id})
      PROVE  ObjectsInv' /\ Store!StoreNext
  BY <1>0, <1>3, EraseDeletes
<1>4. ASSUME NEW u \in Connections, NEW ids \in SUBSET DOMAIN rows, EraseQuery(u, ids)
      PROVE  ObjectsInv' /\ Store!StoreNext
  <2>1. ids \in SUBSET (1 .. lastId)
    BY DEF ObjectsInv
  <2> QED BY <1>0, <1>4, <2>1, EraseDeletes DEF EraseQuery
<1>5. ASSUME NEW u \in Connections, NEW id \in 1 .. lastId, Find(u, id)
      PROVE  ObjectsInv' /\ Store!StoreNext
  BY <1>0, <1>5, FindGets
<1>6. ASSUME NEW u \in Connections, NEW ids \in SUBSET DOMAIN rows, Query(u, ids)
      PROVE  ObjectsInv' /\ Store!StoreNext
  BY <1>0, <1>6, QueryOpens
<1>7. ASSUME NEW u \in Connections, NextRow(u)
      PROVE  ObjectsInv' /\ Store!StoreNext
  BY <1>0, <1>7, NextRowFetches
<1>8. CASE UNCHANGED statementVars
  <2>1. /\ class' = class /\ version2' = version2 /\ lastId' = lastId /\ rows' = rows
        /\ stmts' = stmts /\ cursor' = cursor /\ passed' = passed
    BY <1>8 DEF statementVars
  <2>2. Columns' = Columns /\ Texts' = Texts /\ Objects' = Objects
    BY <2>1, ClassStays
  <2>3. ObjectsInv'
    BY <1>0, <2>1, <2>2 DEF ObjectsInv, Filled
  <2> QED BY <2>1, <2>3 DEF Store!storeVars
<1> QED
  BY <1>1, <1>2, <1>3, <1>4, <1>5, <1>6, <1>7, <1>8 DEF StatementsNext

\* KeepsObjects for any number of connections and rows, and any choice of columns that
\* are long: every column of every object is written under its own name and comes back
\* as it was last written, from whichever connection, and no id is given twice.
THEOREM StatementsKeepObjects == StatementsSpec => KeepsObjects
<1>1. StatementsInit => ObjectsInv /\ Store!StoreInit
  BY ObjectsInvInit
<1>2. ObjectsInv /\ [StatementsNext]_statementVars
        => ObjectsInv' /\ [Store!StoreNext]_(Store!storeVars)
  BY StatementsStep
<1> QED
  BY <1>1, <1>2, PTL DEF StatementsSpec, KeepsObjects, Store!StoreSpec

------------------------------------------------------------------------------
(***************************************************************************)
(* However starts of the engine are cut short, the database file has the   *)
(* tables of the version it states, and keeps its rows.                    *)
(*                                                                         *)
(* What makes this inductive is what the open transaction sees when n      *)
(* calls of the schema catalog are still to be made: all but a few of the  *)
(* states in between break the invariant, and only the last is committed.  *)
(***************************************************************************)

Files == [table : [Tables -> 0 .. Current], version : 0 .. Current, migrating : BOOLEAN,
          rows : [Tables -> BOOLEAN]]

Created(f, n) ==
    /\ f.table["Event"] = (IF n <= 3 THEN 2 ELSE 0)
    /\ f.table["Prediction"] = (IF n <= 2 THEN 2 ELSE 0)
    /\ f.version = (IF n <= 1 THEN 2 ELSE 0)
    /\ f.migrating = FALSE

Migrated(f, n) ==
    /\ f.table["Event"] = (IF n <= 5 THEN 2 ELSE 1)
    /\ f.table["Prediction"] = (IF n <= 4 THEN 2 ELSE 1)
    /\ f.version = (IF n <= 3 THEN 2 ELSE 1)
    /\ n \in {2, 3} => f.migrating = TRUE
    /\ n \notin {2, 3} => f.migrating = FALSE

Calls == [do : {"drop", "create", "note", "add", "begin", "end"}, table : Tables]

\* The calls s are the last ones of the list all.
LastOf(s, all) ==
    /\ s \in Seq(Calls) /\ Len(s) <= 6
    /\ \A i \in 1 .. Len(s) : s[i] = all[6 - Len(s) + i]

\* Rows are only found in tables.
SoundFile(f) ==
    /\ f.table["Event"] = f.version /\ f.table["Prediction"] = f.version
    /\ f.migrating = FALSE
    /\ f.version = 0 => f.rows["Event"] = FALSE /\ f.rows["Prediction"] = FALSE

SchemaInv ==
    /\ file \in Files /\ copy \in Files
    /\ step \in {"off", "begin", "calls", "running"}
    /\ SoundFile(file)
    /\ step \in {"begin", "calls"} =>
         \/ file.version = 0 /\ LastOf(script, CreateSchema)
         \/ file.version = 1 /\ LastOf(script, MigrateSchema)
    /\ step = "begin" => Len(script) = 6
    /\ step = "calls" =>
         /\ copy.rows = file.rows
         /\ file.version = 0 => Created(copy, Len(script))
         /\ file.version = 1 => Migrated(copy, Len(script))

\* The calls that create the schema, one by one.
LEMMA CreateCalls ==
    /\ CreateSchema \in Seq(Calls) /\ Len(CreateSchema) = 6
    /\ CreateSchema[1] = [do |-> "drop", table |-> "Event"]
    /\ CreateSchema[2] = [do |-> "drop", table |-> "Prediction"]
    /\ CreateSchema[3] = [do |-> "create", table |-> "Event"]
    /\ CreateSchema[4] = [do |-> "create", table |-> "Prediction"]
    /\ CreateSchema[5] = [do |-> "note", table |-> "Event"]
    /\ CreateSchema[6] = [do |-> "note", table |-> "Prediction"]
<1> DEFINE names == <<"drop", "create", "note">>
           c(n) == [do |-> names[(n + 1) \div 2],
                    table |-> IF n % 2 = 1 THEN "Event" ELSE "Prediction"]
<1>1. CreateSchema = [n \in 1 .. 6 |-> c(n)]
  BY DEF CreateSchema, Passes
<1>2. \A n \in 1 .. 6 : (n + 1) \div 2 \in 1 .. 3
  OBVIOUS
<1>3. \A i \in 1 .. 3 : i = 1 \/ i = 2 \/ i = 3
  OBVIOUS
<1>4. names[1] = "drop" /\ names[2] = "create" /\ names[3] = "note"
  OBVIOUS
<1>5. \A n \in 1 .. 6 : c(n) \in Calls
  <2> TAKE n \in 1 .. 6
  <2>1. names[(n + 1) \div 2] \in {"drop", "create", "note"}
    BY <1>2, <1>3, <1>4
  <2> HIDE DEF names
  <2> QED
    BY <2>1 DEF Tables, Calls
<1>6. CreateSchema \in Seq(Calls) /\ Len(CreateSchema) = 6
  <2> HIDE DEF c
  <2> QED
    BY <1>1, <1>5
<1>7. /\ CreateSchema[1] = c(1) /\ CreateSchema[2] = c(2) /\ CreateSchema[3] = c(3)
      /\ CreateSchema[4] = c(4) /\ CreateSchema[5] = c(5) /\ CreateSchema[6] = c(6)
  <2> HIDE DEF c
  <2> QED
    BY <1>1
<1>8. /\ (1 + 1) \div 2 = 1 /\ (2 + 1) \div 2 = 1 /\ (3 + 1) \div 2 = 2
      /\ (4 + 1) \div 2 = 2 /\ (5 + 1) \div 2 = 3 /\ (6 + 1) \div 2 = 3
      /\ 1 % 2 = 1 /\ 2 % 2 = 0 /\ 3 % 2 = 1 /\ 4 % 2 = 0 /\ 5 % 2 = 1 /\ 6 % 2 = 0
  OBVIOUS
<1> HIDE DEF names
<1> QED
  BY <1>4, <1>6, <1>7, <1>8

\* The calls that migrate it.
LEMMA MigrateCalls ==
    /\ MigrateSchema \in Seq(Calls) /\ Len(MigrateSchema) = 6
    /\ MigrateSchema[1] = [do |-> "add", table |-> "Event"]
    /\ MigrateSchema[2] = [do |-> "add", table |-> "Prediction"]
    /\ MigrateSchema[3] = [do |-> "begin", table |-> "Event"]
    /\ MigrateSchema[4] = [do |-> "begin", table |-> "Prediction"]
    /\ MigrateSchema[5] = [do |-> "end", table |-> "Event"]
    /\ MigrateSchema[6] = [do |-> "end", table |-> "Prediction"]
<1> DEFINE names == <<"add", "begin", "end">>
           c(n) == [do |-> names[(n + 1) \div 2],
                    table |-> IF n % 2 = 1 THEN "Event" ELSE "Prediction"]
<1>1. MigrateSchema = [n \in 1 .. 6 |-> c(n)]
  BY DEF MigrateSchema, Passes
<1>2. \A n \in 1 .. 6 : (n + 1) \div 2 \in 1 .. 3
  OBVIOUS
<1>3. \A i \in 1 .. 3 : i = 1 \/ i = 2 \/ i = 3
  OBVIOUS
<1>4. names[1] = "add" /\ names[2] = "begin" /\ names[3] = "end"
  OBVIOUS
<1>5. \A n \in 1 .. 6 : c(n) \in Calls
  <2> TAKE n \in 1 .. 6
  <2>1. names[(n + 1) \div 2] \in {"add", "begin", "end"}
    BY <1>2, <1>3, <1>4
  <2> HIDE DEF names
  <2> QED
    BY <2>1 DEF Tables, Calls
<1>6. MigrateSchema \in Seq(Calls) /\ Len(MigrateSchema) = 6
  <2> HIDE DEF c
  <2> QED
    BY <1>1, <1>5
<1>7. /\ MigrateSchema[1] = c(1) /\ MigrateSchema[2] = c(2) /\ MigrateSchema[3] = c(3)
      /\ MigrateSchema[4] = c(4) /\ MigrateSchema[5] = c(5) /\ MigrateSchema[6] = c(6)
  <2> HIDE DEF c
  <2> QED
    BY <1>1
<1>8. /\ (1 + 1) \div 2 = 1 /\ (2 + 1) \div 2 = 1 /\ (3 + 1) \div 2 = 2
      /\ (4 + 1) \div 2 = 2 /\ (5 + 1) \div 2 = 3 /\ (6 + 1) \div 2 = 3
      /\ 1 % 2 = 1 /\ 2 % 2 = 0 /\ 3 % 2 = 1 /\ 4 % 2 = 0 /\ 5 % 2 = 1 /\ 6 % 2 = 0
  OBVIOUS
<1> HIDE DEF names
<1> QED
  BY <1>4, <1>6, <1>7, <1>8

\* The first of the last n calls, and the rest.
LEMMA NextCall ==
    ASSUME NEW s, NEW all, LastOf(s, all), s # <<>>
    PROVE  /\ Len(s) \in 1 .. 6 /\ Head(s) = all[7 - Len(s)]
           /\ LastOf(Tail(s), all) /\ Len(Tail(s)) = Len(s) - 1
<1>1. s \in Seq(Calls) /\ Len(s) <= 6
  BY DEF LastOf
<1>2. Len(s) \in 1 .. 6
  <2>1. Len(s) \in Nat \ {0}
    BY <1>1, EmptySeq, Zenon
  <2>2. \A k \in Nat \ {0} : k <= 6 => k \in 1 .. 6
    OBVIOUS
  <2> QED
    BY <1>1, <2>1, <2>2, Zenon
<1>3. Head(s) = s[1] /\ Tail(s) \in Seq(Calls) /\ Len(Tail(s)) = Len(s) - 1
  BY <1>1, <1>2, HeadTailProperties
<1>4. \A i \in 1 .. Len(s) - 1 : Tail(s)[i] = s[i + 1]
  BY <1>1, <1>2, HeadTailProperties
<1>5. \A i \in 1 .. Len(s) : s[i] = all[6 - Len(s) + i]
  BY DEF LastOf
<1>6. Head(s) = all[7 - Len(s)]
  <2>1. s[1] = all[6 - Len(s) + 1] /\ 6 - Len(s) + 1 = 7 - Len(s)
    BY <1>2, <1>5
  <2> QED
    BY <1>3, <2>1
<1>7. ASSUME NEW i \in 1 .. Len(Tail(s)) PROVE Tail(s)[i] = all[6 - Len(Tail(s)) + i]
  <2>1. i + 1 \in 1 .. Len(s) /\ 6 - Len(s) + (i + 1) = 6 - Len(Tail(s)) + i
    BY <1>2, <1>3
  <2> QED
    BY <1>2, <1>3, <1>4, <1>5, <2>1
<1>8. LastOf(Tail(s), all)
  BY <1>2, <1>3, <1>7 DEF LastOf
<1> QED
  BY <1>2, <1>3, <1>6, <1>8

\* A file of any version is sound.
LEMMA SchemaInvInit == SchemaInit => SchemaInv
<1> SUFFICES ASSUME SchemaInit PROVE SchemaInv
  OBVIOUS
<1> PICK v \in 0 .. Current : file = File(v)
  BY DEF SchemaInit
<1>1. file \in Files /\ SoundFile(file)
  BY DEF File, Files, SoundFile, Tables
<1> QED
  BY <1>1 DEF SchemaInit, SchemaInv

\* Creating a table, or adding its column.
LEMMA TableMade ==
    ASSUME NEW f \in Files, NEW t \in Tables,
           NEW g, g = CreateTable(f, t) \/ g = AddColumn(f, t)
    PROVE  /\ g \in Files /\ g.table[t] = 2
           /\ \A u \in Tables : u # t => g.table[u] = f.table[u]
           /\ g.version = f.version /\ g.migrating = f.migrating /\ g.rows = f.rows
<1> DEFINE h == [f.table EXCEPT ![t] = 2]
<1>1. f.table \in [Tables -> 0 .. 2]
  BY DEF Files, Current
<1>2. h \in [Tables -> 0 .. 2] /\ h[t] = 2
      /\ \A u \in Tables : u # t => h[u] = f.table[u]
  BY <1>1
<1>3. g = [f EXCEPT !.table = h]
  BY DEF CreateTable, AddColumn, Current
<1> HIDE DEF h
<1> QED
  BY <1>2, <1>3 DEF Files, Current

\* Dropping a table without rows.
LEMMA Dropped ==
    ASSUME NEW f \in Files, NEW t \in Tables, f.rows[t] = FALSE, NEW g, g = DropTable(f, t)
    PROVE  /\ g \in Files /\ g.table[t] = 0
           /\ \A u \in Tables : u # t => g.table[u] = f.table[u]
           /\ g.version = 0 /\ g.migrating = FALSE /\ g.rows = f.rows
<1> DEFINE h == [f.table EXCEPT ![t] = 0]
           r == [f.rows EXCEPT ![t] = FALSE]
<1>1. f.table \in [Tables -> 0 .. Current] /\ f.rows \in [Tables -> BOOLEAN]
  BY DEF Files
<1>2. h \in [Tables -> 0 .. Current] /\ h[t] = 0
      /\ \A u \in Tables : u # t => h[u] = f.table[u]
  BY <1>1 DEF Current
<1>3. r = f.rows
  BY <1>1
<1>4. g = [f EXCEPT !.table = h, !.rows = r, !.version = 0, !.migrating = FALSE]
  BY DEF DropTable
<1> HIDE DEF h, r
<1>5. 0 \in 0 .. Current
  BY DEF Current
<1> QED
  BY <1>1, <1>2, <1>3, <1>4, <1>5 DEF Files

\* The calls one after the other, n of them being left.
LEMMA CallCreates ==
    ASSUME NEW f \in Files, NEW n \in 1 .. 6, Created(f, n),
           f.rows["Event"] = FALSE /\ f.rows["Prediction"] = FALSE
    PROVE  /\ Call(f, CreateSchema[7 - n]) \in Files
           /\ Created(Call(f, CreateSchema[7 - n]), n - 1)
           /\ Call(f, CreateSchema[7 - n]).rows = f.rows
<1> DEFINE g == Call(f, CreateSchema[7 - n])
<1>0. n = 6 \/ n = 5 \/ n = 4 \/ n = 3 \/ n = 2 \/ n = 1
  OBVIOUS
<1>1. CASE n = 6
  <2>1. g = DropTable(f, "Event")
    BY <1>1, CreateCalls DEF Call
  <2> HIDE DEF g
  <2>2. /\ g \in Files /\ g.table["Event"] = 0 /\ g.table["Prediction"] = f.table["Prediction"]
        /\ g.version = 0 /\ g.migrating = FALSE /\ g.rows = f.rows
    BY <2>1, Dropped DEF Tables
  <2>3. Created(g, n - 1)
    BY <1>1, <2>2 DEF Created
  <2> QED
    BY <2>2, <2>3 DEF g
<1>2. CASE n = 5
  <2>1. g = DropTable(f, "Prediction")
    BY <1>2, CreateCalls DEF Call
  <2> HIDE DEF g
  <2>2. /\ g \in Files /\ g.table["Prediction"] = 0 /\ g.table["Event"] = f.table["Event"]
        /\ g.version = 0 /\ g.migrating = FALSE /\ g.rows = f.rows
    BY <2>1, Dropped DEF Tables
  <2>3. Created(g, n - 1)
    BY <1>2, <2>2 DEF Created
  <2> QED
    BY <2>2, <2>3 DEF g
<1>3. CASE n = 4
  <2>1. g = CreateTable(f, "Event")
    BY <1>3, CreateCalls DEF Call
  <2> HIDE DEF g
  <2>2. /\ g \in Files /\ g.table["Event"] = 2 /\ g.table["Prediction"] = f.table["Prediction"]
        /\ g.version = f.version /\ g.migrating = f.migrating /\ g.rows = f.rows
    BY <2>1, TableMade DEF Tables
  <2>3. Created(g, n - 1)
    BY <1>3, <2>2 DEF Created
  <2> QED
    BY <2>2, <2>3 DEF g
<1>4. CASE n = 3
  <2>1. g = CreateTable(f, "Prediction")
    BY <1>4, CreateCalls DEF Call
  <2> HIDE DEF g
  <2>2. /\ g \in Files /\ g.table["Prediction"] = 2 /\ g.table["Event"] = f.table["Event"]
        /\ g.version = f.version /\ g.migrating = f.migrating /\ g.rows = f.rows
    BY <2>1, TableMade DEF Tables
  <2>3. Created(g, n - 1)
    BY <1>4, <2>2 DEF Created
  <2> QED
    BY <2>2, <2>3 DEF g
<1>5. CASE n = 2
  <2>1. g = NoteVersion(f, "Event")
    BY <1>5, CreateCalls DEF Call
  <2> HIDE DEF g
  <2>2. /\ g \in Files /\ g.version = 2 /\ g.migrating = FALSE
        /\ g.table = f.table /\ g.rows = f.rows
    <3>1. f.migrating = FALSE /\ (f.version = 0 \/ f.version = 2)
      BY DEF Created
    <3>2. CASE f.version = 0
      <4>1. g = [f EXCEPT !.version = 2]
        BY <2>1, <3>2 DEF NoteVersion, Current
      <4> QED
        BY <3>1, <4>1 DEF Files, Current
    <3>3. CASE f.version = 2
      BY <2>1, <3>1, <3>3 DEF NoteVersion
    <3> QED
      BY <3>1, <3>2, <3>3
  <2>3. Created(g, n - 1)
    BY <1>5, <2>2 DEF Created
  <2> QED
    BY <2>2, <2>3 DEF g
<1>6. CASE n = 1
  <2>1. g = NoteVersion(f, "Prediction")
    BY <1>6, CreateCalls DEF Call
  <2> HIDE DEF g
  <2>2. /\ g \in Files /\ g.version = 2 /\ g.migrating = FALSE
        /\ g.table = f.table /\ g.rows = f.rows
    <3>1. f.migrating = FALSE /\ (f.version = 0 \/ f.version = 2)
      BY DEF Created
    <3>2. CASE f.version = 0
      <4>1. g = [f EXCEPT !.version = 2]
        BY <2>1, <3>2 DEF NoteVersion, Current
      <4> QED
        BY <3>1, <4>1 DEF Files, Current
    <3>3. CASE f.version = 2
      BY <2>1, <3>1, <3>3 DEF NoteVersion
    <3> QED
      BY <3>1, <3>2, <3>3
  <2>3. Created(g, n - 1)
    BY <1>6, <2>2 DEF Created
  <2> QED
    BY <2>2, <2>3 DEF g
<1> QED
  BY <1>0, <1>1, <1>2, <1>3, <1>4, <1>5, <1>6

\* The same for the migration.
LEMMA CallMigrates ==
    ASSUME NEW f \in Files, NEW n \in 1 .. 6, Migrated(f, n)
    PROVE  /\ Call(f, MigrateSchema[7 - n]) \in Files
           /\ Migrated(Call(f, MigrateSchema[7 - n]), n - 1)
           /\ Call(f, MigrateSchema[7 - n]).rows = f.rows
<1> DEFINE g == Call(f, MigrateSchema[7 - n])
<1>0. n = 6 \/ n = 5 \/ n = 4 \/ n = 3 \/ n = 2 \/ n = 1
  OBVIOUS
<1>1. CASE n = 6
  <2>1. g = AddColumn(f, "Event")
    BY <1>1, MigrateCalls DEF Call
  <2> HIDE DEF g
  <2>2. /\ g \in Files /\ g.table["Event"] = 2 /\ g.table["Prediction"] = f.table["Prediction"]
        /\ g.version = f.version /\ g.migrating = f.migrating /\ g.rows = f.rows
    BY <2>1, TableMade DEF Tables
  <2>3. Migrated(g, n - 1)
    BY <1>1, <2>2 DEF Migrated
  <2> QED
    BY <2>2, <2>3 DEF g
<1>2. CASE n = 5
  <2>1. g = AddColumn(f, "Prediction")
    BY <1>2, MigrateCalls DEF Call
  <2> HIDE DEF g
  <2>2. /\ g \in Files /\ g.table["Prediction"] = 2 /\ g.table["Event"] = f.table["Event"]
        /\ g.version = f.version /\ g.migrating = f.migrating /\ g.rows = f.rows
    BY <2>1, TableMade DEF Tables
  <2>3. Migrated(g, n - 1)
    BY <1>2, <2>2 DEF Migrated
  <2> QED
    BY <2>2, <2>3 DEF g
<1>3. CASE n = 4
  <2>1. g = BeginMigration(f, "Event")
    BY <1>3, MigrateCalls DEF Call
  <2> HIDE DEF g
  <2>2. /\ g \in Files /\ g.version = 2 /\ g.migrating = TRUE
        /\ g.table = f.table /\ g.rows = f.rows
    <3>1. g = [f EXCEPT !.version = 2, !.migrating = TRUE] /\ 2 \in 0 .. Current
      BY <2>1 DEF BeginMigration, Current
    <3> QED
      BY <3>1 DEF Files
  <2>3. Migrated(g, n - 1)
    BY <1>3, <2>2 DEF Migrated
  <2> QED
    BY <2>2, <2>3 DEF g
<1>4. CASE n = 3
  <2>1. g = BeginMigration(f, "Prediction")
    BY <1>4, MigrateCalls DEF Call
  <2> HIDE DEF g
  <2>2. /\ g \in Files /\ g.version = 2 /\ g.migrating = TRUE
        /\ g.table = f.table /\ g.rows = f.rows
    <3>1. g = [f EXCEPT !.version = 2, !.migrating = TRUE] /\ 2 \in 0 .. Current
      BY <2>1 DEF BeginMigration, Current
    <3> QED
      BY <3>1 DEF Files
  <2>3. Migrated(g, n - 1)
    BY <1>4, <2>2 DEF Migrated
  <2> QED
    BY <2>2, <2>3 DEF g
<1>5. CASE n = 2
  <2>1. g = EndMigration(f, "Event")
    BY <1>5, MigrateCalls DEF Call
  <2> HIDE DEF g
  <2>2. /\ g \in Files /\ g.version = f.version /\ g.migrating = FALSE
        /\ g.table = f.table /\ g.rows = f.rows
    <3>1. g = [f EXCEPT !.migrating = FALSE]
      BY <2>1 DEF EndMigration
    <3> QED
      BY <3>1 DEF Files
  <2>3. Migrated(g, n - 1)
    BY <1>5, <2>2 DEF Migrated
  <2> QED
    BY <2>2, <2>3 DEF g
<1>6. CASE n = 1
  <2>1. g = EndMigration(f, "Prediction")
    BY <1>6, MigrateCalls DEF Call
  <2> HIDE DEF g
  <2>2. /\ g \in Files /\ g.version = f.version /\ g.migrating = FALSE
        /\ g.table = f.table /\ g.rows = f.rows
    <3>1. g = [f EXCEPT !.migrating = FALSE]
      BY <2>1 DEF EndMigration
    <3> QED
      BY <3>1 DEF Files
  <2>3. Migrated(g, n - 1)
    BY <1>6, <2>2 DEF Migrated
  <2> QED
    BY <2>2, <2>3 DEF g
<1> QED
  BY <1>0, <1>1, <1>2, <1>3, <1>4, <1>5, <1>6

\* What there is when no call is left.
LEMMA CallsDone ==
    /\ \A f : Created(f, 0) => /\ f.table["Event"] = 2 /\ f.table["Prediction"] = 2
                               /\ f.version = 2 /\ f.migrating = FALSE
    /\ \A f : Migrated(f, 0) => /\ f.table["Event"] = 2 /\ f.table["Prediction"] = 2
                                /\ f.version = 2 /\ f.migrating = FALSE
  BY DEF Created, Migrated

\* Nothing of a list has been called at first.
LEMMA ListsAreWhole ==
    LastOf(CreateSchema, CreateSchema) /\ LastOf(MigrateSchema, MigrateSchema)
  BY CreateCalls, MigrateCalls DEF LastOf

\* Every step of initDatabase, and of the program around it, keeps the invariant.
LEMMA SchemaInvStep == SchemaInv /\ [SchemaNext]_schemaVars => SchemaInv'
<1> SUFFICES ASSUME SchemaInv, [SchemaNext]_schemaVars PROVE SchemaInv'
  OBVIOUS
<1>0. /\ file \in Files /\ copy \in Files /\ SoundFile(file)
      /\ step \in {"off", "begin", "calls", "running"}
  BY DEF SchemaInv
<1>1. ASSUME ReadVersion PROVE SchemaInv'
  <2>1. /\ step = "off" /\ file' = file /\ copy' = copy
        /\ script' = (IF file.version = 0 THEN CreateSchema
                      ELSE IF file.version < Current THEN MigrateSchema ELSE <<>>)
        /\ step' = (IF script' = <<>> THEN "running" ELSE "begin")
    BY <1>1 DEF ReadVersion
  <2>2. file.version = 0 \/ file.version = 1 \/ file.version = 2
    BY <1>0 DEF Files, Current
  <2>3. CASE file.version = 0
    <3>1. script' = CreateSchema
      BY <2>1, <2>3
    <3> QED
      BY <1>0, <2>1, <2>3, <3>1, CreateCalls, ListsAreWhole DEF SchemaInv
  <2>4. CASE file.version = 1
    <3>1. script' = MigrateSchema
      BY <2>1, <2>4 DEF Current
    <3> QED
      BY <1>0, <2>1, <2>4, <3>1, MigrateCalls, ListsAreWhole DEF SchemaInv
  <2>5. CASE file.version = 2
    <3>1. step' = "running"
      BY <2>1, <2>5 DEF Current
    <3> QED
      BY <1>0, <2>1, <3>1 DEF SchemaInv
  <2> QED
    BY <2>2, <2>3, <2>4, <2>5
<1>2. ASSUME Begin PROVE SchemaInv'
  <2>1. /\ step = "begin" /\ step' = "calls" /\ file' = file /\ copy' = file
        /\ script' = script
    BY <1>2 DEF Begin
  <2>2. /\ Len(script) = 6
        /\ \/ file.version = 0 /\ LastOf(script, CreateSchema)
           \/ file.version = 1 /\ LastOf(script, MigrateSchema)
    BY <2>1 DEF SchemaInv
  <2>3. file.version = 0 => Created(file, 6)
    BY <1>0 DEF Created, SoundFile
  <2>4. file.version = 1 => Migrated(file, 6)
    BY <1>0 DEF Migrated, SoundFile
  <2> QED
    BY <1>0, <2>1, <2>2, <2>3, <2>4 DEF SchemaInv
<1>3. ASSUME MakeCall PROVE SchemaInv'
  <2>1. /\ step = "calls" /\ step' = "calls" /\ script # <<>> /\ script' = Tail(script)
        /\ file' = file /\ copy' = Call(copy, Head(script))
    BY <1>3 DEF MakeCall
  <2>2. copy.rows = file.rows
    BY <2>1 DEF SchemaInv
  <2>3. CASE file.version = 0
    <3>1. LastOf(script, CreateSchema) /\ Created(copy, Len(script))
      BY <2>1, <2>3 DEF SchemaInv
    <3>2. /\ Len(script) \in 1 .. 6 /\ Head(script) = CreateSchema[7 - Len(script)]
          /\ LastOf(script', CreateSchema) /\ Len(script') = Len(script) - 1
      BY <2>1, <3>1, NextCall
    <3>3. copy.rows["Event"] = FALSE /\ copy.rows["Prediction"] = FALSE
      BY <1>0, <2>2, <2>3 DEF SoundFile
    <3>4. copy' \in Files /\ Created(copy', Len(script')) /\ copy'.rows = copy.rows
      BY <1>0, <2>1, <3>1, <3>2, <3>3, CallCreates
    <3> QED
      BY <1>0, <2>1, <2>2, <2>3, <3>2, <3>4 DEF SchemaInv
  <2>4. CASE file.version = 1
    <3>1. LastOf(script, MigrateSchema) /\ Migrated(copy, Len(script))
      BY <2>1, <2>4 DEF SchemaInv
    <3>2. /\ Len(script) \in 1 .. 6 /\ Head(script) = MigrateSchema[7 - Len(script)]
          /\ LastOf(script', MigrateSchema) /\ Len(script') = Len(script) - 1
      BY <2>1, <3>1, NextCall
    <3>3. copy' \in Files /\ Migrated(copy', Len(script')) /\ copy'.rows = copy.rows
      BY <1>0, <2>1, <3>1, <3>2, CallMigrates
    <3> QED
      BY <1>0, <2>1, <2>2, <2>4, <3>2, <3>3 DEF SchemaInv
  <2> QED
    BY <2>1, <2>3, <2>4 DEF SchemaInv
<1>4. ASSUME Fails PROVE SchemaInv'
  BY <1>0, <1>4 DEF Fails, SchemaInv
<1>5. ASSUME Commit PROVE SchemaInv'
  <2>1. /\ step = "calls" /\ step' = "running" /\ script = <<>>
        /\ file' = copy /\ copy' = copy
    BY <1>5 DEF Commit
  <2>2. Created(copy, 0) \/ Migrated(copy, 0)
    <3>1. Len(script) = 0
      BY <2>1
    <3> QED
      BY <2>1, <3>1 DEF SchemaInv
  <2>3. SoundFile(copy)
    BY <2>2, CallsDone DEF SoundFile
  <2> QED
    BY <1>0, <2>1, <2>3 DEF SchemaInv
<1>6. ASSUME NEW t \in Tables, StoreObject(t) PROVE SchemaInv'
  <2>1. /\ step = "running" /\ step' = step /\ copy' = copy /\ script' = script
        /\ file.table[t] # 0 /\ file' = [file EXCEPT !.rows[t] = TRUE]
    BY <1>6 DEF StoreObject
  <2> DEFINE r == [file.rows EXCEPT ![t] = TRUE]
  <2>2. file' = [file EXCEPT !.rows = r] /\ r \in [Tables -> BOOLEAN]
    BY <1>0, <2>1 DEF Files
  <2> HIDE DEF r
  <2>3. /\ file' \in Files /\ file'.table = file.table /\ file'.version = file.version
        /\ file'.migrating = file.migrating
    BY <1>0, <2>2 DEF Files
  <2>4. file.version # 0
    BY <1>0, <2>1 DEF SoundFile, Tables
  <2>5. SoundFile(file')
    BY <1>0, <2>3, <2>4 DEF SoundFile
  <2> QED
    BY <1>0, <2>1, <2>3, <2>5 DEF SchemaInv
<1>7. ASSUME End PROVE SchemaInv'
  BY <1>0, <1>7 DEF End, SchemaInv
<1>8. ASSUME UNCHANGED schemaVars PROVE SchemaInv'
  BY <1>8 DEF schemaVars, SchemaInv
<1> QED
  BY <1>1, <1>2, <1>3, <1>4, <1>5, <1>6, <1>7, <1>8 DEF SchemaNext

\* However starts are cut short, the file has the tables of the version it states:
\* initDatabase is one transaction, and what it reads before it stays true.
THEOREM VersionsMatch == SchemaSpec => []VersionMatchesTables
<1>1. SchemaInv => VersionMatchesTables
  BY DEF SchemaInv, SoundFile, VersionMatchesTables, Tables, Files
<1> QED
  BY <1>1, SchemaInvInit, SchemaInvStep, PTL DEF SchemaSpec

\* No start loses rows: tables are dropped only in a file that has none.
THEOREM RowsStay == SchemaSpec => RowsKept
<1>1. SchemaInv /\ [SchemaNext]_schemaVars =>
          [\A t \in Tables : file.rows[t] => file.rows'[t]]_schemaVars
  <2> SUFFICES ASSUME SchemaInv, SchemaNext, NEW t \in Tables, file.rows[t]
               PROVE  file'.rows[t]
    OBVIOUS
  <2>1. CASE Commit
    <3>1. file' = copy /\ copy.rows = file.rows
      BY <2>1 DEF Commit, SchemaInv
    <3> QED
      BY <3>1
  <2>2. ASSUME NEW u \in Tables, StoreObject(u) PROVE file'.rows[t]
    <3>1. file.rows \in [Tables -> BOOLEAN] /\ file' = [file EXCEPT !.rows[u] = TRUE]
      BY <2>2 DEF StoreObject, SchemaInv, Files
    <3>2. file'.rows = [file.rows EXCEPT ![u] = TRUE]
      BY <3>1 DEF SchemaInv, Files
    <3> QED
      BY <3>1, <3>2
  <2>3. CASE file' = file
    BY <2>3
  <2> QED
    BY <2>1, <2>2, <2>3 DEF SchemaNext, ReadVersion, Begin, MakeCall, Fails, End
<1> QED
  BY <1>1, SchemaInvInit, SchemaInvStep, PTL DEF SchemaSpec, RowsKept
==============================================================================
