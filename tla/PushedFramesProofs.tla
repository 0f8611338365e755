------------------------- MODULE PushedFramesProofs -------------------------
(***************************************************************************)
(* The last frame of a queue: that there is one, and what pushing and      *)
(* popping an event does to it.                                            *)
(***************************************************************************)
EXTENDS PushedFrames, WellFoundedInduction, TLAPS

\* A queue has a last frame, if it has any.
LEMMA HasLast ==
    ASSUME NEW S, NEW q \in Seq(S), NEW m
    PROVE  \/ /\ \A i \in DOMAIN q : q[i].type # "frame"
              /\ LastOf(q, m) = m
           \/ \E i \in DOMAIN q :
                 /\ q[i].type = "frame" /\ LastOf(q, m) = q[i].frame
                 /\ \A j \in DOMAIN q : q[j].type = "frame" => j <= i
<1> DEFINE frames == {i \in DOMAIN q : q[i].type = "frame"}
<1>1. CASE frames = {}
  BY <1>1 DEF LastOf
<1>2. CASE frames # {}
  <2> DEFINE T == {Len(q) - i : i \in frames}
  <2>1. frames \subseteq 1 .. Len(q) /\ Len(q) \in Nat
    OBVIOUS
  <2>2. T \subseteq Nat /\ T # {}
    BY <1>2, <2>1
  <2> HIDE DEF T
  <2>3. PICK x \in T : \A y \in T : ~(<<y, x>> \in OpToRel(<, Nat))
    BY <2>2, NatLessThanWellFounded, WFMin, Zenon
  <2>4. \A y \in T : ~(y < x)
    BY <2>2, <2>3 DEF OpToRel
  <2>5. PICK i \in frames : x = Len(q) - i
    BY DEF T
  <2>6. \A j \in frames : j <= i
    <3> SUFFICES ASSUME NEW j \in frames PROVE j <= i
      OBVIOUS
    <3>1. Len(q) - j \in T
      BY DEF T
    <3> QED BY <2>1, <2>4, <2>5, <3>1
  <2> DEFINE k == CHOOSE l \in frames : \A j \in frames : j <= l
  <2>7. k \in frames /\ \A j \in frames : j <= k
    BY <2>6
  <2>8. LastOf(q, m) = q[k].frame
    BY <1>2 DEF LastOf
  <2> QED BY <2>7, <2>8
<1> QED BY <1>1, <1>2

\* Two queues have the same last frame if it is in both.
LEMMA LastIs ==
    ASSUME NEW S, NEW q \in Seq(S), NEW m, NEW i \in DOMAIN q, q[i].type = "frame",
           \A j \in DOMAIN q : q[j].type = "frame" => j <= i
    PROVE  LastOf(q, m) = q[i].frame
<1>1. PICK k \in DOMAIN q : /\ q[k].type = "frame" /\ LastOf(q, m) = q[k].frame
                            /\ \A j \in DOMAIN q : q[j].type = "frame" => j <= k
  BY HasLast
<1>2. k = i
  BY <1>1
<1> QED BY <1>1, <1>2

\* What is pushed last is the last frame, if it is one.
LEMMA LastAppend ==
    ASSUME NEW S, NEW q \in Seq(S), NEW m, NEW e \in S
    PROVE  LastOf(Append(q, e), m) = IF e.type = "frame" THEN e.frame ELSE LastOf(q, m)
<1> DEFINE p == Append(q, e)
<1>1. /\ p \in Seq(S) /\ Len(p) = Len(q) + 1 /\ DOMAIN p = 1 .. Len(q) + 1
      /\ p[Len(q) + 1] = e /\ \A i \in 1 .. Len(q) : p[i] = q[i]
      /\ Len(q) \in Nat /\ DOMAIN q = 1 .. Len(q)
  OBVIOUS
<1> HIDE DEF p
<1>2. CASE e.type = "frame"
  <2>1. LastOf(p, m) = p[Len(q) + 1].frame
    BY <1>1, <1>2, LastIs
  <2> QED BY <1>1, <1>2, <2>1 DEF p
<1>3. CASE e.type # "frame"
  <2>1. CASE \A i \in DOMAIN q : q[i].type # "frame"
    <3>1. \A i \in DOMAIN p : p[i].type # "frame"
      BY <1>1, <1>3, <2>1
    <3>2. LastOf(p, m) = m /\ LastOf(q, m) = m
      BY <1>1, <2>1, <3>1, HasLast
    <3> QED BY <1>3, <3>2 DEF p
  <2>2. CASE \E i \in DOMAIN q : q[i].type = "frame"
    <3>1. PICK i \in DOMAIN q : /\ q[i].type = "frame" /\ LastOf(q, m) = q[i].frame
                                /\ \A j \in DOMAIN q : q[j].type = "frame" => j <= i
      BY <2>2, HasLast
    <3>2. i \in DOMAIN p /\ p[i] = q[i]
      BY <1>1
    <3>3. \A j \in DOMAIN p : p[j].type = "frame" => j <= i
      BY <1>1, <1>3, <3>1
    <3>4. LastOf(p, m) = p[i].frame
      BY <1>1, <3>1, <3>2, <3>3, LastIs
    <3> QED BY <1>3, <3>1, <3>2, <3>4 DEF p
  <2> QED BY <2>1, <2>2
<1> QED BY <1>2, <1>3

\* What is popped is remembered, if it is a frame.
LEMMA LastTail ==
    ASSUME NEW S, NEW q \in Seq(S), q # <<>>, NEW m
    PROVE  LastOf(Tail(q), IF Head(q).type = "frame" THEN Head(q).frame ELSE m) = LastOf(q, m)
<1> DEFINE p == Tail(q)
           n == IF Head(q).type = "frame" THEN Head(q).frame ELSE m
<1>1. /\ p \in Seq(S) /\ Len(q) \in Nat \ {0} /\ DOMAIN q = 1 .. Len(q)
      /\ DOMAIN p = 1 .. Len(q) - 1 /\ Head(q) = q[1]
      /\ \A i \in 1 .. Len(q) - 1 : p[i] = q[i + 1]
  OBVIOUS
<1> HIDE DEF p
<1>2. CASE \A i \in DOMAIN p : p[i].type # "frame"
  <2>1. LastOf(p, n) = n
    BY <1>1, <1>2, HasLast
  <2>2. \A i \in DOMAIN q : q[i].type = "frame" => i = 1
    <3> SUFFICES ASSUME NEW i \in DOMAIN q, i # 1 PROVE q[i].type # "frame"
      OBVIOUS
    <3>1. i - 1 \in DOMAIN p /\ p[i - 1] = q[i]
      BY <1>1
    <3> QED BY <1>2, <3>1
  <2>3. CASE q[1].type = "frame"
    <3>1. LastOf(q, m) = q[1].frame
      BY <1>1, <2>2, <2>3, LastIs
    <3> QED BY <1>1, <2>1, <2>3, <3>1 DEF p
  <2>4. CASE q[1].type # "frame"
    <3>1. \A i \in DOMAIN q : q[i].type # "frame"
      BY <2>2, <2>4
    <3>2. LastOf(q, m) = m
      BY <3>1, HasLast
    <3> QED BY <1>1, <2>1, <2>4, <3>2 DEF p
  <2> QED BY <2>3, <2>4
<1>3. CASE \E i \in DOMAIN p : p[i].type = "frame"
  <2>1. PICK i \in DOMAIN p : /\ p[i].type = "frame" /\ LastOf(p, n) = p[i].frame
                              /\ \A j \in DOMAIN p : p[j].type = "frame" => j <= i
    BY <1>1, <1>3, HasLast
  <2>2. i + 1 \in DOMAIN q /\ q[i + 1] = p[i]
    BY <1>1
  <2>3. \A j \in DOMAIN q : q[j].type = "frame" => j <= i + 1
    <3> SUFFICES ASSUME NEW j \in DOMAIN q, q[j].type = "frame", j # 1 PROVE j <= i + 1
      BY <1>1
    <3>1. j - 1 \in DOMAIN p /\ p[j - 1] = q[j]
      BY <1>1
    <3> QED BY <1>1, <2>1, <3>1
  <2>4. LastOf(q, m) = q[i + 1].frame
    BY <2>1, <2>2, <2>3, LastIs
  <2> QED BY <2>1, <2>2, <2>4 DEF p
<1> QED BY <1>2, <1>3
=============================================================================
