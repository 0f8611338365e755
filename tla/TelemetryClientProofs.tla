----------------------- MODULE TelemetryClientProofs -----------------------
(***************************************************************************)
(* Proofs about TelemetryClient for any number of messages, received in    *)
(* pieces of any length.                                                   *)
(*                                                                         *)
(* The invariant is about what has been sent and not been processed, in    *)
(* the buffer or still on its way (Incoming).  It is the end of the        *)
(* messages from a boundary of messages on (Stream), in which a letter of  *)
(* a frame implies the whole frame (FrameAt, FrameFrom).  So the first     *)
(* brace, the first marker of a frame and the first brace behind it are    *)
(* those of one and the same frame (FoundFrame), and cutting it out leaves *)
(* such a stream again (CutOut).                                           *)
(***************************************************************************)
EXTENDS TelemetryClient, SequenceTheorems, WellFoundedInduction, TLAPS

-----------------------------------------------------------------------------
(* The layout of a message *)

F == Len(Layout("frame"))

Mark == {"open", "lead", "trail", "ascii", "close", "frame_type", "nul"}
Letter == [of : Nat, at : Nat, byte : Mark]

LEMMA LayoutFacts ==
    /\ F \in Nat /\ F > 6
    /\ DOMAIN Layout("frame") = 1 .. F
    /\ Layout("frame")[1] = "open"
    /\ \A a \in 1 .. F : /\ Layout("frame")[a] \in Mark
                         /\ Layout("frame")[a] = "frame_type" <=> a = F - 2
                         /\ Layout("frame")[a] = "nul" <=> a = F
                         /\ a >= F - 2 => (Layout("frame")[a] = "close" <=> a = F - 1)
    /\ DOMAIN Layout("empty") = 1 .. 1 /\ Layout("empty")[1] = "nul"
<1>1. DOMAIN Layout("empty") = 1 .. 1 /\ Layout("empty")[1] = "nul"
  BY DEF Layout
<1>2. CASE Wide
  <2>1. Layout("frame") = <<"open", "open", "lead", "trail", "close", "frame_type", "close", "nul">>
    BY <1>2 DEF Layout
  <2>2. F = 8
    BY <2>1 DEF F
  <2>3. /\ DOMAIN Layout("frame") = 1 .. 8
        /\ Layout("frame")[1] = "open" /\ Layout("frame")[2] = "open"
        /\ Layout("frame")[3] = "lead" /\ Layout("frame")[4] = "trail"
        /\ Layout("frame")[5] = "close" /\ Layout("frame")[6] = "frame_type"
        /\ Layout("frame")[7] = "close" /\ Layout("frame")[8] = "nul"
    BY <2>1
  <2> QED BY <1>1, <2>2, <2>3 DEF Mark
<1>3. CASE ~Wide
  <2>1. Layout("frame") = <<"open", "open", "ascii", "close", "frame_type", "close", "nul">>
    BY <1>3 DEF Layout
  <2>2. F = 7
    BY <2>1 DEF F
  <2>3. /\ DOMAIN Layout("frame") = 1 .. 7
        /\ Layout("frame")[1] = "open" /\ Layout("frame")[2] = "open"
        /\ Layout("frame")[3] = "ascii"
        /\ Layout("frame")[4] = "close" /\ Layout("frame")[5] = "frame_type"
        /\ Layout("frame")[6] = "close" /\ Layout("frame")[7] = "nul"
    BY <2>1
  <2> QED BY <1>1, <2>2, <2>3 DEF Mark
<1> QED BY <1>2, <1>3

-----------------------------------------------------------------------------
(* What is on its way to the client or in its buffer *)

\* T is the end of the messages k, from a boundary of messages on or from the
\* NUL before it: letters of these messages, all that follow the first, in order.
Genuine(T, k) ==
    \A i \in DOMAIN T :
        /\ T[i].of \in DOMAIN k /\ T[i].at \in DOMAIN Layout(k[T[i].of])
        /\ T[i].byte = Layout(k[T[i].of])[T[i].at]
Follows(T, i, j) ==
    T[i].of < T[j].of \/ (T[i].of = T[j].of /\ T[j].at = T[i].at + (j - i))
Ordered(T) == \A i, j \in DOMAIN T : i < j => Follows(T, i, j)
Unbroken(T, k) ==
    T # <<>> => \A n \in DOMAIN k : \A a \in DOMAIN Layout(k[n]) :
        \/ \E i \in DOMAIN T : T[i].of = n /\ T[i].at = a
        \/ n < T[1].of \/ (n = T[1].of /\ a < T[1].at)
FromStart(T) == T # <<>> => T[1].at = 1 \/ T[1].byte = "nul"
Stream(T, k) == Genuine(T, k) /\ Ordered(T) /\ Unbroken(T, k) /\ FromStart(T)

\* The letters of a message are one behind the other.
LEMMA InOrder ==
    ASSUME NEW T \in Seq(Letter), Ordered(T), NEW i \in DOMAIN T, NEW j \in DOMAIN T
    PROVE  /\ i \in Nat \ {0} /\ j \in Nat \ {0}
           /\ T[i].of \in Nat /\ T[i].at \in Nat /\ T[j].of \in Nat /\ T[j].at \in Nat
           /\ T[i].of = T[j].of => T[j].at - T[i].at = j - i
           /\ i <= j => T[i].of <= T[j].of
<1>1. /\ i \in Nat \ {0} /\ j \in Nat \ {0} /\ T[i] \in Letter /\ T[j] \in Letter
  OBVIOUS
<1>2. T[i].of \in Nat /\ T[i].at \in Nat /\ T[j].of \in Nat /\ T[j].at \in Nat
  BY <1>1 DEF Letter
<1>3. (i < j => Follows(T, i, j)) /\ (j < i => Follows(T, j, i))
  BY DEF Ordered
<1>4. CASE i < j
  <2>1. T[i].of < T[j].of \/ (T[i].of = T[j].of /\ T[j].at = T[i].at + (j - i))
    BY <1>3, <1>4 DEF Follows
  <2> QED BY <1>1, <1>2, <1>4, <2>1
<1>5. CASE j < i
  <2>1. T[j].of < T[i].of \/ (T[j].of = T[i].of /\ T[i].at = T[j].at + (i - j))
    BY <1>3, <1>5 DEF Follows
  <2> QED BY <1>1, <1>2, <1>5, <2>1
<1> QED BY <1>1, <1>2, <1>4, <1>5

\* The frames of which nothing but the NUL is in T.
DoneIn(T, k) ==
    {n \in DOMAIN k : /\ k[n] = "frame"
                      /\ \A i \in DOMAIN T : T[i].of = n => T[i].byte = "nul"}

\* A message that is not only a NUL is a frame.
LEMMA OfFrame ==
    ASSUME NEW T \in Seq(Letter), NEW k \in Seq({"frame", "empty"}), Stream(T, k),
           NEW i \in DOMAIN T, T[i].byte # "nul"
    PROVE  /\ T[i].of \in DOMAIN k /\ k[T[i].of] = "frame"
           /\ T[i].at \in 1 .. F - 1 /\ T[i].byte = Layout("frame")[T[i].at]
<1>1. /\ T[i].of \in DOMAIN k /\ T[i].at \in DOMAIN Layout(k[T[i].of])
      /\ T[i].byte = Layout(k[T[i].of])[T[i].at]
  BY DEF Stream, Genuine
<1>2. k[T[i].of] \in {"frame", "empty"}
  BY <1>1
<1>3. k[T[i].of] = "frame"
  BY <1>1, <1>2, LayoutFacts
<1>4. T[i].at \in 1 .. F /\ T[i].at # F
  BY <1>1, <1>3, LayoutFacts
<1> QED BY <1>1, <1>3, <1>4, LayoutFacts

\* If the first letter of a frame is there, then so are the others, behind it.
LEMMA FrameAt ==
    ASSUME NEW T \in Seq(Letter), NEW k \in Seq({"frame", "empty"}), Stream(T, k),
           NEW s \in DOMAIN T, T[s].at = 1, k[T[s].of] = "frame", NEW a \in 1 .. F
    PROVE  /\ s + a - 1 \in DOMAIN T
           /\ T[s + a - 1] = [of |-> T[s].of, at |-> a, byte |-> Layout("frame")[a]]
<1> DEFINE g == T[s].of
<1>1. DOMAIN T = 1 .. Len(T) /\ Len(T) \in Nat /\ \A i \in DOMAIN T : T[i] \in Letter
  OBVIOUS
<1>2. T # <<>> /\ g \in DOMAIN k /\ 1 \in DOMAIN T /\ Ordered(T)
  BY <1>1 DEF Stream, Genuine
<1>3. ~(g < T[1].of) /\ ~(g = T[1].of /\ a < T[1].at)
  <2>1. /\ s \in Nat \ {0} /\ T[1].of \in Nat /\ T[1].at \in Nat /\ T[s].of \in Nat
        /\ T[1].of = T[s].of => T[s].at - T[1].at = s - 1
        /\ 1 <= s => T[1].of <= T[s].of
    BY <1>2, InOrder
  <2> QED BY <2>1, LayoutFacts
<1>4. a \in DOMAIN Layout(k[g])
  BY LayoutFacts
<1>5. PICK i \in DOMAIN T : T[i].of = g /\ T[i].at = a
  BY <1>2, <1>3, <1>4 DEF Stream, Unbroken
<1>6. i = s + a - 1
  <2>1. i \in Nat /\ s \in Nat /\ T[i].at - T[s].at = i - s
    BY <1>2, <1>5, InOrder
  <2> QED BY <1>5, <2>1, LayoutFacts
<1>7. T[i].byte = Layout("frame")[a]
  BY <1>5 DEF Stream, Genuine
<1>8. T[i] = [of |-> g, at |-> a, byte |-> Layout("frame")[a]]
  BY <1>1, <1>5, <1>7 DEF Letter
<1> QED BY <1>5, <1>6, <1>8

\* If a letter of a frame before its NUL is there, then so is the first of it.
LEMMA FrameFrom ==
    ASSUME NEW T \in Seq(Letter), NEW k \in Seq({"frame", "empty"}), Stream(T, k),
           NEW j \in DOMAIN T, T[j].byte # "nul"
    PROVE  \E s \in DOMAIN T :
              /\ s = j - (T[j].at - 1) /\ s <= j
              /\ T[s].of = T[j].of /\ T[s].at = 1 /\ T[s].byte = "open"
<1> DEFINE g == T[j].of
<1>1. DOMAIN T = 1 .. Len(T) /\ Len(T) \in Nat
  OBVIOUS
<1>2. g \in DOMAIN k /\ k[g] = "frame" /\ T[j].at \in 1 .. F - 1 /\ 1 \in DOMAIN T /\ T # <<>>
  BY <1>1, OfFrame
<1>3. /\ j \in Nat \ {0} /\ T[1].of \in Nat /\ T[1].at \in Nat /\ T[j].of \in Nat
      /\ T[1].of = T[j].of => T[j].at - T[1].at = j - 1
      /\ 1 <= j => T[1].of <= T[j].of
  BY <1>2, InOrder DEF Stream
<1>4. ~(g = T[1].of /\ 1 < T[1].at)
  <2> SUFFICES ASSUME g = T[1].of, 1 < T[1].at PROVE FALSE
    OBVIOUS
  <2>1. T[1].byte = "nul" /\ T[1].byte = Layout("frame")[T[1].at] /\ T[1].at \in 1 .. F
    BY <1>2, LayoutFacts DEF Stream, FromStart, Genuine
  <2>2. T[1].at = F /\ F \in Nat
    BY <2>1, LayoutFacts
  <2> QED BY <1>2, <1>3, <2>2
<1>5. ~(g < T[1].of)
  BY <1>3
<1>6. 1 \in DOMAIN Layout(k[g])
  BY <1>2, LayoutFacts
<1>7. PICK s \in DOMAIN T : T[s].of = g /\ T[s].at = 1
  BY <1>2, <1>4, <1>5, <1>6 DEF Stream, Unbroken
<1>8. s = j - (T[j].at - 1) /\ s <= j
  <2>1. s \in Nat /\ j \in Nat /\ T[j].at - T[s].at = j - s
    BY <1>7, InOrder DEF Stream
  <2> QED BY <1>2, <1>7, <2>1, LayoutFacts
<1>9. T[s].byte = "open"
  BY <1>2, <1>7, LayoutFacts DEF Stream, Genuine
<1> QED BY <1>7, <1>8, <1>9

\* What is left behind a point where a NUL follows is such a stream again.
LEMMA RestStreams ==
    ASSUME NEW T \in Seq(Letter), NEW k \in Seq({"frame", "empty"}), Stream(T, k),
           NEW l \in Nat, l < Len(T), T[l + 1].byte = "nul",
           NEW U \in Seq(Letter), Len(U) = Len(T) - l, \A i \in DOMAIN U : U[i] = T[i + l]
    PROVE  Stream(U, k)
<1>1. /\ DOMAIN T = 1 .. Len(T) /\ DOMAIN U = 1 .. Len(T) - l /\ Len(T) \in Nat
      /\ l + 1 \in DOMAIN T /\ 1 \in DOMAIN T /\ 1 \in DOMAIN U /\ T # <<>> /\ U[1] = T[l + 1]
  OBVIOUS
<1>2. \A i \in DOMAIN U : i + l \in DOMAIN T
  BY <1>1
<1>3. Genuine(U, k)
  BY <1>2 DEF Stream, Genuine
<1>4. Ordered(U)
  <2> SUFFICES ASSUME NEW i \in DOMAIN U, NEW j \in DOMAIN U, i < j PROVE Follows(U, i, j)
    BY DEF Ordered
  <2>1. i + l < j + l /\ (j + l) - (i + l) = j - i
    BY <1>1
  <2>2. Follows(T, i + l, j + l)
    BY <1>2, <2>1 DEF Stream, Ordered
  <2> QED BY <2>1, <2>2 DEF Follows
<1>5. FromStart(U)
  BY <1>1 DEF FromStart
<1>6. Unbroken(U, k)
  <2> SUFFICES ASSUME NEW n \in DOMAIN k, NEW a \in DOMAIN Layout(k[n]),
                      ~(n < U[1].of), ~(n = U[1].of /\ a < U[1].at)
               PROVE  \E i \in DOMAIN U : U[i].of = n /\ U[i].at = a
    BY DEF Unbroken
  <2>1. n \in Nat /\ a \in Nat
    <3>1. k[n] \in {"frame", "empty"} /\ n \in Nat
      OBVIOUS
    <3> QED BY <3>1, LayoutFacts
  <2>2. /\ T[1].of \in Nat /\ T[1].at \in Nat /\ T[l + 1].of \in Nat /\ T[l + 1].at \in Nat
        /\ T[1].of = T[l + 1].of => T[l + 1].at - T[1].at = (l + 1) - 1
        /\ 1 <= l + 1 => T[1].of <= T[l + 1].of
    BY <1>1, InOrder DEF Stream
  <2>3. ~(n < T[1].of) /\ ~(n = T[1].of /\ a < T[1].at)
    BY <1>1, <2>1, <2>2
  <2>4. PICK i \in DOMAIN T : T[i].of = n /\ T[i].at = a
    BY <1>1, <2>3 DEF Stream, Unbroken
  <2>5. /\ i \in Nat \ {0}
        /\ T[i].of = T[l + 1].of => T[l + 1].at - T[i].at = (l + 1) - i
        /\ i <= l + 1 => T[i].of <= T[l + 1].of
    BY <1>1, InOrder DEF Stream
  <2>6. ~(i <= l)
    BY <1>1, <2>1, <2>2, <2>4, <2>5
  <2>7. i - l \in DOMAIN U /\ (i - l) + l = i
    BY <1>1, <2>5, <2>6
  <2> QED BY <2>4, <2>7
<1> QED BY <1>3, <1>4, <1>5, <1>6 DEF Stream

\* A message that is sent goes on where the last one ended.
LEMMA MessageStreams ==
    ASSUME NEW T \in Seq(Letter), NEW k \in Seq({"frame", "empty"}), Stream(T, k),
           NEW kind \in {"frame", "empty"}
    PROVE  /\ Bytes(Len(k) + 1, kind) \in Seq(Letter)
           /\ Stream(T \o Bytes(Len(k) + 1, kind), Append(k, kind))
           /\ DoneIn(T \o Bytes(Len(k) + 1, kind), Append(k, kind)) = DoneIn(T, k)
<1> DEFINE N == Len(k) + 1
           h == Append(k, kind)
           b == Bytes(N, kind)
           U == T \o b
<1>1. /\ DOMAIN k = 1 .. N - 1 /\ DOMAIN h = 1 .. N /\ h[N] = kind /\ N \in Nat \ {0}
      /\ h \in Seq({"frame", "empty"}) /\ \A n \in DOMAIN k : h[n] = k[n]
  OBVIOUS
<1>2. PICK L \in Nat \ {0} :
        /\ DOMAIN Layout(kind) = 1 .. L /\ \A a \in 1 .. L : Layout(kind)[a] \in Mark
  <2>1. CASE kind = "frame"
    BY <2>1, LayoutFacts
  <2>2. CASE kind = "empty"
    <3>1. DOMAIN Layout("empty") = 1 .. 1 /\ \A a \in 1 .. 1 : Layout("empty")[a] \in Mark
      BY LayoutFacts DEF Mark
    <3> QED BY <2>2, <3>1
  <2> QED BY <2>1, <2>2
<1>3. /\ DOMAIN b = 1 .. L
      /\ \A a \in 1 .. L : b[a] = [of |-> N, at |-> a, byte |-> Layout(kind)[a]]
  BY <1>2 DEF Bytes
<1>4. b \in Seq(Letter) /\ Len(b) = L
  <2>1. b \in [1 .. L -> Letter]
    BY <1>1, <1>2 DEF Bytes, Letter
  <2> HIDE DEF b
  <2> QED BY <2>1
<1> HIDE DEF b, N, h
<1>5. /\ U \in Seq(Letter) /\ DOMAIN U = 1 .. Len(T) + L /\ DOMAIN T = 1 .. Len(T) /\ Len(T) \in Nat
      /\ \A i \in 1 .. Len(T) : U[i] = T[i]
      /\ \A i \in Len(T) + 1 .. Len(T) + L : U[i] = b[i - Len(T)]
  <2>1. U \in Seq(Letter) /\ Len(U) = Len(T) + L /\ Len(T) \in Nat
    BY <1>4
  <2>2. \A i \in 1 .. Len(T) + L : U[i] = IF i <= Len(T) THEN T[i] ELSE b[i - Len(T)]
    BY <1>4, <2>1
  <2> QED BY <2>1, <2>2
<1> HIDE DEF U
<1>6. ASSUME NEW i \in DOMAIN U, ~(i \in DOMAIN T)
      PROVE  /\ i - Len(T) \in 1 .. L
             /\ U[i] = [of |-> N, at |-> i - Len(T), byte |-> Layout(kind)[i - Len(T)]]
  <2>1. i \in Len(T) + 1 .. Len(T) + L /\ i - Len(T) \in 1 .. L
    BY <1>5, <1>6
  <2> QED BY <1>3, <1>5, <2>1
<1>7. \A i \in DOMAIN T : U[i] = T[i] /\ T[i].of \in DOMAIN k /\ i \in DOMAIN U
  BY <1>2, <1>5 DEF Stream, Genuine
<1>8. Genuine(U, h)
  <2> SUFFICES ASSUME NEW i \in DOMAIN U
               PROVE  /\ U[i].of \in DOMAIN h /\ U[i].at \in DOMAIN Layout(h[U[i].of])
                      /\ U[i].byte = Layout(h[U[i].of])[U[i].at]
    BY DEF Genuine
  <2>1. CASE i \in DOMAIN T
    BY <1>1, <1>7, <2>1 DEF Stream, Genuine
  <2>2. CASE ~(i \in DOMAIN T)
    BY <1>1, <1>2, <1>6, <2>2
  <2> QED BY <2>1, <2>2
<1>9. Ordered(U)
  <2> SUFFICES ASSUME NEW i \in DOMAIN U, NEW j \in DOMAIN U, i < j PROVE Follows(U, i, j)
    BY DEF Ordered
  <2>1. CASE j \in DOMAIN T
    <3>1. i \in DOMAIN T
      BY <1>5, <2>1
    <3>2. Follows(T, i, j)
      BY <2>1, <3>1 DEF Stream, Ordered
    <3> QED BY <1>7, <2>1, <3>1, <3>2 DEF Follows
  <2>2. CASE i \in DOMAIN T /\ ~(j \in DOMAIN T)
    <3>1. U[i].of \in 1 .. N - 1 /\ U[j].of = N
      BY <1>1, <1>6, <1>7, <2>2
    <3> QED BY <1>1, <3>1 DEF Follows
  <2>3. CASE ~(i \in DOMAIN T)
    <3>1. ~(j \in DOMAIN T)
      BY <1>5, <2>3
    <3>2. U[i].of = U[j].of /\ U[i].at = i - Len(T) /\ U[j].at = j - Len(T)
      BY <1>6, <2>3, <3>1
    <3> QED BY <1>5, <3>2 DEF Follows
  <2> QED BY <2>1, <2>2, <2>3
<1>10. FromStart(U)
  <2>1. CASE T = <<>>
    <3>1. 1 \in DOMAIN U /\ ~(1 \in DOMAIN T) /\ Len(T) = 0
      BY <1>2, <1>5, <2>1
    <3> QED BY <1>6, <3>1 DEF FromStart
  <2>2. CASE T # <<>>
    <3>1. 1 \in DOMAIN T
      BY <2>2
    <3> QED BY <1>7, <2>2, <3>1 DEF Stream, FromStart
  <2> QED BY <2>1, <2>2
<1>11. Unbroken(U, h)
  <2> SUFFICES ASSUME NEW n \in DOMAIN h, NEW a \in DOMAIN Layout(h[n]),
                      ~(n < U[1].of), ~(n = U[1].of /\ a < U[1].at)
               PROVE  \E i \in DOMAIN U : U[i].of = n /\ U[i].at = a
    BY DEF Unbroken
  <2>1. CASE n = N
    <3>1. a \in 1 .. L
      BY <1>1, <1>2, <2>1
    <3> DEFINE i == Len(T) + a
    <3>2. i \in DOMAIN U /\ ~(i \in DOMAIN T) /\ i - Len(T) = a
      BY <1>5, <3>1
    <3> HIDE DEF i
    <3> QED BY <1>6, <2>1, <3>2
  <2>2. CASE n # N
    <3>1. n \in DOMAIN k /\ n < N /\ h[n] = k[n]
      BY <1>1, <2>2
    <3>2. CASE T = <<>>
      <4>1. 1 \in DOMAIN U /\ ~(1 \in DOMAIN T)
        BY <1>2, <1>5, <3>2
      <4>2. U[1].of = N
        BY <1>6, <4>1
      <4> QED BY <3>1, <4>2
    <3>3. CASE T # <<>>
      <4>1. 1 \in DOMAIN T
        BY <3>3
      <4>2. U[1] = T[1]
        BY <1>7, <4>1
      <4>3. PICK i \in DOMAIN T : T[i].of = n /\ T[i].at = a
        BY <3>1, <3>3, <4>2 DEF Stream, Unbroken
      <4> QED BY <1>7, <4>3
    <3> QED BY <3>2, <3>3
  <2> QED BY <2>1, <2>2
<1>12. DoneIn(U, h) = DoneIn(T, k)
  <2>1. ~(N \in DoneIn(U, h))
    <3>1. CASE kind = "frame"
      <4> DEFINE i == Len(T) + 1
      <4>1. i \in DOMAIN U /\ ~(i \in DOMAIN T) /\ i - Len(T) = 1
        BY <1>5
      <4> HIDE DEF i
      <4>2. U[i].of = N /\ U[i].byte = "open"
        BY <1>6, <3>1, <4>1, LayoutFacts
      <4> QED BY <4>1, <4>2 DEF DoneIn
    <3>2. CASE kind = "empty"
      BY <1>1, <3>2 DEF DoneIn
    <3> QED BY <3>1, <3>2
  <2>2. ASSUME NEW n \in DOMAIN k PROVE n \in DoneIn(U, h) <=> n \in DoneIn(T, k)
    <3>1. n \in DOMAIN h /\ n # N /\ h[n] = k[n]
      BY <1>1
    <3>2. ASSUME n \in DoneIn(T, k), NEW i \in DOMAIN U, U[i].of = n PROVE U[i].byte = "nul"
      <4>1. i \in DOMAIN T
        BY <1>6, <3>1, <3>2
      <4> QED BY <1>7, <3>2, <4>1 DEF DoneIn
    <3> QED BY <1>7, <3>1, <3>2 DEF DoneIn
  <2>3. DoneIn(U, h) \subseteq DOMAIN k /\ DoneIn(T, k) \subseteq DOMAIN k
    BY <1>1, <2>1 DEF DoneIn
  <2> QED BY <2>2, <2>3
<1> QED BY <1>4, <1>8, <1>9, <1>10, <1>11, <1>12 DEF Stream, U, b, N, h

-----------------------------------------------------------------------------
(* What the client looks for *)

\* find() is the first place of the text from the given one on, or there is none.
LEMMA FindFacts ==
    ASSUME buffer \in Seq(Letter), NEW text, NEW from \in Nat \ {0}
    PROVE  \/ /\ Find(text, from) = 0
              /\ \A j \in DOMAIN buffer : j >= from => buffer[j].byte # text
           \/ /\ Find(text, from) \in DOMAIN buffer /\ Find(text, from) >= from
              /\ buffer[Find(text, from)].byte = text
              /\ \A j \in DOMAIN buffer :
                    j >= from /\ buffer[j].byte = text => Find(text, from) <= j
<1> DEFINE found == {i \in from .. Len(buffer) : buffer[i].byte = text}
<1>1. DOMAIN buffer = 1 .. Len(buffer) /\ Len(buffer) \in Nat
  OBVIOUS
<1>2. CASE found = {}
  <2>1. Find(text, from) = 0
    BY <1>2 DEF Find
  <2>2. \A j \in DOMAIN buffer : j >= from => buffer[j].byte # text
    BY <1>1, <1>2
  <2> QED BY <2>1, <2>2
<1>3. CASE found # {}
  <2>1. found \subseteq Nat
    OBVIOUS
  <2>2. PICK x \in found : \A y \in found : ~(<<y, x>> \in OpToRel(<, Nat))
    <3> HIDE DEF found
    <3> QED BY <1>3, <2>1, NatLessThanWellFounded, WFMin, Zenon
  <2>3. \A y \in found : x <= y
    <3> SUFFICES ASSUME NEW y \in found PROVE x <= y
      OBVIOUS
    <3>1. x \in Nat /\ y \in Nat
      BY <2>1
    <3>2. ~(y < x)
      BY <2>2, <3>1 DEF OpToRel
    <3> QED BY <3>1, <3>2
  <2> DEFINE k == CHOOSE i \in found : \A j \in found : i <= j
  <2>4. k \in found /\ \A j \in found : k <= j
    BY <2>3
  <2>5. Find(text, from) = k
    BY <1>3 DEF Find
  <2> HIDE DEF k
  <2>6. k \in from .. Len(buffer) /\ buffer[k].byte = text
    BY <2>4
  <2> QED BY <1>1, <2>4, <2>5, <2>6
<1> QED BY <1>2, <1>3

\* The bytes that have been sent and not been processed.
Incoming == buffer \o wire

TypeInv ==
    /\ sentKinds \in Seq({"frame", "empty"})
    /\ wire \in Seq(Letter) /\ buffer \in Seq(Letter)
    /\ telemetry \in Seq(Nat)

LEMMA Reassociate ==
    ASSUME NEW x \in Seq(Letter), NEW y \in Seq(Letter), NEW z \in Seq(Letter)
    PROVE  (x \o y) \o z = x \o (y \o z)
BY ConcatAssociative

LEMMA JoinFacts ==
    ASSUME TypeInv
    PROVE  /\ Incoming \in Seq(Letter) /\ Len(Incoming) = Len(buffer) + Len(wire)
           /\ Len(buffer) \in Nat /\ Len(wire) \in Nat
           /\ DOMAIN buffer = 1 .. Len(buffer) /\ DOMAIN wire = 1 .. Len(wire)
           /\ DOMAIN Incoming = 1 .. Len(buffer) + Len(wire)
           /\ \A i \in DOMAIN buffer : i \in DOMAIN Incoming /\ Incoming[i] = buffer[i]
           /\ \A i \in DOMAIN wire :
                 Len(buffer) + i \in DOMAIN Incoming /\ Incoming[Len(buffer) + i] = wire[i]
           /\ \A i \in DOMAIN Incoming : i \notin DOMAIN buffer =>
                 i - Len(buffer) \in DOMAIN wire /\ Incoming[i] = wire[i - Len(buffer)]
<1>1. buffer \in Seq(Letter) /\ wire \in Seq(Letter)
  BY DEF TypeInv
<1>2. /\ Incoming \in Seq(Letter) /\ Len(Incoming) = Len(buffer) + Len(wire)
      /\ \A i \in 1 .. Len(buffer) + Len(wire) :
            Incoming[i] = IF i <= Len(buffer) THEN buffer[i] ELSE wire[i - Len(buffer)]
  BY <1>1, ConcatProperties DEF Incoming
<1>3. /\ Len(buffer) \in Nat /\ Len(wire) \in Nat
      /\ DOMAIN buffer = 1 .. Len(buffer) /\ DOMAIN wire = 1 .. Len(wire)
  BY <1>1
<1>4. DOMAIN Incoming = 1 .. Len(buffer) + Len(wire)
  BY <1>2, <1>3
<1>5. ASSUME NEW i \in DOMAIN wire
      PROVE  Len(buffer) + i \in DOMAIN Incoming /\ Incoming[Len(buffer) + i] = wire[i]
  <2> DEFINE j == Len(buffer) + i
  <2>1. j \in 1 .. Len(buffer) + Len(wire) /\ ~(j <= Len(buffer)) /\ j - Len(buffer) = i
    BY <1>3
  <2> HIDE DEF j
  <2>2. j \in DOMAIN Incoming /\ Incoming[j] = wire[i]
    BY <1>2, <1>4, <2>1
  <2> QED BY <2>2 DEF j
<1> QED BY <1>2, <1>3, <1>4, <1>5

\* If the client finds all it looks for, it has found the first frame.
LEMMA FoundFrame ==
    ASSUME TypeInv, Stream(Incoming, sentKinds),
           frame_start_index # 0, frame_end_index # 0, last_bracket_index # 0
    PROVE  /\ frame_start_index \in DOMAIN Incoming /\ Incoming[frame_start_index].at = 1
           /\ Incoming[frame_start_index].of \in DOMAIN sentKinds
           /\ sentKinds[Incoming[frame_start_index].of] = "frame"
           /\ last_bracket_index = frame_start_index + F - 2
           /\ last_bracket_index \in DOMAIN buffer
           /\ \A j \in DOMAIN Incoming : j < frame_start_index => Incoming[j].byte = "nul"
<1> DEFINE T == Incoming
           s == frame_start_index
           e == frame_end_index
           l == last_bracket_index
<1>1. /\ Stream(T, sentKinds) /\ T \in Seq(Letter) /\ buffer \in Seq(Letter) /\ sentKinds \in Seq({"frame", "empty"})
      /\ DOMAIN buffer = 1 .. Len(buffer) /\ Len(buffer) \in Nat
      /\ \A i \in DOMAIN buffer : i \in DOMAIN T /\ T[i] = buffer[i]
      /\ DOMAIN T = 1 .. Len(T) /\ Len(T) \in Nat
  BY JoinFacts DEF TypeInv
<1>2. /\ s \in DOMAIN buffer /\ buffer[s].byte = "open"
      /\ \A j \in DOMAIN buffer : j >= 1 /\ buffer[j].byte = "open" => s <= j
  BY <1>1, FindFacts DEF frame_start_index
<1>3. /\ e \in DOMAIN buffer /\ buffer[e].byte = "frame_type"
      /\ \A j \in DOMAIN buffer : j >= 1 /\ buffer[j].byte = "frame_type" => e <= j
  BY <1>1, FindFacts DEF frame_end_index
<1>4. /\ l \in DOMAIN buffer /\ l >= e /\ buffer[l].byte = "close"
      /\ \A j \in DOMAIN buffer : j >= e /\ buffer[j].byte = "close" => l <= j
  <2>1. e \in Nat \ {0}
    BY <1>1, <1>3
  <2> QED BY <1>1, <2>1, FindFacts DEF last_bracket_index
<1> HIDE DEF T, s, e, l
<1>5. F \in Nat /\ F > 6
  BY LayoutFacts
<1>6. ASSUME NEW j \in DOMAIN T, j < s PROVE T[j].byte = "nul"
  <2> SUFFICES ASSUME T[j].byte # "nul" PROVE FALSE
    OBVIOUS
  <2>1. PICK i \in DOMAIN T : i <= j /\ T[i].byte = "open"
    BY <1>1, FrameFrom
  <2>2. i \in DOMAIN buffer /\ i < s
    BY <1>1, <1>2, <1>6, <2>1
  <2> QED BY <1>1, <1>2, <2>1, <2>2
<1>7. s \in DOMAIN T /\ T[s].byte # "nul"
  BY <1>1, <1>2
<1>8. /\ T[s].of \in DOMAIN sentKinds /\ sentKinds[T[s].of] = "frame"
      /\ T[s].at \in 1 .. F - 1
  BY <1>1, <1>7, OfFrame
<1>9. T[s].at = 1
  <2>1. PICK i \in DOMAIN T : i = s - (T[s].at - 1) /\ i <= s /\ T[i].byte = "open"
    BY <1>1, <1>7, FrameFrom
  <2>2. i = s
    BY <1>1, <1>6, <1>2, <2>1
  <2> QED BY <1>1, <1>2, <1>5, <1>8, <2>1, <2>2
<1>10. ASSUME NEW a \in 1 .. F
       PROVE  s + a - 1 \in DOMAIN T /\ T[s + a - 1].byte = Layout("frame")[a]
  <2>1. T[s + a - 1] = [of |-> T[s].of, at |-> a, byte |-> Layout("frame")[a]]
    BY <1>1, <1>7, <1>8, <1>9, FrameAt
  <2>2. s + a - 1 \in DOMAIN T
    BY <1>1, <1>7, <1>8, <1>9, FrameAt
  <2> QED BY <2>1, <2>2
<1>11. e = s + F - 3
  <2>1. T[e].byte # "nul" /\ e \in DOMAIN T
    BY <1>1, <1>3
  <2>2. T[e].at \in 1 .. F - 1 /\ T[e].byte = Layout("frame")[T[e].at]
    BY <1>1, <2>1, OfFrame
  <2>3. T[e].at = F - 2
    BY <1>1, <1>3, <1>5, <2>2, LayoutFacts
  <2>4. PICK i \in DOMAIN T : i = e - (T[e].at - 1) /\ i <= e /\ T[i].byte = "open"
    BY <1>1, <2>1, FrameFrom
  <2>5. i \in DOMAIN buffer /\ s <= i /\ i = e - (F - 3)
    BY <1>1, <1>2, <1>3, <1>5, <2>3, <2>4
  <2>6. F - 2 \in 1 .. F /\ s + (F - 2) - 1 = s + F - 3
    BY <1>1, <1>2, <1>5
  <2>7. s + F - 3 \in DOMAIN T /\ T[s + F - 3].byte = "frame_type"
    <3>1. s + (F - 2) - 1 \in DOMAIN T /\ T[s + (F - 2) - 1].byte = Layout("frame")[F - 2]
      BY <1>10, <2>6
    <3> QED BY <2>6, <3>1, LayoutFacts
  <2>8. s + F - 3 <= e
    BY <1>1, <1>2, <1>3, <1>5, <2>5
  <2>9. s + F - 3 \in DOMAIN buffer
    BY <1>1, <1>3, <2>7, <2>8
  <2> QED BY <1>1, <1>2, <1>3, <1>5, <2>7, <2>8, <2>9
<1>12. l = s + F - 2
  <2>1. F - 1 \in 1 .. F /\ s + (F - 1) - 1 = s + F - 2 /\ s + (F - 2) - 1 = s + F - 3
    BY <1>1, <1>2, <1>5
  <2>2. s + F - 2 \in DOMAIN T /\ T[s + F - 2].byte = "close"
    <3>1. s + (F - 1) - 1 \in DOMAIN T /\ T[s + (F - 1) - 1].byte = Layout("frame")[F - 1]
      BY <1>10, <2>1
    <3> QED BY <1>5, <2>1, <3>1, LayoutFacts
  <2>3. l # e
    BY <1>3, <1>4
  <2>4. s + F - 2 <= l
    BY <1>1, <1>2, <1>3, <1>4, <1>5, <1>11, <2>3
  <2>5. s + F - 2 \in DOMAIN buffer
    BY <1>1, <1>4, <2>2, <2>4
  <2>6. s + F - 2 >= e
    BY <1>1, <1>2, <1>5, <1>11
  <2> QED BY <1>1, <1>2, <1>4, <1>5, <2>2, <2>4, <2>5, <2>6
<1> QED BY <1>4, <1>6, <1>7, <1>8, <1>9, <1>12 DEF T, s, e, l

\* json.loads accepts what is between: the text of that frame.
LEMMA FrameParsed ==
    ASSUME TypeInv, Stream(Incoming, sentKinds),
           frame_start_index # 0, frame_end_index # 0, last_bracket_index # 0
    PROVE  LET json_str == SubSeq(buffer, frame_start_index, last_bracket_index)
           IN  IsObject(json_str) /\ json_str[1].of = Incoming[frame_start_index].of
<1> DEFINE T == Incoming
           s == frame_start_index
           l == last_bracket_index
           g == T[s].of
           json == SubSeq(buffer, s, l)
           text == SubSeq(Bytes(g, "frame"), 1, F - 1)
<1>1. /\ Stream(T, sentKinds) /\ T \in Seq(Letter) /\ sentKinds \in Seq({"frame", "empty"})
      /\ buffer \in Seq(Letter) /\ DOMAIN buffer = 1 .. Len(buffer) /\ Len(buffer) \in Nat
      /\ \A i \in DOMAIN buffer : i \in DOMAIN T /\ T[i] = buffer[i]
      /\ DOMAIN T = 1 .. Len(T) /\ Len(T) \in Nat
  BY JoinFacts DEF TypeInv
<1>2. /\ s \in DOMAIN T /\ T[s].at = 1 /\ g \in DOMAIN sentKinds /\ sentKinds[g] = "frame"
      /\ l = s + F - 2 /\ l \in DOMAIN buffer
  BY FoundFrame
<1> HIDE DEF T, s, l
<1>3. F \in Nat /\ F > 6 /\ DOMAIN Layout("frame") = 1 .. F /\ Len(Layout("frame")) = F
  BY LayoutFacts DEF F
<1>4. \A a \in 1 .. F - 1 : s + a - 1 \in DOMAIN buffer
  BY <1>1, <1>2, <1>3
<1>5. ASSUME NEW a \in 1 .. F - 1
      PROVE  buffer[s + a - 1] = [of |-> g, at |-> a, byte |-> Layout("frame")[a]]
  <2>1. a \in 1 .. F
    BY <1>3
  <2>2. T[s + a - 1] = [of |-> g, at |-> a, byte |-> Layout("frame")[a]]
    BY <1>1, <1>2, <2>1, FrameAt
  <2> QED BY <1>1, <1>4, <2>2
<1>6. /\ json \in Seq(Letter) /\ Len(json) = F - 1
      /\ \A i \in 1 .. F - 1 : json[i] = buffer[s + i - 1]
  <2>1. s \in Int /\ l \in Int /\ l - s + 1 = F - 1 /\ s <= l
    BY <1>1, <1>2, <1>3
  <2>2. \A i \in s .. l : buffer[i] \in Letter
    BY <1>1, <1>2
  <2> QED BY <2>1, <2>2, SubSeqProperties
<1>7. /\ text \in Seq(Letter) /\ Len(text) = F - 1
      /\ \A i \in 1 .. F - 1 : text[i] = [of |-> g, at |-> i, byte |-> Layout("frame")[i]]
  <2> DEFINE b == Bytes(g, "frame")
  <2>1. \A i \in 1 .. F : b[i] = [of |-> g, at |-> i, byte |-> Layout("frame")[i]]
    BY <1>3 DEF Bytes
  <2>2. \A i \in 1 .. F - 1 : b[i] \in Letter
    <3> SUFFICES ASSUME NEW i \in 1 .. F - 1 PROVE b[i] \in Letter
      OBVIOUS
    <3>1. g \in Nat
      BY <1>1, <1>2
    <3>2. i \in 1 .. F /\ i \in Nat
      BY <1>3
    <3>3. Layout("frame")[i] \in Mark
      BY <3>2, LayoutFacts
    <3> HIDE DEF b
    <3>4. b[i] = [of |-> g, at |-> i, byte |-> Layout("frame")[i]]
      BY <2>1, <3>2
    <3> QED BY <3>1, <3>2, <3>3, <3>4 DEF Letter
  <2> HIDE DEF b
  <2>3. /\ SubSeq(b, 1, F - 1) \in Seq(Letter) /\ Len(SubSeq(b, 1, F - 1)) = F - 1
        /\ \A i \in 1 .. F - 1 : SubSeq(b, 1, F - 1)[i] = b[i]
    <3>1. 1 \in Int /\ F - 1 \in Int /\ 1 <= F - 1 /\ F - 1 - 1 + 1 = F - 1
      BY <1>3
    <3>2. /\ SubSeq(b, 1, F - 1) \in Seq(Letter)
          /\ Len(SubSeq(b, 1, F - 1)) = IF 1 <= F - 1 THEN F - 1 - 1 + 1 ELSE 0
          /\ \A i \in 1 .. F - 1 - 1 + 1 : SubSeq(b, 1, F - 1)[i] = b[1 + i - 1]
      BY <2>2, <3>1, SubSeqProperties
    <3> QED BY <3>1, <3>2
  <2>4. \A i \in 1 .. F - 1 : i \in 1 .. F
    BY <1>3
  <2> QED BY <2>1, <2>3, <2>4 DEF b
<1> HIDE DEF json, text
<1>8. json = text
  BY <1>5, <1>6, <1>7, SeqEqual
<1>9. IsObject(json)
  BY <1>2, <1>3, <1>8 DEF IsObject, text
<1>10. json[1].of = g
  <2>1. 1 \in 1 .. F - 1
    BY <1>3
  <2>2. text[1] = [of |-> g, at |-> 1, byte |-> Layout("frame")[1]]
    BY <1>7, <2>1
  <2> QED BY <1>8, <2>2
<1> QED BY <1>9, <1>10 DEF json, T, s, l

\* If it does not find all, there is no last brace of a frame in the buffer.
LEMMA NothingFound ==
    ASSUME TypeInv, Stream(Incoming, sentKinds),
           frame_start_index = 0 \/ frame_end_index = 0 \/ last_bracket_index = 0
    PROVE  \A i \in DOMAIN buffer : buffer[i].at # F - 1
<1> SUFFICES ASSUME NEW i \in DOMAIN buffer, buffer[i].at = F - 1 PROVE FALSE
  OBVIOUS
<1> DEFINE T == Incoming
<1>1. /\ Stream(T, sentKinds) /\ T \in Seq(Letter) /\ sentKinds \in Seq({"frame", "empty"})
      /\ buffer \in Seq(Letter) /\ DOMAIN buffer = 1 .. Len(buffer) /\ Len(buffer) \in Nat
      /\ \A j \in DOMAIN buffer : j \in DOMAIN T /\ T[j] = buffer[j]
      /\ DOMAIN T = 1 .. Len(T) /\ Len(T) \in Nat
  BY JoinFacts DEF TypeInv
<1> HIDE DEF T
<1>2. i \in DOMAIN T /\ T[i] = buffer[i] /\ T[i].at = F - 1 /\ F \in Nat /\ F > 6
  BY <1>1, LayoutFacts
<1>3. T[i].byte = "close"
  <2>1. /\ T[i].of \in DOMAIN sentKinds /\ T[i].at \in DOMAIN Layout(sentKinds[T[i].of])
        /\ T[i].byte = Layout(sentKinds[T[i].of])[T[i].at]
    BY <1>1, <1>2 DEF Stream, Genuine
  <2>2. sentKinds[T[i].of] = "frame"
    BY <1>1, <1>2, <2>1, LayoutFacts
  <2> QED BY <1>2, <2>1, <2>2, LayoutFacts
<1>4. T[i].of \in DOMAIN sentKinds /\ sentKinds[T[i].of] = "frame"
  BY <1>1, <1>2, <1>3, OfFrame
<1>5. PICK s \in DOMAIN T :
        s = i - (F - 1 - 1) /\ T[s].of = T[i].of /\ T[s].at = 1 /\ T[s].byte = "open"
  BY <1>1, <1>2, <1>3, FrameFrom
<1>6. s \in DOMAIN buffer /\ buffer[s].byte = "open" /\ s >= 1
  BY <1>1, <1>2, <1>5
<1>7. frame_start_index # 0
  BY <1>1, <1>6, FindFacts DEF frame_start_index
<1> DEFINE m == i - 1
<1>8. m \in DOMAIN buffer /\ m >= 1 /\ m <= i /\ buffer[m].byte = "frame_type"
  <2>1. F - 2 \in 1 .. F /\ s + (F - 2) - 1 = m
    BY <1>1, <1>2, <1>5
  <2>2. T[s + (F - 2) - 1] = [of |-> T[s].of, at |-> F - 2, byte |-> Layout("frame")[F - 2]]
    <3>1. sentKinds[T[s].of] = "frame"
      BY <1>4, <1>5
    <3> QED BY <1>1, <1>5, <2>1, <3>1, FrameAt
  <2>3. s + (F - 2) - 1 \in DOMAIN T
    BY <1>1, <1>4, <1>5, <2>1, FrameAt
  <2>4. m \in DOMAIN buffer /\ m >= 1 /\ m <= i
    BY <1>1, <2>1, <2>3
  <2>5. buffer[m].byte = Layout("frame")[F - 2]
    BY <1>1, <2>1, <2>2, <2>4
  <2> QED BY <2>1, <2>4, <2>5, LayoutFacts
<1> HIDE DEF m
<1>9. frame_end_index \in DOMAIN buffer /\ frame_end_index <= m
  BY <1>1, <1>8, FindFacts DEF frame_end_index
<1>10. frame_end_index \in Nat \ {0} /\ frame_end_index <= i
  BY <1>1, <1>8, <1>9
<1>11. last_bracket_index # 0
  <2>1. i >= frame_end_index /\ buffer[i].byte = "close"
    BY <1>1, <1>2, <1>3, <1>10
  <2>2. \/ \A j \in DOMAIN buffer : j >= frame_end_index => buffer[j].byte # "close"
        \/ Find("close", frame_end_index) \in DOMAIN buffer
    BY <1>1, <1>10, FindFacts
  <2> QED BY <1>1, <2>1, <2>2 DEF last_bracket_index
<1> QED BY <1>7, <1>10, <1>11

\* Behind the last brace of a frame there is only its NUL.
LEMMA OnlyNulBehind ==
    ASSUME NEW T \in Seq(Letter), NEW k \in Seq({"frame", "empty"}), Stream(T, k),
           NEW s \in DOMAIN T, T[s].at = 1, k[T[s].of] = "frame",
           NEW m \in DOMAIN T, T[m].of = T[s].of, m > s + F - 2
    PROVE  T[m].byte = "nul"
<1>1. /\ s \in Nat \ {0} /\ m \in Nat \ {0} /\ T[m].at \in Nat
      /\ T[s].of = T[m].of => T[m].at - T[s].at = m - s
  BY InOrder DEF Stream
<1>2. T[m].at \in DOMAIN Layout(k[T[m].of]) /\ T[m].byte = Layout(k[T[m].of])[T[m].at]
  BY DEF Stream, Genuine
<1>3. T[m].at \in 1 .. F /\ T[m].byte = Layout("frame")[T[m].at]
  BY <1>2, LayoutFacts
<1>4. T[m].at = F
  BY <1>1, <1>3, LayoutFacts
<1> QED BY <1>3, <1>4, LayoutFacts

LEMMA Shift ==
    ASSUME NEW n \in Nat, NEW l \in Nat, NEW j \in 1 .. n, j > l
    PROVE  j - l \in 1 .. n - l /\ (j - l) + l = j
OBVIOUS

\* U is what is left of T behind the frame that begins at s, the first in T.
Rest(U, T, k, s) ==
    /\ s \in DOMAIN T /\ T[s].at = 1 /\ T[s].of \in DOMAIN k /\ k[T[s].of] = "frame"
    /\ \A j \in DOMAIN T : j < s => T[j].byte = "nul"
    /\ Len(U) = Len(T) - (s + F - 2)
    /\ \A i \in DOMAIN U : U[i] = T[i + (s + F - 2)]

\* Cutting out a frame leaves the rest, and that frame is the next in order.
LEMMA CutOut ==
    ASSUME NEW T \in Seq(Letter), NEW k \in Seq({"frame", "empty"}), Stream(T, k),
           NEW U \in Seq(Letter), NEW s, Rest(U, T, k, s)
    PROVE  /\ Stream(U, k)
           /\ DoneIn(U, k) = DoneIn(T, k) \cup {T[s].of}
           /\ \A n \in DoneIn(T, k) : n < T[s].of
<1> DEFINE l == s + F - 2
<1> SUFFICES ASSUME s \in DOMAIN T, T[s].at = 1, T[s].of \in DOMAIN k, k[T[s].of] = "frame",
                    \A j \in DOMAIN T : j < s => T[j].byte = "nul",
                    Len(U) = Len(T) - l, \A i \in DOMAIN U : U[i] = T[i + l]
             PROVE  /\ Stream(U, k)
                    /\ DoneIn(U, k) = DoneIn(T, k) \cup {T[s].of}
                    /\ \A n \in DoneIn(T, k) : n < T[s].of
  BY DEF Rest
<1>0. l \in Nat /\ l = s + F - 2
  BY LayoutFacts
<1> HIDE DEF l
<1> DEFINE g == T[s].of
<1>1. /\ DOMAIN T = 1 .. Len(T) /\ Len(T) \in Nat /\ s \in Nat \ {0} /\ g \in Nat /\ g \in DOMAIN k
      /\ F \in Nat /\ F > 6 /\ DOMAIN k \subseteq Nat /\ l \in Nat /\ l = s + F - 2
  BY <1>0, LayoutFacts
<1>2. l + 1 \in DOMAIN T /\ T[l + 1].byte = "nul"
  <2>1. F \in 1 .. F /\ s + F - 1 = l + 1
    BY <1>1
  <2>2. s + F - 1 \in DOMAIN T /\ T[s + F - 1] = [of |-> g, at |-> F, byte |-> Layout("frame")[F]]
    BY <2>1, FrameAt
  <2> QED BY <2>1, <2>2, LayoutFacts
<1>3. Stream(U, k)
  <2>1. l < Len(T)
    BY <1>1, <1>2
  <2> QED BY <1>1, <1>2, <2>1, RestStreams
<1>4. DOMAIN U = 1 .. Len(T) - l /\ \A i \in DOMAIN U : i + l \in DOMAIN T /\ U[i] = T[i + l]
  BY <1>1
<1>5. T[s].byte = "open"
  BY LayoutFacts DEF Stream, Genuine
<1>6. ASSUME NEW n \in DoneIn(T, k) PROVE n \in DoneIn(U, k)
  BY <1>4, <1>6 DEF DoneIn
<1>7. g \in DoneIn(U, k)
  <2> SUFFICES ASSUME NEW i \in DOMAIN U, U[i].of = g PROVE U[i].byte = "nul"
    BY <1>1 DEF DoneIn
  <2> DEFINE m == i + l
  <2>1. m \in DOMAIN T /\ T[m].of = g /\ U[i] = T[m]
    BY <1>4
  <2>2. m > s + F - 2
    BY <1>1, <1>4
  <2> QED BY <2>1, <2>2, OnlyNulBehind
<1>8. ASSUME NEW n \in DoneIn(U, k), n # g PROVE n \in DoneIn(T, k)
  <2> SUFFICES ASSUME NEW j \in DOMAIN T, T[j].of = n, T[j].byte # "nul" PROVE FALSE
    BY <1>8 DEF DoneIn
  <2>1. s <= j /\ j \in Nat
    BY <1>1
  <2>2. CASE j <= l
    <3> DEFINE a == j - s + 1
    <3>1. a \in 1 .. F /\ s + a - 1 = j
      BY <1>1, <2>1, <2>2
    <3> HIDE DEF a
    <3>2. T[s + a - 1] = [of |-> g, at |-> a, byte |-> Layout("frame")[a]]
      BY <3>1, FrameAt
    <3> QED BY <1>8, <3>1, <3>2
  <2>3. CASE ~(j <= l)
    <3>1. j - l \in 1 .. Len(T) - l /\ (j - l) + l = j
      <4>1. j \in 1 .. Len(T) /\ j > l
        BY <1>1, <2>1, <2>3
      <4>2. Len(T) \in Nat /\ l \in Nat
        BY <1>1
      <4> QED BY <4>1, <4>2, Shift
    <3>2. j - l \in DOMAIN U /\ U[j - l] = T[j]
      BY <1>4, <3>1
    <3> QED BY <1>8, <3>2 DEF DoneIn
  <2> QED BY <2>2, <2>3
<1>9. ASSUME NEW n \in DoneIn(T, k) PROVE n < g
  <2>1. n \in DOMAIN k /\ n \in Nat /\ k[n] = "frame"
    BY <1>1 DEF DoneIn
  <2>2. n # g
    BY <1>5 DEF DoneIn
  <2>3. ~(g < n)
    <3> SUFFICES ASSUME g < n PROVE FALSE
      OBVIOUS
    <3>1. 1 \in DOMAIN T /\ T # <<>> /\ T[1].of \in Nat /\ T[1].of <= g
      <4>1. 1 \in DOMAIN T /\ T # <<>> /\ 1 <= s
        BY <1>1
      <4> QED BY <4>1, InOrder DEF Stream
    <3>2. 1 \in DOMAIN Layout(k[n])
      BY <2>1, LayoutFacts
    <3>3. ~(n < T[1].of) /\ n # T[1].of
      BY <1>1, <2>1, <3>1
    <3>4. PICK i \in DOMAIN T : T[i].of = n /\ T[i].at = 1
      BY <2>1, <3>1, <3>2, <3>3 DEF Stream, Unbroken
    <3>5. T[i].byte = "open"
      BY <2>1, <3>4, LayoutFacts DEF Stream, Genuine
    <3> QED BY <3>4, <3>5 DEF DoneIn
  <2> QED BY <1>1, <2>1, <2>2, <2>3
<1>10. DoneIn(U, k) = DoneIn(T, k) \cup {g}
  BY <1>6, <1>7, <1>8
<1> QED BY <1>3, <1>9, <1>10

LEMMA ListsNext ==
    ASSUME NEW s \in Seq(Nat), NEW S \in SUBSET Nat, Lists(s, S), NEW n \in Nat, \A m \in S : m < n
    PROVE  Lists(Append(s, n), S \cup {n})
<1> DEFINE t == Append(s, n)
<1>1. /\ DOMAIN s = 1 .. Len(s) /\ Len(s) \in Nat /\ DOMAIN t = 1 .. Len(s) + 1
      /\ t[Len(s) + 1] = n /\ \A i \in DOMAIN s : t[i] = s[i]
  OBVIOUS
<1> HIDE DEF t
<1>2. \A i \in DOMAIN t : i \in DOMAIN s \/ i = Len(s) + 1
  BY <1>1
<1>3. {t[i] : i \in DOMAIN t} = S \cup {n}
  <2>1. {s[i] : i \in DOMAIN s} = S
    BY DEF Lists
  <2> QED BY <1>1, <1>2, <2>1
<1>4. ASSUME NEW i \in DOMAIN t, NEW j \in DOMAIN t, i < j PROVE t[i] < t[j]
  <2>1. i \in DOMAIN s /\ s[i] \in S
    BY <1>1, <1>4 DEF Lists
  <2>2. CASE j \in DOMAIN s
    BY <1>1, <1>4, <2>1, <2>2 DEF Lists
  <2>3. CASE j = Len(s) + 1
    BY <1>1, <2>1, <2>3
  <2> QED BY <1>2, <2>2, <2>3
<1> QED BY <1>3, <1>4 DEF Lists, t

-----------------------------------------------------------------------------
(* The invariant *)

InStep ==
    /\ Stream(Incoming, sentKinds)
    /\ Lists(telemetry, DoneIn(Incoming, sentKinds))

IInv ==
    /\ TypeInv
    /\ pc # "stopped" => InStep
    /\ pc = "recv" => \A i \in DOMAIN buffer : buffer[i].at # F - 1

LEMMA InitIInv == Init => IInv
<1> SUFFICES ASSUME Init PROVE IInv
  OBVIOUS
<1>1. /\ sentKinds = <<>> /\ wire = <<>> /\ buffer = <<>> /\ telemetry = <<>>
      /\ DOMAIN <<>> = {}
  BY DEF Init
<1>2. TypeInv
  BY <1>1 DEF TypeInv
<1>3. Incoming = <<>>
  BY <1>1 DEF Incoming
<1>4. InStep
  BY <1>1, <1>3
     DEF InStep, Stream, Genuine, Ordered, Unbroken, FromStart, Lists, DoneIn
<1> QED BY <1>1, <1>2, <1>4 DEF IInv

LEMMA SendStep ==
    ASSUME IInv, NEW kind \in {"frame", "empty"}, Send(kind)
    PROVE  IInv'
<1> DEFINE N == Len(sentKinds) + 1
           b == Bytes(N, kind)
<1>1. /\ sentKinds \in Seq({"frame", "empty"}) /\ wire \in Seq(Letter)
      /\ buffer \in Seq(Letter) /\ telemetry \in Seq(Nat)
  BY DEF IInv, TypeInv
<1>2. /\ sentKinds' = Append(sentKinds, kind) /\ Len(sentKinds') = N
      /\ sentKinds' \in Seq({"frame", "empty"})
      /\ wire' = wire \o b /\ UNCHANGED <<pc, buffer, telemetry>>
  BY <1>1 DEF Send
<1>3. b \in Seq(Letter)
  <2>1. Stream(<<>>, sentKinds)
    BY DEF Stream, Genuine, Ordered, Unbroken, FromStart
  <2>2. <<>> \in Seq(Letter)
    OBVIOUS
  <2> HIDE DEF N
  <2> QED BY <1>1, <2>1, <2>2, MessageStreams DEF N
<1>4. ASSUME pc # "stopped" PROVE InStep'
  <2>1. Stream(Incoming, sentKinds) /\ Incoming \in Seq(Letter)
    BY <1>4, JoinFacts DEF IInv, InStep
  <2>2. /\ Stream(Incoming \o b, Append(sentKinds, kind))
        /\ DoneIn(Incoming \o b, Append(sentKinds, kind)) = DoneIn(Incoming, sentKinds)
    BY <1>1, <2>1, MessageStreams
  <2>3. Incoming' = Incoming \o b
    <3> HIDE DEF b
    <3>1. Incoming' = buffer \o (wire \o b)
      BY <1>2 DEF Incoming
    <3>2. (buffer \o wire) \o b = buffer \o (wire \o b)
      BY <1>1, <1>3, Reassociate
    <3> QED BY <3>1, <3>2 DEF Incoming
  <2> HIDE DEF b
  <2> QED BY <1>2, <1>4, <2>2, <2>3 DEF IInv, InStep
<1> HIDE DEF b
<1>5. TypeInv'
  BY <1>1, <1>2, <1>3, ConcatProperties DEF TypeInv
<1> QED BY <1>2, <1>4, <1>5 DEF IInv

LEMMA RecvStep == IInv /\ Recv => IInv'
<1> SUFFICES ASSUME IInv, Recv PROVE IInv'
  OBVIOUS
<1>1. PICK n \in 1 .. Len(wire) :
        /\ wire' = SubSeq(wire, n + 1, Len(wire))
        /\ IF Decodes(SubSeq(wire, 1, n))
           THEN pc' = "parse" /\ buffer' = buffer \o SubSeq(wire, 1, n)
           ELSE pc' = "stopped" /\ buffer' = buffer
  BY DEF Recv, Stop
<1>2. /\ sentKinds \in Seq({"frame", "empty"}) /\ wire \in Seq(Letter)
      /\ buffer \in Seq(Letter) /\ telemetry \in Seq(Nat)
      /\ pc = "recv" /\ UNCHANGED <<sentKinds, telemetry>>
  BY DEF IInv, TypeInv, Recv
<1> DEFINE data == SubSeq(wire, 1, n)
           rest == SubSeq(wire, n + 1, Len(wire))
<1>3. data \in Seq(Letter) /\ rest \in Seq(Letter)
  BY <1>2
<1>4. data \o rest = wire
  <2>1. SubSeq(wire, 1, n) \o SubSeq(wire, n + 1, Len(wire)) = SubSeq(wire, 1, Len(wire))
    BY <1>2, ConcatAdjacentSubSeq
  <2> QED BY <1>2, <2>1, SubSeqFull
<1> HIDE DEF data, rest
<1>5. CASE Decodes(data)
  <2>1. wire' = rest /\ pc' = "parse" /\ buffer' = buffer \o data
    BY <1>1, <1>5 DEF data, rest
  <2>2. Incoming' = Incoming
    <3>1. Incoming' = (buffer \o data) \o rest
      BY <2>1 DEF Incoming
    <3>2. (buffer \o data) \o rest = buffer \o (data \o rest)
      BY <1>2, <1>3, Reassociate
    <3> QED BY <1>4, <3>1, <3>2 DEF Incoming
  <2>3. TypeInv'
    BY <1>2, <1>3, <2>1, ConcatProperties DEF TypeInv
  <2> QED BY <1>2, <2>1, <2>2, <2>3 DEF IInv, InStep
<1>6. CASE ~Decodes(data)
  <2>1. wire' = rest /\ pc' = "stopped" /\ buffer' = buffer
    BY <1>1, <1>6 DEF data, rest
  <2>2. TypeInv'
    BY <1>2, <1>3, <2>1 DEF TypeInv
  <2> QED BY <2>1, <2>2 DEF IInv
<1> QED BY <1>5, <1>6

LEMMA ParseStep == IInv /\ Parse => IInv'
<1> SUFFICES ASSUME IInv, Parse PROVE IInv'
  OBVIOUS
<1> DEFINE s == frame_start_index
           l == last_bracket_index
           json_str == SubSeq(buffer, s, l)
           rest == SubSeq(buffer, l + 1, Len(buffer))
<1>1. /\ TypeInv /\ InStep /\ Stream(Incoming, sentKinds)
      /\ sentKinds \in Seq({"frame", "empty"}) /\ wire \in Seq(Letter)
      /\ buffer \in Seq(Letter) /\ telemetry \in Seq(Nat)
      /\ UNCHANGED <<sentKinds, wire>>
  BY DEF IInv, InStep, TypeInv, Parse
<1>2. CASE frame_start_index = 0 \/ frame_end_index = 0 \/ last_bracket_index = 0
  <2>1. pc' = "recv" /\ UNCHANGED <<buffer, telemetry>>
    BY <1>2 DEF Parse
  <2>2. TypeInv' /\ InStep'
    BY <1>1, <2>1 DEF TypeInv, InStep, Incoming
  <2> QED BY <1>1, <1>2, <2>1, <2>2, NothingFound DEF IInv
<1>3. CASE ~(frame_start_index = 0 \/ frame_end_index = 0 \/ last_bracket_index = 0)
  <2>1. IsObject(json_str) /\ json_str[1].of = Incoming[s].of
    BY <1>1, <1>3, FrameParsed
  <2>2. /\ telemetry' = Append(telemetry, json_str[1].of)
        /\ buffer' = rest /\ pc' = "parse"
    BY <1>3, <2>1 DEF Parse
  <2>3. /\ s \in DOMAIN Incoming /\ Incoming[s].at = 1
        /\ Incoming[s].of \in DOMAIN sentKinds /\ sentKinds[Incoming[s].of] = "frame"
        /\ l = s + F - 2 /\ l \in DOMAIN buffer
        /\ \A j \in DOMAIN Incoming : j < s => Incoming[j].byte = "nul"
    BY <1>1, <1>3, FoundFrame
  <2> HIDE DEF json_str, s, l
  <2> DEFINE g == Incoming[s].of
             U == rest \o wire
  <2>4. /\ Incoming \in Seq(Letter) /\ Len(Incoming) = Len(buffer) + Len(wire)
        /\ DOMAIN buffer = 1 .. Len(buffer) /\ DOMAIN wire = 1 .. Len(wire)
        /\ Len(buffer) \in Nat /\ Len(wire) \in Nat
        /\ \A i \in DOMAIN buffer : Incoming[i] = buffer[i]
        /\ \A i \in DOMAIN wire : Incoming[Len(buffer) + i] = wire[i]
    BY <1>1, JoinFacts
  <2>5. l \in Nat /\ l <= Len(buffer) /\ g \in Nat
    BY <1>1, <2>3, <2>4
  <2>6. /\ rest \in Seq(Letter) /\ Len(rest) = Len(buffer) - l
        /\ \A i \in 1 .. Len(buffer) - l : rest[i] = buffer[i + l]
    <3> DEFINE m == l + 1
    <3>1. m \in Int /\ Len(buffer) \in Int /\ \A i \in m .. Len(buffer) : buffer[i] \in Letter
      BY <1>1, <2>4, <2>5
    <3> HIDE DEF m
    <3>2. /\ SubSeq(buffer, m, Len(buffer)) \in Seq(Letter)
          /\ Len(SubSeq(buffer, m, Len(buffer))) = IF m <= Len(buffer) THEN Len(buffer) - m + 1 ELSE 0
          /\ \A i \in 1 .. Len(buffer) - m + 1 : SubSeq(buffer, m, Len(buffer))[i] = buffer[m + i - 1]
      BY <3>1, SubSeqProperties
    <3> HIDE DEF rest
    <3>3. Len(buffer) - m + 1 = Len(buffer) - l /\ (m <= Len(buffer) \/ Len(buffer) - l = 0)
      <4>1. Len(buffer) \in Nat /\ l \in Nat /\ l <= Len(buffer) /\ m = l + 1
        BY <2>4, <2>5 DEF m
      <4>2. CASE m <= Len(buffer)
        BY <4>1, <4>2
      <4>3. CASE ~(m <= Len(buffer))
        BY <4>1, <4>3
      <4> QED BY <4>2, <4>3
    <3>4. \A i \in 1 .. Len(buffer) - l : m + i - 1 = i + l
      BY <2>4, <2>5 DEF m
    <3>5. rest = SubSeq(buffer, m, Len(buffer))
      BY DEF rest, m
    <3> QED BY <3>2, <3>3, <3>4, <3>5
  <2> HIDE DEF rest, g
  <2>7. U \in Seq(Letter) /\ Len(U) = Len(Incoming) - l
    <3>1. U \in Seq(Letter) /\ Len(U) = Len(rest) + Len(wire)
      BY <1>1, <2>6, ConcatProperties
    <3> HIDE DEF U
    <3> QED BY <2>4, <2>5, <2>6, <3>1
  <2>8. ASSUME NEW i \in DOMAIN U PROVE U[i] = Incoming[i + l]
    <3>1. i \in 1 .. Len(rest) + Len(wire)
      BY <2>4, <2>5, <2>6, <2>7
    <3>2. U[i] = IF i <= Len(rest) THEN rest[i] ELSE wire[i - Len(rest)]
      BY <1>1, <2>6, <3>1, ConcatProperties
    <3>3. CASE i <= Len(rest)
      <4>1. i \in 1 .. Len(buffer) - l /\ i + l \in DOMAIN buffer
        BY <2>4, <2>5, <2>6, <3>1, <3>3
      <4> QED BY <2>4, <2>6, <3>2, <3>3, <4>1
    <3>4. CASE ~(i <= Len(rest))
      <4> DEFINE j == i - Len(rest)
      <4>1. j \in DOMAIN wire /\ Len(buffer) + j = i + l
        BY <2>4, <2>5, <2>6, <3>1, <3>4
      <4> HIDE DEF j
      <4>2. Incoming[Len(buffer) + j] = wire[j]
        BY <2>4, <4>1
      <4> QED BY <3>2, <3>4, <4>1, <4>2 DEF j
    <3> QED BY <3>3, <3>4
  <2>9. Incoming' = U
    BY <1>1, <2>2 DEF Incoming
  <2> HIDE DEF U
  <2>10. /\ Stream(U, sentKinds)
         /\ DoneIn(U, sentKinds) = DoneIn(Incoming, sentKinds) \cup {g}
         /\ \A n \in DoneIn(Incoming, sentKinds) : n < g
    <3> DEFINE T == Incoming
    <3>1. /\ T \in Seq(Letter) /\ Stream(T, sentKinds) /\ s \in DOMAIN T /\ T[s].at = 1
          /\ T[s].of \in DOMAIN sentKinds /\ sentKinds[T[s].of] = "frame"
          /\ \A j \in DOMAIN T : j < s => T[j].byte = "nul"
          /\ l = s + F - 2
          /\ Len(U) = Len(T) - l /\ \A i \in DOMAIN U : U[i] = T[i + l]
      BY <1>1, <2>3, <2>4, <2>5, <2>7, <2>8
    <3> HIDE DEF T
    <3>2. Rest(U, T, sentKinds, s)
      BY <3>1 DEF Rest
    <3>3. /\ Stream(U, sentKinds)
          /\ DoneIn(U, sentKinds) = DoneIn(T, sentKinds) \cup {T[s].of}
          /\ \A n \in DoneIn(T, sentKinds) : n < T[s].of
      <4>1. sentKinds \in Seq({"frame", "empty"})
        BY <1>1
      <4> QED BY <2>7, <3>1, <3>2, <4>1, CutOut
    <3> QED BY <3>3 DEF g, T
  <2>11. Lists(telemetry', DoneIn(U, sentKinds))
    <3> DEFINE done == DoneIn(Incoming, sentKinds)
    <3>1. done \in SUBSET Nat
      BY <1>1 DEF DoneIn
    <3>2. telemetry' = Append(telemetry, g)
      BY <2>1, <2>2 DEF g
    <3>3. Lists(telemetry, done) /\ telemetry \in Seq(Nat)
      BY <1>1 DEF InStep
    <3>4. \A m \in done : m < g
      BY <2>10
    <3> HIDE DEF done
    <3>5. Lists(Append(telemetry, g), done \cup {g})
      BY <2>5, <3>1, <3>3, <3>4, ListsNext
    <3> QED BY <2>10, <3>2, <3>5 DEF done
  <2>12. TypeInv'
    <3>1. telemetry' \in Seq(Nat)
      BY <1>1, <2>1, <2>2, <2>5 DEF g
    <3> QED BY <1>1, <2>2, <2>6, <3>1 DEF TypeInv
  <2>13. InStep'
    BY <1>1, <2>9, <2>10, <2>11 DEF InStep
  <2> QED BY <2>2, <2>12, <2>13 DEF IInv
<1> QED BY <1>2, <1>3

LEMMA NextStep ==
    ASSUME Kinds = {"frame"}, IInv, [Next]_vars
    PROVE  IInv'
<1>1. CASE \E kind \in Kinds \cup {"empty"} : Send(kind)
  BY <1>1, SendStep
<1>2. CASE Recv
  BY <1>2, RecvStep
<1>3. CASE Parse
  BY <1>3, ParseStep
<1>4. CASE RecvClosed \/ KeyboardInterrupt
  BY <1>4 DEF RecvClosed, KeyboardInterrupt, Stop, IInv, TypeInv
<1>5. CASE CloseConnection \/ Stopped \/ UNCHANGED vars
  BY <1>5 DEF CloseConnection, Stopped, vars, IInv, TypeInv, InStep, Incoming
<1> QED BY <1>1, <1>2, <1>3, <1>4, <1>5 DEF Next

\* A client that waits has processed what has arrived.
LEMMA ArrivedIsDone ==
    ASSUME IInv, pc = "recv"
    PROVE  Arrived = DoneIn(Incoming, sentKinds)
<1> DEFINE T == Incoming
<1>1. /\ TypeInv /\ Stream(T, sentKinds) /\ \A i \in DOMAIN buffer : buffer[i].at # F - 1
      /\ sentKinds \in Seq({"frame", "empty"})
  BY DEF IInv, InStep, TypeInv
<1>2. /\ T \in Seq(Letter)
      /\ \A i \in DOMAIN wire : Len(buffer) + i \in DOMAIN T /\ T[Len(buffer) + i] = wire[i]
      /\ \A i \in DOMAIN T : i \notin DOMAIN buffer =>
            i - Len(buffer) \in DOMAIN wire /\ T[i] = wire[i - Len(buffer)]
      /\ \A i \in DOMAIN buffer : T[i] = buffer[i]
  BY <1>1, JoinFacts
<1> HIDE DEF T
<1>3. ASSUME NEW n \in DoneIn(T, sentKinds) PROVE n \in Arrived
  BY <1>2, <1>3 DEF DoneIn, Arrived
<1>4. ASSUME NEW n \in Arrived PROVE n \in DoneIn(T, sentKinds)
  <2>1. /\ n \in DOMAIN sentKinds /\ sentKinds[n] = "frame"
        /\ \A i \in DOMAIN wire : wire[i].of = n => wire[i].byte = "nul"
    BY <1>4 DEF Arrived
  <2> SUFFICES ASSUME NEW j \in DOMAIN T, T[j].of = n, T[j].byte # "nul" PROVE FALSE
    BY <2>1 DEF DoneIn
  <2>2. PICK s \in DOMAIN T : T[s].of = n /\ T[s].at = 1
    BY <1>1, <1>2, FrameFrom
  <2>3. F - 1 \in 1 .. F
    BY LayoutFacts
  <2>4. PICK i \in DOMAIN T : T[i] = [of |-> n, at |-> F - 1, byte |-> Layout("frame")[F - 1]]
    <3>1. sentKinds[T[s].of] = "frame"
      BY <2>1, <2>2
    <3>2. s + (F - 1) - 1 \in DOMAIN T
      BY <1>1, <1>2, <2>2, <2>3, <3>1, FrameAt
    <3>3. T[s + (F - 1) - 1] = [of |-> T[s].of, at |-> F - 1, byte |-> Layout("frame")[F - 1]]
      BY <1>1, <1>2, <2>2, <2>3, <3>1, FrameAt
    <3> QED BY <2>2, <3>2, <3>3
  <2>5. Layout("frame")[F - 1] = "close"
    BY LayoutFacts, <2>3
  <2>6. CASE i \in DOMAIN buffer
    BY <1>1, <1>2, <2>4, <2>6
  <2>7. CASE i \notin DOMAIN buffer
    BY <1>2, <2>1, <2>4, <2>5, <2>7
  <2> QED BY <2>6, <2>7
<1> QED BY <1>3, <1>4 DEF T

\* When nothing but frames follows the snapshot, a client that waits for more has
\* processed every frame it has received, each once and in order, however many
\* there are and wherever the stream was cut (main.py 17-51).  A cut within a character
\* ends the client, which no longer waits then.
THEOREM FramesProcessedCorrect ==
    ASSUME Kinds = {"frame"}
    PROVE  Spec => []FramesProcessed
<1>1. IInv /\ [Next]_vars => IInv'
  BY NextStep
<1>2. IInv => FramesProcessed
  BY ArrivedIsDone DEF IInv, InStep, FramesProcessed
<1> QED BY InitIInv, <1>1, <1>2, PTL DEF Spec

=============================================================================
