---------------------------- MODULE GrpcWebProofs ----------------------------
(***************************************************************************)
(* Theorems about `GrpcWeb` for any content types, texts and number of     *)
(* frames: what becomes of a request that is cut at any byte, and what a   *)
(* browser is sent.                                                        *)
(***************************************************************************)
EXTENDS GrpcWeb, TLAPS

-----------------------------------------------------------------------------
(* Texts in pieces: `d` are pieces that have been passed on, `b` is the    *)
(* last one, and together they have m characters.                          *)
Piece(d, b, i) == IF i \in 1..Len(d) THEN d[i].at ELSE b
Place(d, b, i, k) == i \in 1..(Len(d) + 1) /\ k \in 1..Len(Piece(d, b, i))
Sound(d, b, m) ==
    \A i, k \in Nat : Place(d, b, i, k) => Piece(d, b, i)[k] \in 1..m
Onto(d, b, m) ==
    \A c \in 1..m : \E i, k \in Nat : Place(d, b, i, k) /\ Piece(d, b, i)[k] = c
Injective(d, b) ==
    \A i, k, j, l \in Nat :
        Place(d, b, i, k) /\ Place(d, b, j, l) /\ Piece(d, b, i)[k] = Piece(d, b, j)[l]
            => i = j /\ k = l
Sorted(d, b) ==
    \A i, k, j, l \in Nat :
        Place(d, b, i, k) /\ Place(d, b, j, l) /\ (i < j \/ (i = j /\ k < l))
            => Piece(d, b, i)[k] < Piece(d, b, j)[l]
Once(d, b, m) == Sound(d, b, m) /\ Onto(d, b, m) /\ Injective(d, b)

Frames(m) == [as : {"decoded", "raw", "trailers", "end", "error"}, at : Seq(1..m)]

LEMMA AppendPiece ==
    ASSUME NEW S, NEW d \in Seq(S), NEW f \in S, NEW y
    PROVE  /\ Len(Append(d, f)) = Len(d) + 1 /\ Len(d) \in Nat
           /\ \A i \in 1..Len(d) : Piece(Append(d, f), y, i) = Piece(d, y, i)
           /\ \A i \in 1..Len(d) : Piece(d, y, i) = d[i].at
           /\ Piece(Append(d, f), y, Len(d) + 1) = f.at
           /\ Piece(Append(d, f), y, Len(d) + 2) = y
<1> DEFINE t == Append(d, f)
<1>1. /\ Len(d) \in Nat /\ Len(t) = Len(d) + 1
      /\ \A i \in 1..Len(d) : t[i] = d[i]
      /\ t[Len(d) + 1] = f
  OBVIOUS
<1> HIDE DEF t
<1> QED
  BY <1>1 DEF Piece, t

LEMMA Typed ==
    ASSUME NEW m \in Nat, NEW d \in Seq(Frames(m)), NEW b \in Seq(1..m)
    PROVE  /\ Len(d) \in Nat
           /\ \A i \in 1..(Len(d) + 1) :
                  /\ Len(Piece(d, b, i)) \in Nat
                  /\ \A k \in 1..Len(Piece(d, b, i)) : Piece(d, b, i)[k] \in 1..m
           /\ Piece(d, b, Len(d) + 1) = b
<1>1. ASSUME NEW i \in 1..Len(d) PROVE d[i].at \in Seq(1..m)
  <2>1. d[i] \in Frames(m)
    OBVIOUS
  <2> QED
    BY <2>1 DEF Frames
<1>2. Len(d) \in Nat
  OBVIOUS
<1>3. ASSUME NEW i \in 1..(Len(d) + 1) PROVE Piece(d, b, i) \in Seq(1..m)
  BY <1>1 DEF Piece
<1>4. ASSUME NEW q \in Seq(1..m) PROVE Len(q) \in Nat /\ \A k \in 1..Len(q) : q[k] \in 1..m
  OBVIOUS
<1>5. Piece(d, b, Len(d) + 1) = b
  BY <1>2 DEF Piece
<1> QED
  BY <1>2, <1>3, <1>4, <1>5

(* More characters are carried over.                                       *)
LEMMA Carried ==
    ASSUME NEW m \in Nat, NEW n \in Nat, NEW d \in Seq(Frames(m)), NEW b \in Seq(1..m),
           Once(d, b, m), NEW s, Len(s) = Len(b) + n,
           \A k \in 1..Len(b) : s[k] = b[k],
           \A k \in 1..n : s[Len(b) + k] = m + k
    PROVE  Once(d, s, m + n) /\ (Sorted(d, b) => Sorted(d, s))
<1> DEFINE L == Len(d) + 1
           B == Len(b)
<1>1. /\ Len(d) \in Nat /\ L \in Nat /\ B \in Nat
      /\ \A i \in 1..Len(d) : Piece(d, s, i) = Piece(d, b, i)
      /\ Piece(d, s, L) = s /\ Piece(d, b, L) = b
  BY DEF Piece
<1> HIDE DEF L, B
<1>2. ASSUME NEW i \in Nat, NEW k \in Nat, Place(d, s, i, k)
      PROVE  \/ Place(d, b, i, k) /\ Piece(d, s, i)[k] = Piece(d, b, i)[k]
             \/ i = L /\ k \in B + 1..B + n /\ Piece(d, s, i)[k] = m + k - B
  <2>1. CASE i \in 1..Len(d)
    BY <1>1, <1>2, <2>1 DEF Place
  <2>2. CASE i \notin 1..Len(d)
    <3>1. i = L /\ k \in 1..(B + n) /\ Piece(d, s, i)[k] = s[k]
      BY <1>1, <1>2, <2>2 DEF Place, L, B
    <3>2. CASE k \in 1..B
      BY <1>1, <3>1, <3>2 DEF Place, L, B
    <3>3. CASE k \notin 1..B
      <4>1. k - B \in 1..n /\ B + (k - B) = k /\ m + (k - B) = m + k - B
        BY <1>1, <3>1, <3>3
      <4>2. s[B + (k - B)] = m + (k - B)
        BY <4>1 DEF B
      <4> QED
        BY <1>1, <3>1, <3>3, <4>1, <4>2
    <3> QED
      BY <3>2, <3>3
  <2> QED
    BY <2>1, <2>2
<1>3. ASSUME NEW i \in Nat, NEW k \in Nat, Place(d, b, i, k)
      PROVE  Piece(d, b, i)[k] \in 1..m /\ i <= L /\ (i = L => k <= B)
  BY <1>1, <1>3, Typed DEF Once, Sound, Place, L, B
<1>4. Sound(d, s, m + n)
  <2> SUFFICES ASSUME NEW i \in Nat, NEW k \in Nat, Place(d, s, i, k)
               PROVE  Piece(d, s, i)[k] \in 1..(m + n)
    BY DEF Sound
  <2>1. CASE Place(d, b, i, k) /\ Piece(d, s, i)[k] = Piece(d, b, i)[k]
    BY <1>3, <2>1
  <2>2. CASE k \in B + 1..B + n /\ Piece(d, s, i)[k] = m + k - B
    BY <1>1, <2>2
  <2> QED
    BY <1>2, <2>1, <2>2
<1>5. ASSUME NEW c \in 1..(m + n)
      PROVE  \E i, k \in Nat : Place(d, s, i, k) /\ Piece(d, s, i)[k] = c
  <2>1. CASE c \in 1..m
    <3>1. PICK i \in Nat, k \in Nat : Place(d, b, i, k) /\ Piece(d, b, i)[k] = c
      BY <2>1 DEF Once, Onto
    <3>2. CASE i \in 1..Len(d)
      BY <1>1, <3>1, <3>2 DEF Place
    <3>3. CASE i \notin 1..Len(d)
      <4>1. i = L /\ k \in 1..B
        BY <1>1, <3>1, <3>3 DEF Place, L, B
      <4>2. Piece(d, s, i)[k] = c /\ k \in 1..Len(s)
        BY <1>1, <3>1, <4>1 DEF B
      <4>3. Place(d, s, i, k)
        BY <1>1, <4>1, <4>2 DEF Place, L
      <4> QED
        BY <4>2, <4>3
    <3> QED
      BY <3>2, <3>3
  <2>2. CASE c \notin 1..m
    <3>1. c - m \in 1..n /\ m + (c - m) = c
      BY <2>2
    <3>2. PICK k \in Nat : k = B + (c - m)
      BY <1>1, <3>1
    <3>3. s[k] = c /\ k \in 1..Len(s)
      <4>1. s[Len(b) + (c - m)] = m + (c - m)
        BY <3>1
      <4>2. k = Len(b) + (c - m)
        BY <3>2 DEF B
      <4>3. k \in 1..Len(s)
        BY <1>1, <3>1, <3>2 DEF B
      <4> QED
        BY <3>1, <4>1, <4>2, <4>3
    <3>4. Place(d, s, L, k) /\ Piece(d, s, L)[k] = c
      BY <1>1, <3>3 DEF Place, L
    <3> QED
      BY <1>1, <3>4
  <2> QED
    BY <2>1, <2>2
<1>6. Injective(d, s)
  <2> SUFFICES ASSUME NEW i \in Nat, NEW k \in Nat, NEW j \in Nat, NEW l \in Nat,
                      Place(d, s, i, k), Place(d, s, j, l),
                      Piece(d, s, i)[k] = Piece(d, s, j)[l]
               PROVE  i = j /\ k = l
    BY DEF Injective
  <2>1. CASE Place(d, b, i, k) /\ Place(d, b, j, l)
             /\ Piece(d, s, i)[k] = Piece(d, b, i)[k] /\ Piece(d, s, j)[l] = Piece(d, b, j)[l]
    BY <2>1 DEF Once, Injective
  <2> QED
    BY <1>1, <1>2, <1>3, <2>1
<1>7. ASSUME Sorted(d, b) PROVE Sorted(d, s)
  <2> SUFFICES ASSUME NEW i \in Nat, NEW k \in Nat, NEW j \in Nat, NEW l \in Nat,
                      Place(d, s, i, k), Place(d, s, j, l), i < j \/ (i = j /\ k < l)
               PROVE  Piece(d, s, i)[k] < Piece(d, s, j)[l]
    BY DEF Sorted
  <2>1. CASE Place(d, b, i, k) /\ Place(d, b, j, l)
             /\ Piece(d, s, i)[k] = Piece(d, b, i)[k] /\ Piece(d, s, j)[l] = Piece(d, b, j)[l]
    BY <1>7, <2>1 DEF Sorted
  <2>2. j \in 1..L
    BY <1>1 DEF Place, L
  <2> QED
    BY <1>1, <1>2, <1>3, <2>1, <2>2
<1> QED
  BY <1>4, <1>5, <1>6, <1>7 DEF Once, Onto

(* What is carried over is split, and its first part is passed on.         *)
LEMMA SplitOff ==
    ASSUME NEW m \in Nat, NEW d \in Seq(Frames(m)), NEW b, Len(b) \in Nat, Once(d, b, m),
           NEW f \in Frames(m), NEW x \in Seq(Int), f.at = x, NEW y, Len(y) \in Nat,
           Len(x) + Len(y) = Len(b),
           \A k \in 1..Len(x) : x[k] = b[k],
           \A k \in 1..Len(y) : y[k] = b[Len(x) + k]
    PROVE  Once(Append(d, f), y, m) /\ (Sorted(d, b) => Sorted(Append(d, f), y))
<1> DEFINE t == Append(d, f)
           L == Len(d)
           w == Len(x)
<1>1. /\ Len(t) = L + 1 /\ L \in Nat /\ w \in Nat
      /\ \A i \in 1..L : Piece(t, y, i) = Piece(d, b, i)
      /\ Piece(t, y, L + 1) = x /\ Piece(t, y, L + 2) = y /\ Piece(d, b, L + 1) = b
  <2>1. Piece(d, b, L + 1) = b /\ \A i \in 1..L : Piece(d, b, i) = Piece(d, y, i)
    BY DEF Piece
  <2>2. Len(d) \in Nat /\ Len(x) \in Nat
    OBVIOUS
  <2>3. /\ Len(t) = Len(d) + 1
        /\ \A i \in 1..Len(d) : Piece(t, y, i) = Piece(d, y, i)
        /\ Piece(t, y, Len(d) + 1) = f.at
        /\ Piece(t, y, Len(d) + 2) = y
    BY AppendPiece
  <2> HIDE DEF t
  <2> QED
    BY <2>1, <2>2, <2>3
<1> HIDE DEF t, L, w
<1>2. Len(d) = L /\ Len(b) = w + Len(y) /\ Len(x) = w
  BY <1>1 DEF L, w
(* Every new place has an old one, in the same order.                      *)
<1> DEFINE Old(i) == IF i = L + 2 THEN L + 1 ELSE i
           At2(i, k) == IF i = L + 2 THEN w + k ELSE k
<1>3. ASSUME NEW i \in Nat, NEW k \in Nat, Place(t, y, i, k)
      PROVE  /\ Place(d, b, Old(i), At2(i, k)) /\ Old(i) \in Nat /\ At2(i, k) \in Nat
             /\ Piece(t, y, i)[k] = Piece(d, b, Old(i))[At2(i, k)]
             /\ i \in 1..(L + 2) /\ k >= 1 /\ (i = L + 1 => k <= w)
  <2>1. i \in 1..(L + 2)
    BY <1>1, <1>3 DEF Place
  <2>2. CASE i \in 1..L
    BY <1>1, <1>2, <1>3, <2>2 DEF Place
  <2>3. CASE i = L + 1
    BY <1>1, <1>2, <1>3, <2>3 DEF Place
  <2>4. CASE i = L + 2
    BY <1>1, <1>2, <1>3, <2>4 DEF Place
  <2> QED
    BY <1>1, <2>1, <2>2, <2>3, <2>4
<1>4. Sound(t, y, m)
  <2> HIDE DEF Old, At2
  <2> SUFFICES ASSUME NEW i \in Nat, NEW k \in Nat, Place(t, y, i, k)
               PROVE  Piece(t, y, i)[k] \in 1..m
    BY DEF Sound
  <2>1. /\ Place(d, b, Old(i), At2(i, k)) /\ Old(i) \in Nat /\ At2(i, k) \in Nat
        /\ Piece(t, y, i)[k] = Piece(d, b, Old(i))[At2(i, k)]
    BY <1>3
  <2> QED
    BY <2>1 DEF Once, Sound
<1>5. Injective(t, y)
  <2> SUFFICES ASSUME NEW i \in Nat, NEW k \in Nat, NEW j \in Nat, NEW l \in Nat,
                      Place(t, y, i, k), Place(t, y, j, l),
                      Piece(t, y, i)[k] = Piece(t, y, j)[l]
               PROVE  i = j /\ k = l
    BY DEF Injective
  <2>1. Old(i) = Old(j) /\ At2(i, k) = At2(j, l)
    <3> HIDE DEF Old, At2
    <3>1. /\ Place(d, b, Old(i), At2(i, k)) /\ Old(i) \in Nat /\ At2(i, k) \in Nat
          /\ Piece(t, y, i)[k] = Piece(d, b, Old(i))[At2(i, k)]
      BY <1>3
    <3>2. /\ Place(d, b, Old(j), At2(j, l)) /\ Old(j) \in Nat /\ At2(j, l) \in Nat
          /\ Piece(t, y, j)[l] = Piece(d, b, Old(j))[At2(j, l)]
      BY <1>3
    <3> QED
      BY <3>1, <3>2 DEF Once, Injective
  <2> QED
    BY <1>1, <1>3, <2>1
<1>6. ASSUME Sorted(d, b) PROVE Sorted(t, y)
  <2> SUFFICES ASSUME NEW i \in Nat, NEW k \in Nat, NEW j \in Nat, NEW l \in Nat,
                      Place(t, y, i, k), Place(t, y, j, l), i < j \/ (i = j /\ k < l)
               PROVE  Piece(t, y, i)[k] < Piece(t, y, j)[l]
    BY DEF Sorted
  <2>1. Old(i) < Old(j) \/ (Old(i) = Old(j) /\ At2(i, k) < At2(j, l))
    BY <1>1, <1>3
  <2> HIDE DEF Old, At2
  <2>2. /\ Place(d, b, Old(i), At2(i, k)) /\ Old(i) \in Nat /\ At2(i, k) \in Nat
        /\ Piece(t, y, i)[k] = Piece(d, b, Old(i))[At2(i, k)]
    BY <1>3
  <2>3. /\ Place(d, b, Old(j), At2(j, l)) /\ Old(j) \in Nat /\ At2(j, l) \in Nat
        /\ Piece(t, y, j)[l] = Piece(d, b, Old(j))[At2(j, l)]
    BY <1>3
  <2> QED
    BY <1>6, <2>1, <2>2, <2>3 DEF Sorted
<1>7. ASSUME NEW c \in 1..m
      PROVE  \E i, k \in Nat : Place(t, y, i, k) /\ Piece(t, y, i)[k] = c
  <2>1. PICK i \in Nat, k \in Nat : Place(d, b, i, k) /\ Piece(d, b, i)[k] = c
    BY DEF Once, Onto
  <2>2. CASE i \in 1..L
    <3>1. Place(t, y, i, k) /\ Piece(t, y, i)[k] = c
      BY <1>1, <2>1, <2>2 DEF Place
    <3> QED
      BY <3>1
  <2>3. CASE i \notin 1..L
    <3>1. i = L + 1 /\ k \in 1..(w + Len(y)) /\ b[k] = c
      <4>1. i = L + 1
        BY <1>1, <1>2, <2>1, <2>3 DEF Place
      <4>2. Piece(d, b, i) = b
        BY <1>1, <4>1
      <4>3. k \in 1..Len(b) /\ b[k] = c
        BY <2>1, <4>2 DEF Place
      <4> QED
        BY <1>2, <4>1, <4>3
    <3>2. CASE k <= w
      <4>1. x[k] = c /\ k \in 1..w
        BY <1>1, <1>2, <3>1, <3>2
      <4>2. Place(t, y, i, k) /\ Piece(t, y, i)[k] = c
        BY <1>1, <1>2, <3>1, <4>1 DEF Place
      <4> QED
        BY <4>2
    <3>3. CASE ~(k <= w)
      <4>0. k - w \in 1..Len(y) /\ w + (k - w) = k
        BY <1>1, <3>1, <3>3
      <4>1. PICK l \in 1..Len(y) : w + l = k
        BY <4>0
      <4>2. y[l] = c /\ l \in Nat /\ L + 2 \in Nat
        <5>1. y[l] = b[Len(x) + l]
          OBVIOUS
        <5>2. Len(x) + l = k
          BY <1>2, <4>1
        <5> QED
          BY <1>1, <3>1, <5>1, <5>2
      <4>3. Place(t, y, L + 2, l) /\ Piece(t, y, L + 2)[l] = c
        BY <1>1, <4>2 DEF Place
      <4> QED
        BY <4>2, <4>3
    <3> QED
      BY <3>2, <3>3
  <2> QED
    BY <2>2, <2>3
<1> QED
  BY <1>4, <1>5, <1>6, <1>7 DEF Once, Onto, t

(* A chunk is passed on in front of what is carried over.                  *)
LEMMA Overtaken ==
    ASSUME NEW m \in Nat, NEW n \in Nat, NEW d \in Seq(Frames(m)), NEW b \in Seq(1..m),
           Once(d, b, m), NEW S, d \in Seq(S), NEW f \in S,
           NEW x \in Seq(Int), f.at = x, Len(x) = n,
           \A k \in 1..n : x[k] = m + k
    PROVE  /\ Once(Append(d, f), b, m + n)
           /\ b = <<>> /\ Sorted(d, b) => Sorted(Append(d, f), b)
<1> DEFINE t == Append(d, f)
           L == Len(d)
<1>1. /\ Len(t) = L + 1 /\ L \in Nat
      /\ \A i \in 1..L : Piece(t, b, i) = Piece(d, b, i)
      /\ Piece(t, b, L + 1) = x /\ Piece(t, b, L + 2) = b /\ Piece(d, b, L + 1) = b
      /\ Len(b) \in Nat
  <2>1. Piece(d, b, L + 1) = b
    BY DEF Piece
  <2>2. Len(d) \in Nat /\ Len(b) \in Nat
    OBVIOUS
  <2>3. /\ Len(t) = Len(d) + 1
        /\ \A i \in 1..Len(d) : Piece(t, b, i) = Piece(d, b, i)
        /\ Piece(t, b, Len(d) + 1) = f.at
        /\ Piece(t, b, Len(d) + 2) = b
    BY AppendPiece
  <2> HIDE DEF t
  <2> QED
    BY <2>1, <2>2, <2>3
<1>2. Len(d) = L
  OBVIOUS
<1> HIDE DEF t, L
(* Every new place has an old one, or one in the chunk.                    *)
<1> DEFINE Old(i) == IF i = L + 2 THEN L + 1 ELSE i
           OldPlace(i, k) ==
               /\ i \in 1..L \cup {L + 2} /\ Old(i) \in Nat
               /\ Place(d, b, Old(i), k) /\ Piece(t, b, i)[k] = Piece(d, b, Old(i))[k]
               /\ Piece(t, b, i)[k] \in 1..m
           NewPlace(i, k) == i = L + 1 /\ k \in 1..n /\ Piece(t, b, i)[k] = m + k
<1>3. ASSUME NEW i \in Nat, NEW k \in Nat, Place(t, b, i, k)
      PROVE  OldPlace(i, k) \/ NewPlace(i, k)
  <2>1. i \in 1..(L + 2)
    BY <1>1, <1>3 DEF Place
  <2>2. CASE i = L + 1
    <3>1. k \in 1..n
      BY <1>1, <1>3, <2>2 DEF Place
    <3>2. x[k] = m + k
      BY <3>1
    <3> QED
      BY <1>1, <2>2, <3>1, <3>2
  <2>3. CASE i # L + 1
    <3>1. Old(i) \in Nat /\ Place(d, b, Old(i), k) /\ Piece(t, b, i)[k] = Piece(d, b, Old(i))[k]
      <4>1. CASE i = L + 2
        BY <1>1, <1>2, <1>3, <4>1 DEF Place
      <4>2. CASE i \in 1..L
        BY <1>1, <1>2, <1>3, <4>2 DEF Place
      <4> QED
        BY <1>1, <2>1, <2>3, <4>1, <4>2
    <3> HIDE DEF Old
    <3>2. Piece(d, b, Old(i))[k] \in 1..m
      BY <3>1 DEF Once, Sound
    <3> QED
      BY <1>1, <2>1, <2>3, <3>1, <3>2
  <2> QED
    BY <2>2, <2>3
<1>4. Sound(t, b, m + n)
  <2> SUFFICES ASSUME NEW i \in Nat, NEW k \in Nat, Place(t, b, i, k)
               PROVE  Piece(t, b, i)[k] \in 1..(m + n)
    BY DEF Sound
  <2>1. CASE OldPlace(i, k)
    BY <2>1
  <2>2. CASE NewPlace(i, k)
    BY <2>2
  <2> QED
    BY <1>3, <2>1, <2>2
<1>5. Injective(t, b)
  <2> SUFFICES ASSUME NEW i \in Nat, NEW k \in Nat, NEW j \in Nat, NEW l \in Nat,
                      Place(t, b, i, k), Place(t, b, j, l),
                      Piece(t, b, i)[k] = Piece(t, b, j)[l]
               PROVE  i = j /\ k = l
    BY DEF Injective
  <2>1. CASE OldPlace(i, k) /\ OldPlace(j, l)
    <3>1. Old(i) = Old(j) /\ k = l
      <4> HIDE DEF Old
      <4> QED
        BY <2>1 DEF Once, Injective
    <3> QED
      BY <1>1, <2>1, <3>1
  <2>2. CASE NewPlace(i, k) /\ NewPlace(j, l)
    BY <2>2
  <2>3. CASE OldPlace(i, k) /\ NewPlace(j, l)
    <3>1. Piece(t, b, i)[k] \in 1..m /\ Piece(t, b, j)[l] = m + l /\ l \in 1..n
      BY <2>3
    <3> QED
      BY <3>1
  <2>4. CASE NewPlace(i, k) /\ OldPlace(j, l)
    <3>1. Piece(t, b, j)[l] \in 1..m /\ Piece(t, b, i)[k] = m + k /\ k \in 1..n
      BY <2>4
    <3> QED
      BY <3>1
  <2> QED
    BY <1>3, <2>1, <2>2, <2>3, <2>4
<1>6. ASSUME b = <<>>, Sorted(d, b) PROVE Sorted(t, b)
  <2> SUFFICES ASSUME NEW i \in Nat, NEW k \in Nat, NEW j \in Nat, NEW l \in Nat,
                      Place(t, b, i, k), Place(t, b, j, l), i < j \/ (i = j /\ k < l)
               PROVE  Piece(t, b, i)[k] < Piece(t, b, j)[l]
    BY DEF Sorted
  <2>0. i # L + 2 /\ j # L + 2
    <3>1. Len(b) = 0
      BY <1>6
    <3> QED
      BY <1>1, <3>1 DEF Place
  <2>1. CASE OldPlace(i, k) /\ OldPlace(j, l)
    BY <1>6, <2>0, <2>1 DEF Sorted
  <2>2. CASE NewPlace(i, k) /\ NewPlace(j, l)
    BY <2>2
  <2>3. CASE OldPlace(i, k) /\ NewPlace(j, l)
    BY <2>3
  <2>4. CASE NewPlace(i, k) /\ OldPlace(j, l)
    BY <1>1, <2>0, <2>4
  <2> QED
    BY <1>3, <2>1, <2>2, <2>3, <2>4
<1>7. ASSUME NEW c \in 1..(m + n)
      PROVE  \E i, k \in Nat : Place(t, b, i, k) /\ Piece(t, b, i)[k] = c
  <2>1. CASE c \in 1..m
    <3>1. PICK i \in Nat, k \in Nat : Place(d, b, i, k) /\ Piece(d, b, i)[k] = c
      BY <2>1 DEF Once, Onto
    <3>2. CASE i \in 1..L
      <4>1. Place(t, b, i, k) /\ Piece(t, b, i)[k] = c
        BY <1>1, <3>1, <3>2 DEF Place
      <4> QED
        BY <4>1
    <3>3. CASE i \notin 1..L
      <4>1. i = L + 1
        BY <1>1, <1>2, <3>1, <3>3 DEF Place
      <4>2. Place(t, b, L + 2, k) /\ Piece(t, b, L + 2)[k] = c /\ L + 2 \in Nat
        BY <1>1, <3>1, <4>1 DEF Place
      <4> QED
        BY <4>2
    <3> QED
      BY <3>2, <3>3
  <2>2. CASE c \notin 1..m
    <3>1. PICK k \in 1..n : m + k = c
      <4>1. c - m \in 1..n /\ m + (c - m) = c
        BY <2>2
      <4> QED
        BY <4>1
    <3>2. x[k] = c /\ k \in Nat /\ L + 1 \in Nat
      BY <1>1, <3>1
    <3>3. Place(t, b, L + 1, k) /\ Piece(t, b, L + 1)[k] = c
      BY <1>1, <3>2 DEF Place
    <3> QED
      BY <3>2, <3>3
  <2> QED
    BY <2>1, <2>2
<1> QED
  BY <1>4, <1>5, <1>6, <1>7 DEF Once, Onto, t
-----------------------------------------------------------------------------
(* A request: what of the text has come is in pieces, what is carried over *)
(* is less than a group, in the order of the text, and nothing if the body *)
(* is binary.                                                              *)
RequestTypes ==
    /\ call \in [type : Types, length : {"yes", "no"}, body : Texts,
                 ending : {"end", "trailers", "error"}]
    /\ read \in 0..Len(call.body)
    /\ decoded \in Seq(Frames(read)) /\ buf \in Seq(1..read) /\ Len(buf) < Group
    /\ \A i \in 1..Len(decoded) : decoded[i].as = "decoded" => Len(decoded[i].at) % Group = 0
    /\ jumped \in {"yes", "no"}

BinaryIsNotCarried == Mode = "binary" => buf = <<>>

(* Unless a chunk has overtaken it, what is carried over is the end of     *)
(* what has been read, and starts at a group of the text.                  *)
Aligned(b, m, j) ==
    Mode = "base64" /\ j = "no" =>
        /\ (m - Len(b)) % Group = 0
        /\ \A k \in 1..Len(b) : b[k] = m - Len(b) + k

(* Frames that may have been passed on.                                    *)
Valid == Decodes(WholeText)
Passable(d, j) ==
    \A i \in 1..Len(d) :
        /\ d[i].as = "decoded" => Len(d[i].at) % Group = 0
        /\ d[i].as = "raw" /\ Mode = "base64" /\ Valid => j = "yes"
Increasing(s) == \A k, l \in 1..Len(s) : k < l => s[k] < s[l]

RequestInv ==
    /\ RequestTypes
    /\ BinaryIsNotCarried
    /\ Increasing(buf)
    /\ Once(decoded, buf, read)
    /\ jumped = "no" => Sorted(decoded, buf)
    /\ Aligned(buf, read, jumped)
    /\ Passable(decoded, jumped)

LEMMA Groups ==
    ASSUME NEW k \in Nat
    PROVE  /\ k % Group \in 0..3 /\ k - (k % Group) \in 0..k
           /\ (k - (k % Group)) % Group = 0
BY DEF Group

LEMMA Multiples ==
    ASSUME NEW a \in Nat, NEW c \in Nat, a % 4 = 0, c % 4 = 0
    PROVE  (a + c) % 4 = 0 /\ (a < c => a + 4 <= c)
OBVIOUS

(* Of a text in groups, groups that hold one of the last two characters    *)
(* are the last ones.                                                      *)
LEMMA LastGroups ==
    ASSUME NEW a \in Nat, NEW g \in Nat, NEW N \in Nat, a % 4 = 0, g % 4 = 0, N % 4 = 0,
           a + g <= N, a + g >= N - 1, g > 0
    PROVE  a + g = N /\ g >= 4
<1>1. (a + g) % 4 = 0
  BY Multiples
<1>2. a + g = N
  <2>1. a + g \in Nat /\ (a + g < N => a + g + 4 <= N)
    BY <1>1, Multiples
  <2> QED
    BY <2>1
<1>3. g >= 4
  <2>1. 0 \in Nat /\ 0 % 4 = 0 /\ 0 < g
    OBVIOUS
  <2>2. 0 + 4 <= g
    BY <2>1, Multiples
  <2> QED
    BY <2>2
<1> QED
  BY <1>2, <1>3

LEMMA FramesGrow ==
    ASSUME NEW m \in Nat, NEW n \in Nat, NEW d \in Seq(Frames(m)), NEW b \in Seq(1..m)
    PROVE  d \in Seq(Frames(m + n)) /\ b \in Seq(1..(m + n))
<1>1. ASSUME NEW q \in Seq(1..m) PROVE q \in Seq(1..(m + n))
  <2>1. \A i \in 1..Len(q) : q[i] \in 1..(m + n)
    OBVIOUS
  <2> QED
    BY <2>1
<1>2. \A f \in Frames(m) : f \in Frames(m + n)
  BY <1>1 DEF Frames
<1>3. \A i \in 1..Len(d) : d[i] \in Frames(m + n)
  BY <1>2
<1> QED
  BY <1>1, <1>3

LEMMA Concat ==
    ASSUME NEW S, NEW a \in Seq(S), NEW c \in Seq(S)
    PROVE  /\ a \o c \in Seq(S) /\ Len(a \o c) = Len(a) + Len(c)
           /\ Len(a) \in Nat /\ Len(c) \in Nat
           /\ \A k \in 1..Len(a) : (a \o c)[k] = a[k]
           /\ \A k \in 1..Len(c) : (a \o c)[Len(a) + k] = c[k]
OBVIOUS

(* The characters that come, behind those carried over.                    *)
LEMMA Joined ==
    ASSUME RequestTypes, Increasing(buf), NEW n \in 1..(Len(call.body) - read)
    PROVE  /\ Chunk(n) \in Seq(1..(read + n)) /\ Len(Chunk(n)) = n
           /\ \A k \in 1..n : Chunk(n)[k] = read + k
           /\ buf \o Chunk(n) \in Seq(1..(read + n))
           /\ Len(buf \o Chunk(n)) = Len(buf) + n
           /\ \A k \in 1..Len(buf) : (buf \o Chunk(n))[k] = buf[k]
           /\ \A k \in 1..n : (buf \o Chunk(n))[Len(buf) + k] = read + k
           /\ Increasing(buf \o Chunk(n))
           /\ n \in Nat /\ read \in Nat /\ read + n \in 0..Len(call.body)
<1>1. /\ read \in Nat /\ Len(call.body) \in Nat /\ n \in Nat /\ n <= Len(call.body) - read
      /\ buf \in Seq(1..read)
  <2>1. call.body \in Seq(Character)
    BY TextsAssumption DEF RequestTypes
  <2>2. Len(call.body) \in Nat
    BY <2>1
  <2> QED
    BY <2>2 DEF RequestTypes
<1> DEFINE c == Chunk(n)
           s == buf \o c
<1>2. c \in Seq(1..(read + n)) /\ Len(c) = n /\ \A k \in 1..n : c[k] = read + k
  BY <1>1 DEF Chunk
<1>3. buf \in Seq(1..(read + n))
  <2>1. \A i \in 1..Len(buf) : buf[i] \in 1..(read + n)
    BY <1>1
  <2> QED
    BY <1>1, <2>1
<1> HIDE DEF c
<1>4. /\ s \in Seq(1..(read + n)) /\ Len(s) = Len(buf) + n /\ Len(buf) \in Nat
      /\ \A k \in 1..Len(buf) : s[k] = buf[k]
      /\ \A k \in 1..n : s[Len(buf) + k] = read + k
  <2>1. /\ s \in Seq(1..(read + n)) /\ Len(s) = Len(buf) + Len(c) /\ Len(buf) \in Nat
        /\ \A k \in 1..Len(buf) : s[k] = buf[k]
        /\ \A k \in 1..Len(c) : s[Len(buf) + k] = c[k]
    <3> DEFINE T == 1..(read + n)
    <3>1. c \in Seq(T) /\ buf \in Seq(T)
      BY <1>2, <1>3
    <3> HIDE DEF T
    <3>2. s \in Seq(T)
      BY <3>1, Concat
    <3>3. /\ Len(s) = Len(buf) + Len(c) /\ Len(buf) \in Nat
          /\ \A k \in 1..Len(buf) : s[k] = buf[k]
          /\ \A k \in 1..Len(c) : s[Len(buf) + k] = c[k]
      BY <3>1, Concat
    <3> QED
      BY <3>2, <3>3 DEF T
  <2> HIDE DEF s
  <2> QED
    BY <1>2, <2>1
<1> HIDE DEF s
<1>5. Increasing(s)
  <2> SUFFICES ASSUME NEW k \in 1..Len(s), NEW l \in 1..Len(s), k < l
               PROVE  s[k] < s[l]
    BY DEF Increasing
  <2>1. CASE l <= Len(buf)
    BY <1>4, <2>1 DEF Increasing
  <2>2. CASE l > Len(buf)
    <3>1. s[l] = read + (l - Len(buf)) /\ l - Len(buf) \in 1..n
      <4>1. l - Len(buf) \in 1..n /\ Len(buf) + (l - Len(buf)) = l
        BY <1>4, <2>2
      <4>2. s[Len(buf) + (l - Len(buf))] = read + (l - Len(buf))
        BY <1>4, <4>1
      <4> QED
        BY <4>1, <4>2
    <3>2. CASE k <= Len(buf)
      <4>1. s[k] \in 1..read
        <5>1. k \in 1..Len(buf)
          BY <1>4, <3>2
        <5>2. buf[k] \in 1..read
          BY <1>1, <5>1
        <5> QED
          BY <1>4, <5>1, <5>2
      <4> QED
        BY <1>1, <3>1, <4>1
    <3>3. CASE k > Len(buf)
      <4>1. k - Len(buf) \in 1..n /\ Len(buf) + (k - Len(buf)) = k
        BY <1>4, <3>3
      <4>2. s[Len(buf) + (k - Len(buf))] = read + (k - Len(buf))
        BY <1>4, <4>1
      <4> QED
        BY <1>1, <1>4, <3>1, <4>1, <4>2
    <3> QED
      BY <1>4, <3>2, <3>3
  <2> QED
    BY <1>4, <2>1, <2>2
<1> QED
  BY <1>1, <1>2, <1>4, <1>5 DEF s, c

(* Groups of a text that is base64 can be decoded, as the padding is at the *)
(* end of the last one.                                                    *)
LEMMA Decodable ==
    ASSUME RequestTypes, Valid, NEW base \in Nat, base % Group = 0,
           NEW g \in Seq(Nat), Len(g) % Group = 0, base + Len(g) <= Len(call.body),
           \A k \in 1..Len(g) : g[k] = base + k
    PROVE  Decodes(g)
<1> DEFINE t == call.body
           N == Len(t)
           G == Len(g)
<1>1. t \in Seq(Character)
  BY TextsAssumption DEF RequestTypes
<1>2. N \in Nat /\ DOMAIN t = 1..N
  BY <1>1
<1>3. G \in Nat
  OBVIOUS
<1>4. Len(WholeText) = N /\ \A i \in 1..N : WholeText[i] = i
  BY <1>2 DEF WholeText
<1>5. /\ N % Group = 0
      /\ \A i \in 1..N :
             /\ t[WholeText[i]] # "bad"
             /\ t[WholeText[i]] = "pad" =>
                    \/ i = N /\ t[WholeText[i - 1]] \in {"even", "round", "pad"}
                    \/ i = N - 1 /\ t[WholeText[i - 1]] = "round" /\ t[WholeText[i + 1]] = "pad"
  BY <1>4 DEF Valid, Decodes, Kind
<1> HIDE DEF t, N, G
<1>6. ASSUME NEW k \in 1..G
      PROVE  /\ base + k \in 1..N /\ g[k] = base + k /\ WholeText[base + k] = base + k
             /\ Kind(g, k) = t[base + k] /\ t[base + k] # "bad"
  <2>1. base + k \in 1..N
    BY <1>2, <1>3 DEF N, G, t
  <2>2. g[k] = base + k
    BY DEF G
  <2>3. WholeText[base + k] = base + k
    BY <1>4, <2>1
  <2> QED
    BY <1>5, <2>1, <2>2, <2>3 DEF Kind, t
<1>7. ASSUME NEW k \in 1..G, Kind(g, k) = "pad"
      PROVE  \/ k = G /\ Kind(g, k - 1) \in {"even", "round", "pad"}
             \/ k = G - 1 /\ Kind(g, k - 1) = "round" /\ Kind(g, k + 1) = "pad"
  <2>1. t[base + k] = "pad" /\ base + k \in 1..N /\ WholeText[base + k] = base + k
    BY <1>6, <1>7
  <2>2. \/ base + k = N /\ t[WholeText[base + k - 1]] \in {"even", "round", "pad"}
        \/ /\ base + k = N - 1 /\ t[WholeText[base + k - 1]] = "round"
           /\ t[WholeText[base + k + 1]] = "pad"
    BY <1>5, <2>1
  <2>3. base + G = N /\ G >= 4 /\ (base + k = N => k = G) /\ (base + k = N - 1 => k = G - 1)
    <3>1. base % 4 = 0 /\ G % 4 = 0 /\ N % 4 = 0 /\ base + G <= N
      BY <1>5 DEF Group, N, G, t
    <3>2. base + k = N \/ base + k = N - 1
      BY <2>2
    <3>3. base + G >= N - 1 /\ G > 0
      BY <1>2, <1>3, <3>2
    <3>4. base + G = N /\ G >= 4
      BY <1>2, <1>3, <3>1, <3>3, LastGroups
    <3> QED
      BY <1>2, <1>3, <3>2, <3>4
  <2>4. k - 1 \in 1..G /\ base + (k - 1) = base + k - 1
    BY <1>2, <1>3, <2>2, <2>3
  <2>5. Kind(g, k - 1) = t[base + k - 1] /\ WholeText[base + k - 1] = base + k - 1
    BY <1>6, <2>4
  <2>6. CASE base + k = N
    BY <2>2, <2>3, <2>5, <2>6, <1>2
  <2>7. CASE base + k = N - 1
    <3>1. k + 1 \in 1..G /\ base + (k + 1) = base + k + 1
      BY <1>2, <1>3, <2>3, <2>7
    <3>2. Kind(g, k + 1) = t[base + k + 1] /\ WholeText[base + k + 1] = base + k + 1
      BY <1>6, <3>1
    <3> QED
      BY <1>2, <2>2, <2>3, <2>5, <2>7, <3>2
  <2> QED
    BY <2>2, <2>6, <2>7
<1>8. ASSUME NEW k \in 1..G PROVE Kind(g, k) # "bad"
  BY <1>6
<1> QED
  BY <1>7, <1>8 DEF Decodes, G

LEMMA PassableAppend ==
    ASSUME NEW m \in Nat, NEW d \in Seq(Frames(m)), NEW j, Passable(d, j), NEW f \in Frames(m),
           f.as = "decoded" => Len(f.at) % Group = 0,
           f.as = "raw" /\ Mode = "base64" /\ Valid => j = "yes"
    PROVE  Append(d, f) \in Seq(Frames(m)) /\ Passable(Append(d, f), j)
<1> DEFINE t == Append(d, f)
<1>1. /\ t \in Seq(Frames(m)) /\ Len(t) = Len(d) + 1 /\ Len(d) \in Nat
      /\ \A i \in 1..Len(d) : t[i] = d[i]
      /\ t[Len(d) + 1] = f
  OBVIOUS
<1> HIDE DEF t
<1>2. ASSUME NEW i \in 1..Len(t)
      PROVE  /\ t[i].as = "decoded" => Len(t[i].at) % Group = 0
             /\ t[i].as = "raw" /\ Mode = "base64" /\ Valid => j = "yes"
  <2>1. CASE i \in 1..Len(d)
    <3>1. t[i] = d[i]
      BY <1>1, <2>1
    <3> QED
      BY <2>1, <3>1 DEF Passable
  <2>2. CASE i = Len(d) + 1
    <3>1. t[i] = f
      BY <1>1, <2>2
    <3> QED
      BY <3>1
  <2> QED
    BY <1>1, <2>1, <2>2
<1> QED
  BY <1>1, <1>2 DEF Passable, t

LEMMA Bounds ==
    ASSUME RequestInv
    PROVE  /\ RequestTypes /\ Increasing(buf) /\ Once(decoded, buf, read)
           /\ read \in Nat /\ decoded \in Seq(Frames(read)) /\ buf \in Seq(1..read)
           /\ Len(call.body) \in Nat /\ read <= Len(call.body) /\ Len(buf) \in Nat
           /\ Passable(decoded, jumped)
<1>1. call.body \in Seq(Character) /\ buf \in Seq(1..read) /\ decoded \in Seq(Frames(read))
  BY TextsAssumption DEF RequestInv, RequestTypes
<1>2. Len(call.body) \in Nat /\ Len(buf) \in Nat /\ DOMAIN decoded = 1..Len(decoded)
  BY <1>1
<1>3. Passable(decoded, jumped)
  BY DEF RequestInv
<1> QED
  BY <1>1, <1>2, <1>3 DEF RequestInv, RequestTypes

(* The frames passed on, and what is carried over, after a step.           *)
LEMMA Passed ==
    ASSUME RequestInv, NEW m \in 0..Len(call.body), call' = call, read' = m,
           NEW t \in Seq(Frames(m)), decoded' = t, Passable(t, jumped'),
           NEW y \in Seq(1..m), buf' = y, Len(y) < Group, Increasing(y),
           Mode = "binary" => y = <<>>,
           jumped' \in {"yes", "no"},
           Once(t, y, m), Aligned(y, m, jumped'),
           jumped' = "no" => Sorted(t, y)
    PROVE  RequestInv'
<1>1. Mode' = Mode /\ Valid' = Valid
  BY DEF Mode, IsGrpcWeb, Valid, WholeText, Decodes, Kind
<1>2. RequestTypes'
  BY DEF RequestInv, RequestTypes, Passable
<1>3. Passable(decoded, jumped)' /\ Aligned(buf, read, jumped)'
  BY <1>1 DEF Passable, Aligned
<1>4. BinaryIsNotCarried' /\ Increasing(buf')
  BY <1>1 DEF BinaryIsNotCarried
<1>5. Once(decoded', buf', read') /\ (jumped' = "no" => Sorted(decoded', buf'))
  OBVIOUS
<1> QED
  BY <1>2, <1>3, <1>4, <1>5 DEF RequestInv

LEMMA Widen ==
    ASSUME NEW S, NEW T, S \subseteq T, NEW s \in Seq(S)
    PROVE  s \in Seq(T)
OBVIOUS

LEMMA Parts ==
    ASSUME NEW S \in SUBSET Nat, NEW s \in Seq(S), Increasing(s), NEW w \in 0..Len(s)
    PROVE  /\ SubSeq(s, 1, w) \in Seq(S) /\ Len(SubSeq(s, 1, w)) = w
           /\ \A k \in 1..w : SubSeq(s, 1, w)[k] = s[k]
           /\ SubSeq(s, w + 1, Len(s)) \in Seq(S)
           /\ Len(SubSeq(s, w + 1, Len(s))) = Len(s) - w
           /\ \A k \in 1..(Len(s) - w) : SubSeq(s, w + 1, Len(s))[k] = s[w + k]
           /\ Increasing(SubSeq(s, 1, w)) /\ Increasing(SubSeq(s, w + 1, Len(s)))
<1> DEFINE x == SubSeq(s, 1, w)
           y == SubSeq(s, w + 1, Len(s))
<1>1. /\ Len(s) \in Nat /\ w \in Nat /\ w <= Len(s)
      /\ x \in Seq(S) /\ Len(x) = w /\ \A k \in 1..w : x[k] = s[k]
  OBVIOUS
<1>2. /\ y \in Seq(S) /\ Len(y) = Len(s) - w
      /\ \A k \in 1..(Len(s) - w) : y[k] = s[w + k]
  BY <1>1
<1> HIDE DEF x, y
<1>3. Increasing(x)
  BY <1>1 DEF Increasing
<1>4. Increasing(y)
  <2> SUFFICES ASSUME NEW k \in 1..Len(y), NEW l \in 1..Len(y), k < l
               PROVE  y[k] < y[l]
    BY DEF Increasing
  <2>1. w + k \in 1..Len(s) /\ w + l \in 1..Len(s) /\ w + k < w + l
    BY <1>1, <1>2
  <2>2. s[w + k] < s[w + l]
    BY <2>1 DEF Increasing
  <2> QED
    BY <1>2, <2>2
<1> QED
  BY <1>1, <1>2, <1>3, <1>4 DEF x, y

(* A chunk is passed on by itself, in front of what is carried over.       *)
LEMMA PassedAlone ==
    ASSUME RequestInv, NEW n \in 1..(Len(call.body) - read),
           NEW as \in {"decoded", "raw"}, as = "raw" => Mode = "binary",
           as = "decoded" => n % Group = 0,
           decoded' = Append(decoded, RequestFrame(as, Chunk(n))), read' = read + n,
           buf' = buf, call' = call,
           jumped' = IF buf = <<>> THEN jumped ELSE "yes"
    PROVE  RequestInv'
<1> DEFINE f == RequestFrame(as, Chunk(n))
<1>1. /\ Chunk(n) \in Seq(1..(read + n)) /\ Len(Chunk(n)) = n
      /\ \A k \in 1..n : Chunk(n)[k] = read + k
      /\ n \in Nat /\ read + n \in 0..Len(call.body)
  BY Bounds, Joined
<1>2. f \in Frames(read + n) /\ f.at = Chunk(n) /\ f.as = as
  BY <1>1 DEF RequestFrame, Frames
<1>3. decoded \in Seq(Frames(read + n)) /\ buf \in Seq(1..(read + n))
  BY <1>1, Bounds, FramesGrow
<1>4. Chunk(n) \in Seq(Int)
  BY <1>1
<1> HIDE DEF f
<1>5. /\ Once(Append(decoded, f), buf, read + n)
      /\ buf = <<>> /\ Sorted(decoded, buf) => Sorted(Append(decoded, f), buf)
  BY <1>1, <1>2, <1>3, <1>4, Bounds, Overtaken
<1>6. jumped' = "no" => Sorted(Append(decoded, f), buf)
  BY <1>5 DEF RequestInv
<1>7. /\ jumped' \in {"yes", "no"} /\ Len(buf) < Group /\ Increasing(buf)
      /\ Mode = "binary" => buf = <<>>
      /\ Mode = "binary" => Mode # "base64"
  BY DEF RequestInv, RequestTypes, BinaryIsNotCarried
<1>8. decoded' = Append(decoded, f)
  BY DEF f
<1>9. Append(decoded, f) \in Seq(Frames(read + n)) /\ Passable(Append(decoded, f), jumped')
  <2>1. Passable(decoded, jumped') /\ read + n \in Nat
    BY <1>1, Bounds DEF Passable
  <2>2. f.as = "decoded" => Len(f.at) % Group = 0
    BY <1>1, <1>2
  <2>3. ~(f.as = "raw" /\ Mode = "base64")
    BY <1>2, <1>7
  <2> QED
    BY <1>2, <1>3, <2>1, <2>2, <2>3, PassableAppend
<1>10. Aligned(buf, read + n, jumped')
  <2> SUFFICES ASSUME Mode = "base64", jumped' = "no"
               PROVE  (read + n - Len(buf)) % Group = 0 /\ Len(buf) = 0
    BY DEF Aligned
  <2>1. buf = <<>> /\ jumped = "no" /\ n % Group = 0
    BY <1>7
  <2>2. Len(buf) = 0 /\ (read - Len(buf)) % Group = 0
    BY <2>1 DEF RequestInv, Aligned
  <2>3. read \in Nat /\ read % 4 = 0 /\ n % 4 = 0
    BY <2>1, <2>2, Bounds DEF Group
  <2>4. (read + n) % 4 = 0
    BY <1>1, <2>3, Multiples
  <2> QED
    BY <1>1, <2>2, <2>3, <2>4 DEF Group
<1> QED
  BY <1>1, <1>3, <1>5, <1>6, <1>7, <1>8, <1>9, <1>10, Passed

(* What is carried over is still aligned when a chunk joins it.            *)
LEMMA JoinedAligned ==
    ASSUME RequestInv, NEW n \in 1..(Len(call.body) - read), Mode = "base64", jumped = "no"
    PROVE  /\ read - Len(buf) \in Nat /\ (read - Len(buf)) % Group = 0
           /\ \A k \in 1..(Len(buf) + n) : (buf \o Chunk(n))[k] = read - Len(buf) + k
<1> DEFINE s == buf \o Chunk(n)
<1>1. /\ (read - Len(buf)) % Group = 0 /\ read \in Nat /\ Len(buf) \in Nat
      /\ \A k \in 1..Len(buf) : buf[k] = read - Len(buf) + k
      /\ buf \in Seq(1..read)
  BY Bounds DEF RequestInv, Aligned
<1>2. /\ \A k \in 1..Len(buf) : s[k] = buf[k]
      /\ \A k \in 1..n : s[Len(buf) + k] = read + k
      /\ n \in Nat
  BY Bounds, Joined
<1> HIDE DEF s
<1>3. read - Len(buf) \in Nat
  <2>1. CASE Len(buf) = 0
    BY <1>1, <2>1
  <2>2. CASE Len(buf) # 0
    <3>1. 1 \in 1..Len(buf) /\ buf[1] \in 1..read
      BY <1>1, <2>2
    <3>2. buf[1] = read - Len(buf) + 1
      BY <1>1, <3>1
    <3> QED
      BY <1>1, <3>1, <3>2
  <2> QED
    BY <2>1, <2>2
<1>4. ASSUME NEW k \in 1..(Len(buf) + n) PROVE s[k] = read - Len(buf) + k
  <2>1. CASE k <= Len(buf)
    BY <1>1, <1>2, <2>1
  <2>2. CASE k > Len(buf)
    <3>1. k - Len(buf) \in 1..n /\ Len(buf) + (k - Len(buf)) = k
      BY <1>1, <1>2, <2>2
    <3>2. s[Len(buf) + (k - Len(buf))] = read + (k - Len(buf))
      BY <1>2, <3>1
    <3> QED
      BY <1>1, <1>2, <3>1, <3>2
  <2> QED
    BY <1>1, <1>2, <2>1, <2>2
<1> QED
  BY <1>1, <1>3, <1>4 DEF s

LEMMA DecodeCarriedInv ==
    ASSUME RequestInv, NEW n \in 1..(Len(call.body) - read), DecodeCarried(n)
    PROVE  RequestInv'
<1> DEFINE s == buf \o Chunk(n)
           M == read + n
           w == Whole(s)
           x == SubSeq(s, 1, w)
           y == SubSeq(s, w + 1, Len(s))
           f == RequestFrame(IF Decodes(x) THEN "decoded" ELSE "raw", x)
<1>1. /\ s \in Seq(1..M) /\ Len(s) = Len(buf) + n /\ Increasing(s)
      /\ \A k \in 1..Len(buf) : s[k] = buf[k]
      /\ \A k \in 1..n : s[Len(buf) + k] = read + k
      /\ n \in Nat /\ read \in Nat /\ M \in 0..Len(call.body)
  BY Bounds, Joined
<1>2. /\ decoded' = Append(decoded, f) /\ buf' = y /\ read' = M
      /\ jumped' = jumped /\ call' = call /\ Mode = "base64"
  BY DEF DecodeCarried, Arrives, Yield
<1> HIDE DEF s
<1>3. /\ w \in 0..Len(s) /\ w % Group = 0 /\ Len(s) - w \in 0..3
      /\ Len(s) \in Nat
  <2>1. Len(s) \in Nat
    BY <1>1
  <2>2. Len(s) % Group \in 0..3 /\ w \in 0..Len(s) /\ w % Group = 0
    BY <2>1, Groups DEF Whole
  <2> QED
    BY <2>1, <2>2 DEF Whole
<1>0. M \in Nat /\ 1..M \in SUBSET Nat /\ 1..M \subseteq 1..Len(call.body) /\ 1..M \subseteq Int
  BY <1>1, Bounds
<1>10. decoded \in Seq(Frames(M))
  <2>1. read \in Nat /\ decoded \in Seq(Frames(read)) /\ buf \in Seq(1..read) /\ n \in Nat
    BY <1>1, Bounds
  <2> QED
    BY <2>1, FramesGrow
<1> HIDE DEF w, M
<1>4. /\ x \in Seq(1..M) /\ Len(x) = w /\ Increasing(x)
      /\ \A k \in 1..w : x[k] = s[k]
      /\ y \in Seq(1..M) /\ Len(y) = Len(s) - w /\ Increasing(y)
      /\ \A k \in 1..(Len(s) - w) : y[k] = s[w + k]
  <2> HIDE DEF x, y
  <2> DEFINE T == 1..M
  <2>1. T \in SUBSET Nat /\ s \in Seq(T) /\ w \in 0..Len(s)
    BY <1>0, <1>1, <1>3
  <2> HIDE DEF T
  <2>2. /\ x \in Seq(T) /\ Len(x) = w /\ Increasing(x)
        /\ \A k \in 1..w : x[k] = s[k]
    BY <1>1, <2>1, Parts DEF x
  <2>3. /\ y \in Seq(T) /\ Len(y) = Len(s) - w /\ Increasing(y)
        /\ \A k \in 1..(Len(s) - w) : y[k] = s[w + k]
    BY <1>1, <2>1, Parts DEF y
  <2> QED
    BY <2>2, <2>3 DEF T
<1> HIDE DEF x, y
<1>12. x \in Seq(1..Len(call.body)) /\ x \in Seq(Int)
  BY <1>0, <1>4, Widen
<1>5. f \in Frames(M) /\ f.at = x /\ (f.as = "decoded" \/ (f.as = "raw" /\ ~Decodes(x)))
  BY <1>4 DEF RequestFrame, Frames
<1> HIDE DEF f
<1>6. Once(decoded, s, M) /\ (Sorted(decoded, buf) => Sorted(decoded, s))
  BY <1>1, Bounds, Carried DEF M
<1>7. Once(Append(decoded, f), y, M) /\ (Sorted(decoded, s) => Sorted(Append(decoded, f), y))
  <2>1. x \in Seq(Int)
    BY <1>4, <1>12
  <2>2. Len(y) \in Nat /\ Len(x) + Len(y) = Len(s)
    BY <1>3, <1>4
  <2>3. /\ \A k \in 1..Len(x) : x[k] = s[k]
        /\ \A k \in 1..Len(y) : y[k] = s[Len(x) + k]
    BY <1>4
  <2> QED
    BY <1>0, <1>3, <1>5, <1>6, <1>10, <2>1, <2>2, <2>3, SplitOff
<1>13. ASSUME jumped = "no"
       PROVE  /\ read - Len(buf) \in Nat /\ (read - Len(buf)) % Group = 0
              /\ \A k \in 1..Len(s) : s[k] = read - Len(buf) + k
  BY <1>1, <1>2, <1>13, JoinedAligned DEF s
<1>14. Len(buf) \in Nat /\ Len(call.body) \in Nat /\ M = read + n
  BY Bounds DEF M
<1>8. f.as = "raw" /\ Mode = "base64" /\ Valid => jumped' = "yes"
  <2> SUFFICES ASSUME f.as = "raw", Valid, jumped' # "yes"
               PROVE  Decodes(x)
    BY <1>5
  <2>1. jumped = "no"
    BY <1>2 DEF RequestInv, RequestTypes
  <2> DEFINE base == read - Len(buf)
  <2>2. base \in Nat /\ base % Group = 0 /\ \A k \in 1..Len(x) : x[k] = base + k
    BY <1>3, <1>4, <1>13, <2>1
  <2>3. base + Len(x) <= Len(call.body)
    BY <1>1, <1>3, <1>4, <1>14
  <2>4. x \in Seq(Nat) /\ Len(x) % Group = 0 /\ RequestTypes
    BY <1>0, <1>3, <1>4, Widen, Bounds
  <2> HIDE DEF base
  <2> QED
    BY <2>2, <2>3, <2>4, Decodable
<1>15. Aligned(y, M, jumped')
  <2> SUFFICES ASSUME jumped' = "no"
               PROVE  /\ (M - Len(y)) % Group = 0
                      /\ \A k \in 1..Len(y) : y[k] = M - Len(y) + k
    BY DEF Aligned
  <2>1. jumped = "no"
    BY <1>2
  <2> DEFINE base == read - Len(buf)
  <2>2. base \in Nat /\ base % Group = 0 /\ \A k \in 1..Len(s) : s[k] = base + k
    BY <1>13, <2>1
  <2>3. M - Len(y) = base + w /\ w \in Nat /\ w % Group = 0
    BY <1>1, <1>3, <1>4, <1>14
  <2>4. ASSUME NEW k \in 1..Len(y) PROVE y[k] = base + w + k
    <3>1. k \in 1..(Len(s) - w) /\ w + k \in 1..Len(s)
      BY <1>3, <1>4
    <3>2. y[k] = s[w + k] /\ s[w + k] = base + (w + k)
      BY <1>4, <2>2, <3>1
    <3> QED
      BY <1>3, <2>2, <3>1, <3>2
  <2> HIDE DEF base
  <2>5. (base + w) % Group = 0
    BY <2>2, <2>3 DEF Group
  <2> QED
    BY <2>3, <2>4, <2>5
<1>11. Append(decoded, f) \in Seq(Frames(M)) /\ Passable(Append(decoded, f), jumped')
  <2>1. f.as = "decoded" => Len(f.at) % Group = 0
    BY <1>3, <1>4, <1>5
  <2>2. Passable(decoded, jumped')
    BY <1>2, Bounds
  <2> QED
    BY <1>0, <1>5, <1>8, <1>10, <2>1, <2>2, PassableAppend
<1>9. /\ jumped' \in {"yes", "no"} /\ Len(y) < Group /\ Mode # "binary"
      /\ jumped' = "no" => Sorted(Append(decoded, f), y)
  <2>1. jumped' \in {"yes", "no"} /\ Mode # "binary"
    BY <1>2 DEF RequestInv, RequestTypes
  <2>2. Len(y) < Group
    BY <1>3, <1>4 DEF Group
  <2>3. jumped' = "no" => Sorted(Append(decoded, f), y)
    BY <1>2, <1>6, <1>7 DEF RequestInv
  <2> QED
    BY <2>1, <2>2, <2>3
<1> QED
  BY <1>1, <1>2, <1>4, <1>7, <1>9, <1>11, <1>15, Passed

LEMMA CarryInv ==
    ASSUME RequestInv, NEW n \in 1..(Len(call.body) - read), Carry(n)
    PROVE  RequestInv'
<1> DEFINE s == buf \o Chunk(n)
           M == read + n
<1>1. /\ s \in Seq(1..M) /\ Len(s) = Len(buf) + n /\ Increasing(s)
      /\ \A k \in 1..Len(buf) : s[k] = buf[k]
      /\ \A k \in 1..n : s[Len(buf) + k] = read + k
      /\ n \in Nat /\ read \in Nat /\ M \in 0..Len(call.body)
  BY Bounds, Joined
<1>2. /\ decoded' = decoded /\ buf' = s /\ read' = M /\ Whole(s) = 0
      /\ jumped' = jumped /\ call' = call /\ Mode = "base64"
  BY DEF Carry, Arrives
<1> HIDE DEF s
<1>3. Len(s) < Group
  <2>1. Len(s) \in Nat
    BY <1>1
  <2>2. Len(s) % Group \in 0..3 /\ Len(s) - (Len(s) % Group) = 0
    BY <1>2, <2>1, Groups DEF Whole
  <2> QED
    BY <2>1, <2>2 DEF Group
<1>4. decoded \in Seq(Frames(M))
  <2>1. read \in Nat /\ decoded \in Seq(Frames(read)) /\ buf \in Seq(1..read) /\ n \in Nat
    BY <1>1, Bounds
  <2> QED
    BY <2>1, FramesGrow
<1>5. Once(decoded, s, M) /\ (Sorted(decoded, buf) => Sorted(decoded, s))
  BY <1>1, Bounds, Carried
<1>6. Passable(decoded, jumped') /\ jumped' \in {"yes", "no"} /\ Mode # "binary"
  BY <1>2, Bounds DEF RequestInv, RequestTypes
<1>7. jumped' = "no" => Sorted(decoded, s)
  BY <1>2, <1>5 DEF RequestInv
<1>8. Aligned(s, M, jumped')
  <2> SUFFICES ASSUME jumped' = "no"
               PROVE  /\ (M - Len(s)) % Group = 0
                      /\ \A k \in 1..Len(s) : s[k] = M - Len(s) + k
    BY DEF Aligned
  <2>1. /\ read - Len(buf) \in Nat /\ (read - Len(buf)) % Group = 0
        /\ \A k \in 1..Len(s) : s[k] = read - Len(buf) + k
    BY <1>1, <1>2, JoinedAligned DEF s
  <2>2. M - Len(s) = read - Len(buf)
    BY <1>1, Bounds
  <2> QED
    BY <2>1, <2>2
<1> QED
  BY <1>1, <1>2, <1>3, <1>4, <1>5, <1>6, <1>7, <1>8, Passed

(* An empty frame is passed on: the end of the request, or its trailers.   *)
LEMMA EmptyFrame ==
    ASSUME NEW m \in Nat, NEW d \in Seq(Frames(m)), NEW b \in Seq(1..m), Once(d, b, m),
           NEW as \in {"trailers", "end", "error"}, NEW j, Passable(d, j)
    PROVE  LET t == Append(d, RequestFrame(as, <<>>))
           IN  /\ t \in Seq(Frames(m)) /\ Passable(t, j) /\ Once(t, b, m)
               /\ Sorted(d, b) => Sorted(t, b)
<1> DEFINE f == RequestFrame(as, <<>>)
           x == <<>>
<1>1. f \in Frames(m) /\ f.at = x /\ f.as \notin {"decoded", "raw"}
  <2>1. x \in Seq(1..m)
    OBVIOUS
  <2> HIDE DEF x
  <2>2. RequestFrame(as, x) \in Frames(m)
    BY <2>1 DEF RequestFrame, Frames
  <2> QED
    BY <2>2 DEF RequestFrame, x
<1>2. x \in Seq(Int) /\ Len(x) = 0 /\ Len(b) \in Nat
  OBVIOUS
<1> HIDE DEF f, x
<1>3. Append(d, f) \in Seq(Frames(m)) /\ Passable(Append(d, f), j)
  BY <1>1, PassableAppend
<1>4. /\ Len(x) + Len(b) = Len(b)
      /\ \A k \in 1..Len(x) : x[k] = b[k]
      /\ \A k \in 1..Len(b) : b[k] = b[Len(x) + k]
  BY <1>2
<1>5. Once(Append(d, f), b, m) /\ (Sorted(d, b) => Sorted(Append(d, f), b))
  BY <1>1, <1>2, <1>4, SplitOff
<1> QED
  BY <1>3, <1>5 DEF f

LEMMA RequestEndsInv ==
    ASSUME RequestInv, RequestEnds
    PROVE  RequestInv'
<1> DEFINE t == Append(decoded, RequestFrame("trailers", <<>>))
<1>1. /\ read \in Nat /\ decoded \in Seq(Frames(read)) /\ buf \in Seq(1..read)
      /\ Once(decoded, buf, read) /\ Passable(decoded, jumped) /\ read \in 0..Len(call.body)
  BY Bounds
<1>2. /\ read' = read /\ buf' = buf /\ jumped' = jumped /\ call' = call
      /\ Len(buf) < Group /\ Increasing(buf) /\ (Mode = "binary" => buf = <<>>)
      /\ jumped' \in {"yes", "no"}
      /\ jumped' = "no" => Sorted(decoded, buf)
      /\ call.ending \in {"end", "trailers", "error"}
      /\ Aligned(buf, read, jumped')
  BY DEF RequestEnds, RequestInv, RequestTypes, BinaryIsNotCarried
<1>3. ASSUME call.ending # "trailers" PROVE RequestInv'
  <2> DEFINE u == Append(decoded, RequestFrame(call.ending, <<>>))
  <2>1. decoded' = u
    BY <1>3 DEF RequestEnds
  <2>2. u \in Seq(Frames(read)) /\ Passable(u, jumped) /\ Once(u, buf, read)
        /\ (Sorted(decoded, buf) => Sorted(u, buf))
    BY <1>1, <1>2, EmptyFrame
  <2> HIDE DEF u
  <2> QED
    BY <1>1, <1>2, <2>1, <2>2, Passed
<1>4. ASSUME call.ending = "trailers" PROVE RequestInv'
  <2> DEFINE u == Append(t, RequestFrame("end", <<>>))
  <2>1. t \in Seq(Frames(read)) /\ Passable(t, jumped) /\ Once(t, buf, read)
        /\ (Sorted(decoded, buf) => Sorted(t, buf))
    BY <1>1, EmptyFrame
  <2>2. u \in Seq(Frames(read)) /\ Passable(u, jumped) /\ Once(u, buf, read)
        /\ (Sorted(t, buf) => Sorted(u, buf))
    <3> HIDE DEF t
    <3> QED
      BY <1>1, <2>1, EmptyFrame
  <2>3. decoded' = u
    <3>1. decoded' = decoded \o <<RequestFrame("trailers", <<>>), RequestFrame("end", <<>>)>>
      BY <1>4 DEF RequestEnds
    <3>2. ASSUME NEW S, NEW d \in Seq(S), NEW f, NEW g
          PROVE  d \o <<f, g>> = Append(Append(d, f), g)
      OBVIOUS
    <3> QED
      BY <1>1, <3>1, <3>2
  <2> HIDE DEF u, t
  <2> QED
    BY <1>1, <1>2, <2>1, <2>2, <2>3, Passed
<1> QED
  BY <1>3, <1>4

LEMMA RequestInit ==
    ASSUME Init
    PROVE  RequestInv
<1>1. /\ call \in [type : Types, length : {"yes", "no"}, body : Texts,
                   ending : {"end", "trailers", "error"}]
      /\ read = 0 /\ buf = <<>> /\ decoded = <<>> /\ jumped = "no"
  BY DEF Init
<1>2. call.body \in Seq(Character)
  BY <1>1, TextsAssumption
<1>3. RequestTypes
  <2>1. read \in 0..Len(call.body)
    BY <1>1, <1>2
  <2>2. decoded \in Seq(Frames(read)) /\ Len(decoded) = 0
    BY <1>1
  <2>3. buf \in Seq(1..read) /\ Len(buf) = 0
    BY <1>1
  <2> QED
    BY <1>1, <2>1, <2>2, <2>3 DEF RequestTypes, Group
<1>4. ASSUME NEW i \in Nat, NEW k \in Nat PROVE ~Place(decoded, buf, i, k)
  BY <1>1 DEF Place, Piece
<1>5. Once(decoded, buf, read) /\ Sorted(decoded, buf)
  BY <1>1, <1>4 DEF Once, Sound, Onto, Injective, Sorted
<1>6. Increasing(buf) /\ BinaryIsNotCarried /\ Passable(decoded, jumped)
  BY <1>1 DEF Increasing, BinaryIsNotCarried, Passable
<1>7. Aligned(buf, read, jumped)
  <2>1. Len(buf) = 0 /\ read = 0
    BY <1>1
  <2> QED
    BY <2>1 DEF Aligned, Group
<1> QED
  BY <1>3, <1>5, <1>6, <1>7 DEF RequestInv

LEMMA RequestStays ==
    ASSUME RequestInv, UNCHANGED <<call, read, buf, decoded, jumped>>
    PROVE  RequestInv'
<1>1. Mode' = Mode /\ Valid' = Valid
  BY DEF Mode, IsGrpcWeb, Valid, WholeText, Decodes, Kind
<1>2. RequestTypes' /\ BinaryIsNotCarried'
  BY <1>1 DEF RequestInv, RequestTypes, BinaryIsNotCarried
<1>3. Passable(decoded, jumped)' /\ Aligned(buf, read, jumped)'
  BY <1>1 DEF RequestInv, Passable, Aligned
<1> QED
  BY <1>2, <1>3 DEF RequestInv

LEMMA RequestNext ==
    ASSUME RequestInv, [Next]_vars
    PROVE  RequestInv'
<1> USE DEF vars, request, response
<1>1. CASE Forward \/ Answer \/ PollEncode \/ UNCHANGED vars
  <2>1. UNCHANGED <<call, read, buf, decoded, jumped>>
    BY <1>1 DEF Forward, Answer, PollEncode, SendTrailers, EncodeData, CaptureTrailers,
                InnerEnds, InnerFails, EndBody
  <2> QED
    BY <2>1, RequestStays
<1>2. ASSUME NEW n \in 1..Len(call.body), PassBinary(n) PROVE RequestInv'
  <2>1. /\ n \in 1..(Len(call.body) - read) /\ Mode = "binary" /\ call' = call
        /\ decoded' = Append(decoded, RequestFrame("raw", Chunk(n))) /\ read' = read + n
        /\ buf' = buf /\ jumped' = jumped
    BY <1>2 DEF PassBinary, Arrives, Yield
  <2>2. buf = <<>>
    BY <2>1 DEF RequestInv, BinaryIsNotCarried
  <2> QED
    BY <2>1, <2>2, PassedAlone
<1>3. ASSUME NEW n \in 1..Len(call.body), DecodeAlone(n) PROVE RequestInv'
  <2>1. /\ n \in 1..(Len(call.body) - read) /\ Decodes(Chunk(n)) /\ call' = call
        /\ decoded' = Append(decoded, RequestFrame("decoded", Chunk(n))) /\ read' = read + n
        /\ buf' = buf /\ jumped' = IF buf = <<>> THEN jumped ELSE "yes"
    BY <1>3 DEF DecodeAlone, Arrives, Yield
  <2>2. n % Group = 0
    <3>1. Len(Chunk(n)) = n
      BY <2>1, Bounds, Joined
    <3> QED
      BY <2>1, <3>1 DEF Decodes
  <2> QED
    BY <2>1, <2>2, PassedAlone
<1>4. ASSUME NEW n \in 1..Len(call.body), DecodeCarried(n) \/ Carry(n) PROVE RequestInv'
  <2>1. n \in 1..(Len(call.body) - read)
    BY <1>4 DEF DecodeCarried, Carry, Arrives
  <2> QED
    BY <1>4, <2>1, DecodeCarriedInv, CarryInv
<1> QED
  BY <1>1, <1>2, <1>3, <1>4, RequestEndsInv DEF Next, PollDecode

(* The places of the text, as `GrpcWeb` names them.                        *)
LEMMA PlacesAre ==
    ASSUME RequestInv
    PROVE  /\ \A p \in Places :
                  /\ p[1] \in Nat /\ p[2] \in Nat /\ p = <<p[1], p[2]>>
                  /\ Place(decoded, buf, p[1], p[2])
                  /\ At(p) = Piece(decoded, buf, p[1])[p[2]]
           /\ \A i, k \in Nat : Place(decoded, buf, i, k) =>
                  /\ <<i, k>> \in Places
                  /\ At(<<i, k>>) = Piece(decoded, buf, i)[k]
<1>1. /\ decoded \in Seq(Frames(read)) /\ buf \in Seq(1..read) /\ read \in Nat
  BY Bounds
<1>2. /\ Len(decoded) \in Nat /\ DOMAIN decoded = 1..Len(decoded)
      /\ DOMAIN buf = 1..Len(buf) /\ Len(buf) \in Nat
  BY <1>1
<1>3. ASSUME NEW i \in 1..Len(decoded) + 1
      PROVE  /\ Held(i) = Piece(decoded, buf, i)
             /\ DOMAIN Held(i) = 1..Len(Piece(decoded, buf, i))
             /\ Len(Piece(decoded, buf, i)) \in Nat
  <2>1. CASE i \in 1..Len(decoded)
    <3>1. decoded[i] \in Frames(read)
      BY <1>1, <2>1
    <3>2. decoded[i].at \in Seq(1..read)
      BY <3>1 DEF Frames
    <3>3. DOMAIN decoded[i].at = 1..Len(decoded[i].at) /\ Len(decoded[i].at) \in Nat
      BY <3>2
    <3> QED
      BY <1>2, <2>1, <3>3 DEF Held, Piece
  <2>2. CASE i \notin 1..Len(decoded)
    BY <1>2, <2>2 DEF Held, Piece
  <2> QED
    BY <2>1, <2>2
<1>4. ASSUME NEW p \in Places
      PROVE  /\ p[1] \in Nat /\ p[2] \in Nat /\ p = <<p[1], p[2]>>
             /\ Place(decoded, buf, p[1], p[2])
             /\ At(p) = Piece(decoded, buf, p[1])[p[2]]
  <2>1. PICK i \in 1..Len(decoded) + 1 : p \in {i} \X DOMAIN Held(i)
    BY DEF Places
  <2>2. PICK k \in DOMAIN Held(i) : p = <<i, k>>
    BY <2>1
  <2>3. k \in 1..Len(Piece(decoded, buf, i)) /\ i \in Nat /\ k \in Nat
    BY <1>2, <1>3
  <2> QED
    BY <1>3, <2>2, <2>3 DEF Place, At
<1>5. ASSUME NEW i \in Nat, NEW k \in Nat, Place(decoded, buf, i, k)
      PROVE  <<i, k>> \in Places /\ At(<<i, k>>) = Piece(decoded, buf, i)[k]
  <2>1. i \in 1..Len(decoded) + 1 /\ k \in DOMAIN Held(i)
    BY <1>3, <1>5 DEF Place
  <2>2. <<i, k>> \in {i} \X DOMAIN Held(i)
    BY <2>1
  <2> QED
    BY <1>3, <2>1, <2>2 DEF Places, At
<1> QED
  BY <1>4, <1>5

LEMMA RequestUsed ==
    ASSUME RequestInv
    PROVE  NothingLost /\ InOrder /\ StandardUnlessOvertaken
<1>1. Sound(decoded, buf, read) /\ Onto(decoded, buf, read) /\ Injective(decoded, buf)
  BY DEF RequestInv, Once
<1>2. ASSUME NEW p \in Places
      PROVE  /\ p[1] \in Nat /\ p[2] \in Nat /\ p = <<p[1], p[2]>>
             /\ Place(decoded, buf, p[1], p[2])
             /\ At(p) = Piece(decoded, buf, p[1])[p[2]]
  BY PlacesAre
<1>3. ASSUME NEW p \in Places PROVE At(p) \in 1..read
  BY <1>1, <1>2 DEF Sound
<1>4. ASSUME NEW c \in 1..read PROVE \E p \in Places : At(p) = c
  <2>1. PICK i \in Nat, k \in Nat : Place(decoded, buf, i, k) /\ Piece(decoded, buf, i)[k] = c
    BY <1>1 DEF Onto
  <2>2. <<i, k>> \in Places /\ At(<<i, k>>) = c
    BY <2>1, PlacesAre
  <2> QED
    BY <2>2
<1>5. ASSUME NEW p \in Places, NEW q \in Places, At(p) = At(q) PROVE p = q
  <2>1. p[1] = q[1] /\ p[2] = q[2]
    BY <1>1, <1>2, <1>5 DEF Injective
  <2> QED
    BY <1>2, <2>1
<1>6. NothingLost
  <2>1. { At(p) : p \in Places } = 1..read
    BY <1>3, <1>4
  <2> QED
    BY <1>5, <2>1 DEF NothingLost
<1>7. ASSUME jumped = "no", NEW p \in Places, NEW q \in Places, Before(p, q)
      PROVE  At(p) < At(q)
  <2>1. Sorted(decoded, buf)
    BY <1>7 DEF RequestInv
  <2> QED
    BY <1>2, <1>7, <2>1 DEF Sorted, Before
<1>8. ASSUME jumped = "no", Mode = "base64", Decodes(WholeText), NEW i \in DOMAIN decoded
      PROVE  decoded[i].as # "raw"
  <2>1. DOMAIN decoded = 1..Len(decoded)
    BY Bounds
  <2> QED
    BY <1>8, <2>1 DEF RequestInv, Passable, Valid
<1>9. ASSUME jumped = "no", Mode = "base64", Decodes(WholeText), read = Len(call.body)
      PROVE  buf = <<>>
  <2>1. read \in Nat /\ buf \in Seq(1..read) /\ Len(buf) \in Nat /\ Len(buf) < 4
    BY Bounds DEF RequestTypes, Group
  <2>2. (read - Len(buf)) % 4 = 0
    BY <1>9 DEF RequestInv, Aligned, Group
  <2>3. read % 4 = 0
    <3>1. Len(WholeText) = Len(call.body)
      BY <1>9, <2>1 DEF WholeText
    <3> QED
      BY <1>9, <3>1 DEF Decodes, Group
  <2>4. Len(buf) = 0
    BY <2>1, <2>2, <2>3
  <2> QED
    BY <2>1, <2>4
<1> QED
  BY <1>6, <1>7, <1>8, <1>9 DEF InOrder, StandardUnlessOvertaken, StandardFrames
-----------------------------------------------------------------------------
(* A response: what has been sent follows from how far the frames of the   *)
(* service have been polled and from the two fields of the wrapper.        *)
Data(n) == [i \in 1..n |-> ResponseFrame("data", i)]
Flag == ResponseFrame("flagged", IF reply.ending = "trailers" THEN "own" ELSE "empty")
End == ResponseFrame("end", "own")
Error == ResponseFrame("error", "own")

ResponseTypes ==
    /\ call.type \in ContentType /\ call.length \in {"yes", "no"}
    /\ reply \in [frames : 0..MaxFrames, ending : {"end", "trailers", "error"}]
    /\ forwarded \in Headers \cup {None}
    /\ answered \in Headers \cup {None}

Polling == /\ sent = "no" /\ trailers = "none" /\ pos \in 0..reply.frames
           /\ out = Data(pos)
Captured == /\ sent = "no" /\ trailers = "own" /\ pos = reply.frames + 1
            /\ reply.ending = "trailers"
            /\ out = Data(reply.frames)
Flagged == /\ sent = "yes" /\ trailers = "none" /\ pos \in 0..reply.frames + 1
           /\ out = Append(Data(reply.frames), Flag)
Ended == /\ sent = "yes" /\ trailers = "none" /\ pos \in 0..reply.frames + 1
         /\ out = Append(Append(Data(reply.frames), Flag), End)
Failed == /\ sent = "no" /\ trailers = "none" /\ pos \in 0..reply.frames + 1
          /\ out = Append(Data(reply.frames), Error)

ResponseInv ==
    /\ ResponseTypes
    /\ HeadersFit
    /\ Polling \/ Captured \/ Flagged \/ Ended \/ Failed

Sent == { ResponseFrame("data", i) : i \in Nat } \cup {Flag, End, Error}

LEMMA DataIs ==
    ASSUME NEW n \in Nat
    PROVE  /\ Data(n) \in Seq(Sent) /\ Len(Data(n)) = n
           /\ \A i \in 1..n : Data(n)[i].as = "data"
           /\ Append(Data(n), ResponseFrame("data", n + 1)) = Data(n + 1)
           /\ ~Done(Data(n))
<1>1. \A i \in 1..n : ResponseFrame("data", i) \in Sent
  BY DEF Sent
<1>2. Data(n) \in Seq(Sent) /\ Len(Data(n)) = n /\ DOMAIN Data(n) = 1..n
  BY <1>1 DEF Data
<1>3. \A i \in 1..n : Data(n)[i].as = "data"
  BY DEF Data, ResponseFrame
<1>4. Append(Data(n), ResponseFrame("data", n + 1)) = Data(n + 1)
  BY <1>2 DEF Data
<1>5. ~Done(Data(n))
  <2>1. CASE n = 0
    <3>1. Data(n) = <<>>
      BY <1>2, <2>1
    <3> QED
      BY <3>1 DEF Done
  <2>2. CASE n # 0
    <3>1. Last(Data(n)) = Data(n)[n] /\ n \in 1..n
      BY <1>2, <2>2 DEF Last
    <3> QED
      BY <1>3, <3>1 DEF Done
  <2> QED
    BY <2>1, <2>2
<1> QED
  BY <1>2, <1>3, <1>4, <1>5

(* A frame that is not data is sent behind the data.                       *)
LEMMA Behind ==
    ASSUME NEW d \in Seq(Sent), NEW f \in Sent
    PROVE  /\ Append(d, f) \in Seq(Sent) /\ Len(Append(d, f)) = Len(d) + 1 /\ Len(d) \in Nat
           /\ Last(Append(d, f)) = f
           /\ \A i \in 1..Len(d) : Append(d, f)[i] = d[i]
           /\ Append(d, f)[Len(d) + 1] = f
           /\ f.as \in {"end", "error"} => Done(Append(d, f))
           /\ f.as \notin {"end", "error"} => ~Done(Append(d, f))
           /\ Append(d, f) = d \o <<f>>
<1> DEFINE t == Append(d, f)
<1>1. /\ t \in Seq(Sent) /\ Len(t) = Len(d) + 1 /\ Len(d) \in Nat
      /\ \A i \in 1..Len(d) : t[i] = d[i]
      /\ t[Len(d) + 1] = f
      /\ t = d \o <<f>> /\ t # <<>>
  OBVIOUS
<1> HIDE DEF t
<1>2. Last(t) = f
  BY <1>1 DEF Last
<1> QED
  BY <1>1, <1>2 DEF Done, t

LEMMA TrailersAreOnceAndLast ==
    ASSUME ResponseInv
    PROVE  TrailersOnceAndLast
<1>1. reply.frames \in Nat /\ pos \in Nat
  BY MaxFramesAssumption DEF ResponseInv, ResponseTypes, Polling, Captured, Flagged, Ended, Failed
<1>2. /\ Flag \in Sent /\ End \in Sent /\ Error \in Sent
      /\ Flag.as = "flagged" /\ End.as = "end" /\ Error.as = "error"
  BY DEF Sent, Flag, End, Error, ResponseFrame
<1>3. ASSUME NEW n \in Nat, out = Data(n)
      PROVE  TrailersOnceAndLast
  <2>1. DOMAIN out = 1..n /\ \A i \in 1..n : out[i].as = "data"
    BY <1>3, DataIs DEF Data
  <2>2. ~Done(out)
    BY <1>3, DataIs
  <2> QED
    BY <2>1, <2>2 DEF TrailersOnceAndLast
<1> DEFINE D == Data(reply.frames)
           F == Append(D, Flag)
           G == Append(F, End)
           E == Append(D, Error)
<1>4. /\ D \in Seq(Sent) /\ DOMAIN D = 1..Len(D) /\ Len(D) \in Nat
      /\ \A i \in 1..Len(D) : D[i].as = "data"
  <2>1. D \in Seq(Sent) /\ Len(D) = reply.frames /\ \A i \in 1..reply.frames : D[i].as = "data"
    BY <1>1, DataIs
  <2> HIDE DEF D
  <2> QED
    BY <1>1, <2>1
<1> HIDE DEF D
<1>5. /\ F \in Seq(Sent) /\ Len(F) = Len(D) + 1 /\ ~Done(F)
      /\ \A i \in 1..Len(D) : F[i] = D[i]
      /\ F[Len(D) + 1] = Flag /\ F = D \o <<Flag>>
  <2>1. D \in Seq(Sent) /\ Flag \in Sent /\ Flag.as \notin {"end", "error"}
    BY <1>2, <1>4
  <2> HIDE DEF E, G
  <2> QED
    BY <2>1, Behind
<1>6. /\ E \in Seq(Sent) /\ Len(E) = Len(D) + 1 /\ Last(E) = Error
      /\ \A i \in 1..Len(D) : E[i] = D[i]
      /\ E[Len(D) + 1] = Error
  <2>1. D \in Seq(Sent) /\ Error \in Sent
    BY <1>2, <1>4
  <2> HIDE DEF F, G
  <2> QED
    BY <2>1, Behind
<1> HIDE DEF F, E
<1>7. /\ G \in Seq(Sent) /\ Len(G) = Len(F) + 1
      /\ \A i \in 1..Len(F) : G[i] = F[i]
      /\ G[Len(F) + 1] = End
      /\ G = F \o <<End>>
  <2>1. F \in Seq(Sent) /\ End \in Sent
    BY <1>2, <1>5
  <2> QED
    BY <2>1, Behind
<1> HIDE DEF G
<1>8. CASE Polling \/ Captured
  BY <1>1, <1>3, <1>8 DEF Polling, Captured
<1>9. CASE Flagged
  <2>1. out = F
    BY <1>9 DEF Flagged, F, D
  <2>2. ASSUME NEW i \in DOMAIN F PROVE F[i].as # "trailers"
    <3>1. i \in 1..Len(F)
      BY <1>5
    <3> QED
      BY <1>2, <1>4, <1>5, <3>1
  <2> QED
    BY <1>5, <2>1, <2>2 DEF TrailersOnceAndLast
<1>10. CASE Failed
  <2>1. out = E
    BY <1>10 DEF Failed, E, D
  <2>2. ASSUME NEW i \in DOMAIN E PROVE E[i].as # "trailers"
    <3>1. i \in 1..Len(E)
      BY <1>6
    <3> QED
      BY <1>2, <1>4, <1>6, <3>1
  <2>3. Last(E).as # "end"
    BY <1>2, <1>6
  <2> QED
    BY <2>1, <2>2, <2>3 DEF TrailersOnceAndLast
<1>11. CASE Ended
  <2>1. out = G
    BY <1>11 DEF Ended, G, F, D
  <2>2. ASSUME NEW i \in DOMAIN G PROVE G[i].as # "trailers"
    <3>1. i \in 1..Len(D) \/ i = Len(D) + 1 \/ i = Len(D) + 2
      BY <1>4, <1>5, <1>7
    <3> QED
      BY <1>2, <1>4, <1>5, <1>7, <3>1
  <2>3. G = D \o <<Flag, End>>
    <3>1. ASSUME NEW S, NEW d \in Seq(S), NEW f, NEW g
          PROVE  Append(Append(d, f), g) = d \o <<f, g>>
      OBVIOUS
    <3>2. Append(Append(D, Flag), End) = D \o <<Flag, End>>
      BY <1>4, <3>1
    <3> QED
      BY <3>2 DEF G, F
  <2> QED
    BY <2>1, <2>2, <2>3 DEF TrailersOnceAndLast, D, Data, Flag, End
<1> QED
  BY <1>8, <1>9, <1>10, <1>11 DEF ResponseInv

LEMMA ResponseInit ==
    ASSUME Init
    PROVE  ResponseInv
<1>1. ResponseTypes
  BY TypesAssumption DEF Init, ResponseTypes
<1>2. HeadersFit
  BY DEF Init, HeadersFit
<1>3. Polling
  <2>1. Data(0) = <<>>
    BY DataIs
  <2> QED
    BY <1>1, <2>1, MaxFramesAssumption DEF Init, ResponseTypes, Polling
<1> QED
  BY <1>1, <1>2, <1>3 DEF ResponseInv

(* A response ends once, with its last frame.                              *)
LEMMA DoneIs ==
    ASSUME ResponseInv
    PROVE  /\ reply.frames \in Nat /\ pos \in Nat
           /\ Ended \/ Failed => Done(out)
<1>1. reply.frames \in Nat /\ pos \in Nat
  BY MaxFramesAssumption DEF ResponseInv, ResponseTypes, Polling, Captured, Flagged, Ended, Failed
<1>2. /\ Flag \in Sent /\ End \in Sent /\ Error \in Sent
      /\ End.as = "end" /\ Error.as = "error"
  BY DEF Sent, Flag, End, Error, ResponseFrame
<1> DEFINE D == Data(reply.frames)
           F == Append(D, Flag)
<1>3. D \in Seq(Sent)
  BY <1>1, DataIs
<1> HIDE DEF D
<1>4. F \in Seq(Sent) /\ Done(Append(D, Error))
  BY <1>2, <1>3, Behind
<1> HIDE DEF F
<1>5. Done(Append(F, End))
  BY <1>2, <1>4, Behind
<1> QED
  BY <1>1, <1>4, <1>5 DEF Ended, Failed, F, D

LEMMA PollEncodeInv ==
    ASSUME ResponseInv, PollEncode
    PROVE  ResponseInv'
<1>1. reply.frames \in Nat /\ pos \in Nat /\ (Ended \/ Failed => Done(out))
  BY DoneIs
<1>2. /\ UNCHANGED <<call, reply, forwarded, answered>>
      /\ ~Done(out)
  BY DEF PollEncode, SendTrailers, EncodeData, CaptureTrailers, InnerEnds, InnerFails, EndBody,
         PollsInner, Polled, request
<1>3. ResponseTypes' /\ HeadersFit'
  BY <1>2 DEF ResponseInv, ResponseTypes, HeadersFit, Mode, IsGrpcWeb
<1>4. Polling \/ Captured \/ Flagged
  BY <1>1, <1>2 DEF ResponseInv
<1>5. CASE SendTrailers
  <2>1. Captured /\ out' = Append(out, ResponseFrame("flagged", trailers))
        /\ trailers' = "none" /\ sent' = "yes" /\ pos' = pos
    BY <1>4, <1>5 DEF SendTrailers, Send, Polling, Flagged
  <2>2. Flag' = Flag /\ Data(reply.frames)' = Data(reply.frames)
        /\ Flag = ResponseFrame("flagged", trailers)
    BY <1>2, <2>1 DEF Flag, Data, Captured
  <2>3. pos' \in 0..reply.frames' + 1
    BY <1>1, <1>2, <2>1 DEF Captured
  <2> QED
    BY <1>2, <1>3, <2>1, <2>2, <2>3 DEF ResponseInv, Captured, Flagged
<1>6. CASE EncodeData
  <2>1. Polling /\ pos' = pos + 1 /\ out' = Append(out, ResponseFrame("data", pos + 1))
        /\ trailers' = "none" /\ sent' = "no" /\ pos < reply.frames
    BY <1>4, <1>6 DEF EncodeData, PollsInner, Send, Captured, Flagged, Polling
  <2>2. out' = Data(pos + 1)
    <3>1. out = Data(pos)
      BY <2>1 DEF Polling
    <3> QED
      BY <1>1, <2>1, <3>1, DataIs
  <2>3. pos' \in 0..reply.frames' /\ Data(pos)' = Data(pos + 1)
    BY <1>1, <1>2, <2>1 DEF Data
  <2> QED
    BY <1>3, <2>1, <2>2, <2>3 DEF ResponseInv, Polling
<1>7. CASE CaptureTrailers
  <2>1. Polling /\ pos' = pos + 1 /\ out' = out /\ reply.ending = "trailers"
        /\ trailers' = "own" /\ sent' = "no" /\ pos = reply.frames
    BY <1>4, <1>7 DEF CaptureTrailers, PollsInner, Captured, Flagged, Polling
  <2>2. out' = Data(reply.frames)' /\ pos' = reply.frames' + 1 /\ reply.ending' = "trailers"
    BY <1>2, <2>1 DEF Polling, Data
  <2> QED
    BY <1>3, <2>1, <2>2 DEF ResponseInv, Captured
<1>8. CASE InnerEnds
  <2>1. Polling /\ pos' = pos /\ out' = Append(out, ResponseFrame("flagged", "empty"))
        /\ trailers' = "none" /\ sent' = "yes" /\ pos = reply.frames /\ reply.ending = "end"
    BY <1>4, <1>8 DEF InnerEnds, PollsInner, Send, Captured, Flagged, Polling
  <2>2. out' = Append(Data(reply.frames), Flag)' /\ pos' \in 0..reply.frames' + 1
    BY <1>1, <1>2, <2>1 DEF Polling, Data, Flag
  <2> QED
    BY <1>3, <2>1, <2>2 DEF ResponseInv, Flagged
<1>9. CASE InnerFails
  <2>1. Polling /\ pos' = pos /\ out' = Append(out, Error)
        /\ trailers' = "none" /\ sent' = "no" /\ pos = reply.frames
    BY <1>4, <1>9 DEF InnerFails, PollsInner, Send, Captured, Flagged, Polling, Error
  <2>2. out' = Append(Data(reply.frames), Error)' /\ pos' \in 0..reply.frames' + 1
    BY <1>1, <1>2, <2>1 DEF Polling, Data, Error
  <2> QED
    BY <1>3, <2>1, <2>2 DEF ResponseInv, Failed
<1>10. CASE EndBody
  <2>1. Flagged /\ pos' = pos /\ out' = Append(out, End)
        /\ trailers' = "none" /\ sent' = "yes"
    BY <1>4, <1>10 DEF EndBody, Send, Captured, Flagged, Polling, End
  <2>2. out' = Append(Append(Data(reply.frames), Flag), End)' /\ pos' \in 0..reply.frames' + 1
    BY <1>2, <2>1 DEF Flagged, Data, Flag, End
  <2> QED
    BY <1>3, <2>1, <2>2 DEF ResponseInv, Ended
<1> QED
  BY <1>5, <1>6, <1>7, <1>8, <1>9, <1>10 DEF PollEncode

LEMMA ResponseNext ==
    ASSUME ResponseInv, [Next]_vars
    PROVE  ResponseInv'
<1> USE DEF vars, request, response
<1>1. ASSUME UNCHANGED <<call, reply, pos, trailers, sent, out>>,
             ResponseTypes', HeadersFit'
      PROVE  ResponseInv'
  <2>1. UNCHANGED <<Polling, Captured, Flagged, Ended, Failed>>
    BY <1>1 DEF Polling, Captured, Flagged, Ended, Failed, Data, Flag, End, Error
  <2> QED
    BY <1>1, <2>1 DEF ResponseInv
<1>2. CASE Forward
  <2>1. UNCHANGED <<call, reply, answered, pos, trailers, sent, out>>
    BY <1>2 DEF Forward
  <2>2. forwarded' \in Headers
    BY <1>2 DEF Forward, Headers, ContentType, ResponseInv, ResponseTypes
  <2>3. Mode = "base64" => forwarded'.length = "no"
    BY <1>2 DEF Forward, Mode
  <2> QED
    BY <1>1, <2>1, <2>2, <2>3 DEF ResponseInv, ResponseTypes, HeadersFit, Mode, IsGrpcWeb
<1>3. CASE Answer
  <2>1. UNCHANGED <<call, reply, forwarded, pos, trailers, sent, out>>
    BY <1>3 DEF Answer
  <2>2. answered' \in Headers
    BY <1>3 DEF Answer, Headers, ContentType
  <2>3. Encoding(answered'.type) = Mode
    BY <1>3 DEF Answer, Mode, Encoding
  <2>4. Mode' = Mode
    BY <2>1 DEF Mode, IsGrpcWeb
  <2>5. HeadersFit'
    BY <2>1, <2>3, <2>4 DEF ResponseInv, HeadersFit, Encoding
  <2>6. ResponseTypes'
    BY <2>1, <2>2 DEF ResponseInv, ResponseTypes
  <2> QED
    BY <1>1, <2>1, <2>5, <2>6
<1>4. CASE PollDecode \/ UNCHANGED vars
  <2>1. UNCHANGED <<call, reply, forwarded, answered, pos, trailers, sent, out>>
    BY <1>4 DEF PollDecode, PassBinary, DecodeAlone, DecodeCarried, Carry, Arrives, RequestEnds
  <2> QED
    BY <1>1, <2>1 DEF ResponseInv, ResponseTypes, HeadersFit, Mode, IsGrpcWeb
<1> QED
  BY <1>2, <1>3, <1>4, PollEncodeInv DEF Next
-----------------------------------------------------------------------------
LEMMA InvariantsHold == Spec => [](RequestInv /\ ResponseInv)
<1>1. Init => RequestInv /\ ResponseInv
  BY RequestInit, ResponseInit
<1>2. RequestInv /\ ResponseInv /\ [Next]_vars => (RequestInv /\ ResponseInv)'
  BY RequestNext, ResponseNext
<1> QED
  BY <1>1, <1>2, PTL DEF Spec

LEMMA TypesAreRight ==
    ASSUME RequestInv, ResponseInv
    PROVE  TypeOK
<1>1. /\ read \in 0..Len(call.body) /\ Len(call.body) \in Nat /\ call.body \in Texts
      /\ Len(buf) < Group /\ jumped \in {"yes", "no"}
      /\ forwarded \in Headers \cup {None} /\ answered \in Headers \cup {None}
  BY Bounds DEF RequestInv, RequestTypes, ResponseInv, ResponseTypes
<1>2. buf \in Seq(1..Len(call.body))
  <2>1. 1..read \subseteq 1..Len(call.body) /\ buf \in Seq(1..read)
    BY Bounds
  <2> QED
    BY <2>1, Widen
<1>3. ASSUME NEW i \in DOMAIN decoded
      PROVE  /\ decoded[i].as \in {"decoded", "raw", "trailers", "end", "error"}
             /\ decoded[i].as = "decoded" => Len(decoded[i].at) % Group = 0
  <2>1. decoded \in Seq(Frames(read))
    BY Bounds
  <2>2. i \in 1..Len(decoded) /\ decoded[i] \in Frames(read)
    BY <2>1
  <2> QED
    BY <2>2 DEF RequestInv, RequestTypes, Frames
<1>4. /\ pos \in 0..reply.frames + 1
      /\ trailers \in {"none", "own", "empty"} /\ sent \in {"yes", "no"}
  BY DoneIs DEF ResponseInv, Polling, Captured, Flagged, Ended, Failed
<1> QED
  BY <1>1, <1>2, <1>3, <1>4 DEF TypeOK

(* However a request is cut into chunks, every character of it that has    *)
(* come is in one frame or carried over.  Unless a chunk that can be       *)
(* decoded by itself overtakes the carry, they are in their order, and a   *)
(* text that is base64 is decoded group by group, with nothing passed on   *)
(* as it is and nothing left behind at its end (call.rs:95-135).           *)
THEOREM RequestIsDecoded == Spec => []RequestArrives
<1>1. RequestInv /\ ResponseInv => RequestArrives
  BY TypesAreRight, RequestUsed DEF RequestArrives
<1> QED
  BY <1>1, InvariantsHold, PTL

(* A response that ends has its status once, behind all its data, and its  *)
(* headers say how the body is encoded (call.rs:161-201, service.rs:77-113).*)
THEOREM ResponseIsEncoded == Spec => []ResponseArrives
<1>1. ResponseInv => ResponseArrives
  BY TrailersAreOnceAndLast DEF ResponseInv, ResponseArrives
<1> QED
  BY <1>1, InvariantsHold, PTL
=============================================================================
