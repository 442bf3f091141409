----------------------------- MODULE H3CallProofs -----------------------------
(***************************************************************************)
(* Theorems about `H3Call` for any bodies, timers and window: what the two *)
(* ends of a call over HTTP/3 know of each other, also when the connection *)
(* is lost or one of them gives up.                                        *)
(***************************************************************************)
EXTENDS H3Call, FiniteSetTheorems, TLAPS

-----------------------------------------------------------------------------
(* Frames on their way.                                                    *)
Frame == {"head", "error head", "data", "trailers", "error trailers", "fin", "reset"}
Final == {"trailers", "error trailers", "fin"}

Datas(s) == { i \in DOMAIN s : s[i] = "data" }
Count(s) == Cardinality(Datas(s))
Has(s, F) == \E i \in 1..Len(s) : s[i] \in F
DataFirst(s) == \A i, j \in 1..Len(s) : i < j /\ s[i] \in Final => s[j] # "data"

(* A stream is not finished without a status in front of the end.          *)
StatusFirst(s) ==
    \A i \in 1..Len(s) : s[i] = "fin" =>
        i > 1 /\ s[i - 1] \in {"trailers", "error trailers", "error head"}

LEMMA Appended ==
    ASSUME NEW S, NEW s \in Seq(S), NEW e \in S
    PROVE  /\ Append(s, e) \in Seq(S) /\ Len(Append(s, e)) = Len(s) + 1 /\ Len(s) \in Nat
           /\ \A i \in 1..Len(s) : Append(s, e)[i] = s[i]
           /\ Append(s, e)[Len(s) + 1] = e
OBVIOUS

LEMMA Single ==
    ASSUME NEW S, NEW e \in S
    PROVE  Append(<<>>, e) = <<e>>
OBVIOUS

LEMMA AppendIs ==
    ASSUME NEW S, NEW s \in Seq(S), NEW e \in S
    PROVE  s \o <<e>> = Append(s, e) /\ s \o <<>> = s
OBVIOUS

LEMMA HeadOfSingle ==
    ASSUME NEW e
    PROVE  Head(<<e>>) = e
OBVIOUS

LEMMA Taken ==
    ASSUME NEW S, NEW s \in Seq(S), s # <<>>
    PROVE  /\ Tail(s) \in Seq(S) /\ Len(Tail(s)) = Len(s) - 1
           /\ Len(s) \in Nat \ {0} /\ Len(Tail(s)) \in Nat
           /\ Head(s) = s[1] /\ Head(s) \in S /\ 1 \in 1..Len(s)
           /\ \A i \in 1..Len(Tail(s)) : Tail(s)[i] = s[i + 1]
OBVIOUS

LEMMA Concat ==
    ASSUME NEW S, NEW a \in Seq(S), NEW c \in Seq(S)
    PROVE  /\ a \o c \in Seq(S) /\ Len(a \o c) = Len(a) + Len(c)
           /\ Len(a) \in Nat /\ Len(c) \in Nat
           /\ \A k \in 1..Len(a) : (a \o c)[k] = a[k]
           /\ \A k \in 1..Len(c) : (a \o c)[Len(a) + k] = c[k]
OBVIOUS

LEMMA Prefix ==
    ASSUME NEW S, NEW s \in Seq(S), NEW n \in 0..Len(s)
    PROVE  /\ SubSeq(s, 1, n) \in Seq(S) /\ Len(SubSeq(s, 1, n)) = n
           /\ \A i \in 1..n : SubSeq(s, 1, n)[i] = s[i]
OBVIOUS

LEMMA CountIsNat ==
    ASSUME NEW s \in Seq(Frame)
    PROVE  /\ IsFiniteSet(Datas(s)) /\ Count(s) \in Nat /\ DOMAIN s = 1..Len(s)
           /\ Datas(s) \subseteq 1..Len(s)
<1>1. Len(s) \in Nat /\ DOMAIN s = 1..Len(s)
  OBVIOUS
<1>2. IsFiniteSet(1..Len(s))
  BY <1>1, FS_Interval
<1>3. Datas(s) \subseteq 1..Len(s)
  BY <1>1 DEF Datas
<1>4. IsFiniteSet(Datas(s))
  BY <1>2, <1>3, FS_Subset
<1> QED
  BY <1>1, <1>3, <1>4, FS_CardinalityType DEF Count

LEMMA Before ==
    ASSUME NEW L \in Nat, NEW i \in 1..L, i > 1
    PROVE  i - 1 \in 1..L
OBVIOUS

LEMMA AppendFrame ==
    ASSUME NEW s \in Seq(Frame), NEW f \in Frame
    PROVE  LET t == Append(s, f)
           IN  /\ t \in Seq(Frame)
               /\ Count(t) = IF f = "data" THEN Count(s) + 1 ELSE Count(s)
               /\ \A F : Has(t, F) <=> Has(s, F) \/ f \in F
               /\ DataFirst(s) /\ (f = "data" => ~Has(s, Final)) => DataFirst(t)
               /\ StatusFirst(s) /\ f # "fin" => StatusFirst(t)
               /\ StatusFirst(s) /\ s # <<>>
                      /\ s[Len(s)] \in {"trailers", "error trailers", "error head"}
                      => StatusFirst(t)
<1> DEFINE t == Append(s, f)
           L == Len(s)
<1>1. /\ t \in Seq(Frame) /\ Len(t) = L + 1 /\ L \in Nat
      /\ \A i \in 1..L : t[i] = s[i]
      /\ t[L + 1] = f
  BY Appended
<1>2. DOMAIN t = 1..L + 1 /\ DOMAIN s = 1..L
  BY <1>1
<1>3. s # <<>> => L > 0
  BY <1>1
<1> HIDE DEF t
<1>4. ASSUME f = "data" PROVE Count(t) = Count(s) + 1
  <2>1. Datas(t) = Datas(s) \cup {L + 1}
    BY <1>1, <1>2, <1>4 DEF Datas
  <2>2. L + 1 \notin Datas(s)
    BY <1>1, <1>2 DEF Datas
  <2> QED
    BY <2>1, <2>2, CountIsNat, FS_AddElement DEF Count
<1>5. ASSUME f # "data" PROVE Count(t) = Count(s)
  <2>1. Datas(t) = Datas(s)
    BY <1>1, <1>2, <1>5 DEF Datas
  <2> QED
    BY <2>1 DEF Count
<1>6. ASSUME NEW F PROVE Has(t, F) <=> Has(s, F) \/ f \in F
  <2>1. ASSUME Has(t, F) PROVE Has(s, F) \/ f \in F
    BY <1>1, <2>1 DEF Has
  <2>2. ASSUME Has(s, F) PROVE Has(t, F)
    <3>1. PICK i \in 1..L : s[i] \in F
      BY <2>2 DEF Has
    <3>2. i \in 1..Len(t) /\ t[i] \in F
      BY <1>1, <3>1
    <3> QED
      BY <3>2 DEF Has
  <2>3. ASSUME f \in F PROVE Has(t, F)
    <3>1. L + 1 \in 1..Len(t) /\ t[L + 1] \in F
      BY <1>1, <2>3
    <3> QED
      BY <3>1 DEF Has
  <2> QED
    BY <2>1, <2>2, <2>3
<1>7. ASSUME DataFirst(s), f = "data" => ~Has(s, Final) PROVE DataFirst(t)
  BY <1>1, <1>7 DEF DataFirst, Has
<1>8. ASSUME StatusFirst(s), f # "fin" PROVE StatusFirst(t)
  <2>1. ASSUME NEW i \in 1..Len(t), t[i] = "fin"
        PROVE  i > 1 /\ t[i - 1] \in {"trailers", "error trailers", "error head"}
    <3>1. i \in 1..L /\ s[i] = "fin"
      BY <1>1, <1>8, <2>1
    <3>2. i > 1 /\ s[i - 1] \in {"trailers", "error trailers", "error head"}
      BY <1>8, <3>1 DEF StatusFirst
    <3>3. i - 1 \in 1..L
      BY <1>1, <3>1, <3>2, Before
    <3> QED
      BY <1>1, <3>2, <3>3
  <2> QED
    BY <2>1 DEF StatusFirst
<1>9. ASSUME StatusFirst(s), s # <<>>,
             s[Len(s)] \in {"trailers", "error trailers", "error head"}
      PROVE  StatusFirst(t)
  <2>1. ASSUME NEW i \in 1..Len(t), t[i] = "fin"
        PROVE  i > 1 /\ t[i - 1] \in {"trailers", "error trailers", "error head"}
    <3>1. CASE i = L + 1
      <4>1. L \in 1..L /\ i - 1 = L /\ i > 1
        <5>1. L \in Nat /\ L > 0 /\ i = L + 1
          BY <1>1, <1>3, <1>9, <3>1
        <5> QED
          BY <5>1
      <4> QED
        BY <1>1, <1>9, <4>1
    <3>2. CASE i # L + 1
      <4>1. i \in 1..L /\ s[i] = "fin"
        BY <1>1, <2>1, <3>2
      <4>2. i > 1 /\ s[i - 1] \in {"trailers", "error trailers", "error head"}
        BY <1>9, <4>1 DEF StatusFirst
      <4>3. i - 1 \in 1..L
        BY <1>1, <4>1, <4>2, Before
      <4> QED
        BY <1>1, <4>2, <4>3
    <3> QED
      BY <3>1, <3>2
  <2> QED
    BY <2>1 DEF StatusFirst
<1> QED
  BY <1>1, <1>4, <1>5, <1>6, <1>7, <1>8, <1>9 DEF t

(* Final frames come behind all data.                                      *)
LEMMA NoDataLeft ==
    ASSUME NEW s \in Seq(Frame), DataFirst(s), s # <<>>, Head(s) \in Final
    PROVE  Count(s) = 0
<1>1. Len(s) \in Nat \ {0} /\ Head(s) = s[1] /\ DOMAIN s = 1..Len(s) /\ 1 \in 1..Len(s)
  OBVIOUS
<1>2. ASSUME NEW i \in 1..Len(s) PROVE s[i] # "data"
  <2>1. s[1] \in Final
    BY <1>1
  <2>2. CASE i = 1
    BY <2>1, <2>2 DEF Final
  <2>3. CASE i # 1
    <3>1. 1 < i
      BY <1>1, <2>3
    <3> QED
      BY <1>1, <2>1, <3>1 DEF DataFirst
  <2> QED
    BY <2>2, <2>3
<1>3. Datas(s) = {}
  BY <1>1, <1>2 DEF Datas
<1> QED
  BY <1>3, FS_EmptySet DEF Count

LEMMA EndIsNotFirst ==
    ASSUME NEW s \in Seq(Frame), StatusFirst(s), s # <<>>
    PROVE  Head(s) # "fin"
<1>1. Len(s) \in Nat \ {0} /\ Head(s) = s[1]
  OBVIOUS
<1>2. 1 \in 1..Len(s) /\ ~(1 > 1)
  BY <1>1
<1> QED
  BY <1>1, <1>2 DEF StatusFirst

LEMMA NothingMore ==
    ASSUME NEW n \in Nat, NEW m, m = 0, NEW r, n + m = r
    PROVE  n = r
OBVIOUS

LEMMA TakeFrame ==
    ASSUME NEW s \in Seq(Frame), s # <<>>
    PROVE  LET t == Tail(s)
           IN  /\ t \in Seq(Frame)
               /\ Count(s) = IF Head(s) = "data" THEN Count(t) + 1 ELSE Count(t)
               /\ \A F : Has(t, F) => Has(s, F)
               /\ DataFirst(s) => DataFirst(t)
               /\ StatusFirst(s) /\ Head(s) \notin {"trailers", "error trailers", "error head"}
                      => StatusFirst(t)
<1> DEFINE t == Tail(s)
<1>1. /\ t \in Seq(Frame) /\ Len(t) = Len(s) - 1
      /\ Len(s) \in Nat \ {0} /\ Len(t) \in Nat
      /\ Head(s) = s[1] /\ Head(s) \in Frame
      /\ \A i \in 1..Len(t) : t[i] = s[i + 1]
  BY Taken
<1>2. DOMAIN s = 1..Len(s) /\ DOMAIN t = 1..Len(t) /\ \A i \in 1..Len(t) : i + 1 \in 1..Len(s)
  BY <1>1
<1> HIDE DEF t
<1>3. Cardinality(Datas(t)) = Cardinality(Datas(s) \ {1}) /\ IsFiniteSet(Datas(s) \ {1})
  <2> DEFINE D == Datas(s) \ {1}
             g == [i \in D |-> i - 1]
  <2>1. \A i \in D : i \in 2..Len(s) /\ s[i] = "data"
    BY <1>1, <1>2 DEF Datas
  <2>2. g \in [D -> Datas(t)]
    <3>1. ASSUME NEW i \in D PROVE i - 1 \in Datas(t)
      <4>1. i - 1 \in 1..Len(t) /\ (i - 1) + 1 = i
        BY <1>1, <2>1
      <4>2. t[i - 1] = "data"
        BY <1>1, <2>1, <4>1
      <4> QED
        BY <1>2, <4>1, <4>2 DEF Datas
    <3> QED
      BY <3>1
  <2>3. \A i, j \in D : g[i] = g[j] => i = j
    BY <2>1
  <2>4. \A k \in Datas(t) : \E i \in D : g[i] = k
    <3>1. ASSUME NEW k \in Datas(t) PROVE k + 1 \in D /\ g[k + 1] = k
      <4>1. k \in 1..Len(t) /\ t[k] = "data"
        BY <1>2 DEF Datas
      <4>2. k + 1 \in 1..Len(s) /\ s[k + 1] = "data" /\ k + 1 # 1 /\ (k + 1) - 1 = k
        BY <1>1, <1>2, <4>1
      <4>3. k + 1 \in D
        BY <1>2, <4>2 DEF Datas
      <4> QED
        BY <4>2, <4>3
    <3> QED
      BY <3>1
  <2>5. IsFiniteSet(D)
    BY CountIsNat, FS_RemoveElement
  <2> HIDE DEF D, g
  <2>6. g \in Bijection(D, Datas(t))
    BY <2>2, <2>3, <2>4 DEF Bijection, Injection, Surjection, IsInjective
  <2>7. ExistsBijection(D, Datas(t))
    BY <2>6 DEF ExistsBijection
  <2>8. Cardinality(Datas(t)) = Cardinality(D)
    BY <2>5, <2>7, FS_Bijection
  <2> QED
    BY <2>5, <2>8 DEF D
<1>4. Count(s) = IF Head(s) = "data" THEN Count(t) + 1 ELSE Count(t)
  <2>1. Cardinality(Datas(s) \ {1})
            = IF 1 \in Datas(s) THEN Cardinality(Datas(s)) - 1 ELSE Cardinality(Datas(s))
    BY CountIsNat, FS_RemoveElement
  <2>2. 1 \in Datas(s) <=> Head(s) = "data"
    BY <1>1, <1>2 DEF Datas
  <2>3. Count(s) \in Nat
    BY CountIsNat
  <2> QED
    BY <1>3, <2>1, <2>2, <2>3 DEF Count
<1>5. ASSUME NEW F, Has(t, F) PROVE Has(s, F)
  <2>1. PICK i \in 1..Len(t) : t[i] \in F
    BY <1>5 DEF Has
  <2>2. i + 1 \in 1..Len(s) /\ s[i + 1] \in F
    BY <1>1, <1>2, <2>1
  <2> QED
    BY <2>2 DEF Has
<1>6. ASSUME DataFirst(s) PROVE DataFirst(t)
  <2>1. ASSUME NEW i \in 1..Len(t), NEW j \in 1..Len(t), i < j, t[i] \in Final
        PROVE  t[j] # "data"
    <3>1. i + 1 \in 1..Len(s) /\ j + 1 \in 1..Len(s) /\ i + 1 < j + 1 /\ s[i + 1] \in Final
      BY <1>1, <1>2, <2>1
    <3>2. s[j + 1] # "data"
      BY <1>6, <3>1 DEF DataFirst
    <3> QED
      BY <1>1, <3>2
  <2> QED
    BY <2>1 DEF DataFirst
<1>7. ASSUME StatusFirst(s), Head(s) \notin {"trailers", "error trailers", "error head"}
      PROVE  StatusFirst(t)
  <2>1. ASSUME NEW i \in 1..Len(t), t[i] = "fin"
        PROVE  i > 1 /\ t[i - 1] \in {"trailers", "error trailers", "error head"}
    <3>1. i + 1 \in 1..Len(s) /\ s[i + 1] = "fin" /\ (i + 1) - 1 = i
      BY <1>1, <1>2, <2>1
    <3>2. s[i] \in {"trailers", "error trailers", "error head"}
      BY <1>7, <3>1 DEF StatusFirst
    <3>3. i # 1
      BY <1>1, <1>7, <3>2
    <3>4. i > 1 /\ i - 1 \in 1..Len(t) /\ (i - 1) + 1 = i
      BY <1>1, <3>3
    <3> QED
      BY <1>1, <3>2, <3>4
  <2> QED
    BY <2>1 DEF StatusFirst
<1> QED
  BY <1>1, <1>4, <1>5, <1>6, <1>7 DEF t

(* What is left of the frames when the connection is lost.                 *)
LEMMA CutFrames ==
    ASSUME NEW s \in Seq(Frame), NEW n \in 0..Len(s)
    PROVE  LET t == Append(SubSeq(s, 1, n), "reset")
           IN  /\ t \in Seq(Frame)
               /\ Count(t) <= Count(s) /\ Count(t) \in Nat /\ Count(s) \in Nat
               /\ DataFirst(s) /\ Has(t, Final) => Count(t) = Count(s)
               /\ \A F : Has(t, F) => Has(s, F) \/ "reset" \in F
               /\ DataFirst(s) => DataFirst(t)
               /\ StatusFirst(s) => StatusFirst(t)
<1> DEFINE p == SubSeq(s, 1, n)
           t == Append(p, "reset")
<1>1. /\ p \in Seq(Frame) /\ Len(p) = n /\ \A i \in 1..n : p[i] = s[i]
      /\ n \in Nat /\ n <= Len(s) /\ Len(s) \in Nat
  <2>1. p \in Seq(Frame) /\ Len(p) = n /\ \A i \in 1..n : p[i] = s[i]
    BY Prefix
  <2>2. Len(s) \in Nat
    OBVIOUS
  <2> QED
    BY <2>1, <2>2
<1> HIDE DEF p
<1>2. /\ t \in Seq(Frame) /\ Count(t) = Count(p)
      /\ \A F : Has(t, F) <=> Has(p, F) \/ "reset" \in F
      /\ DataFirst(p) => DataFirst(t)
      /\ StatusFirst(p) => StatusFirst(t)
  BY <1>1, AppendFrame DEF Frame
<1>3. Datas(p) \subseteq Datas(s)
  <2>1. DOMAIN p = 1..n /\ DOMAIN s = 1..Len(s)
    BY <1>1
  <2> QED
    BY <1>1, <2>1 DEF Datas
<1>4. Count(p) <= Count(s) /\ Count(p) \in Nat /\ Count(s) \in Nat
  BY <1>1, <1>3, CountIsNat, FS_Subset DEF Count
<1>5. ASSUME DataFirst(s), Has(t, Final) PROVE Count(p) = Count(s)
  <2>1. Has(p, Final)
    BY <1>2, <1>5 DEF Final
  <2>2. PICK i \in 1..n : p[i] \in Final
    BY <1>1, <2>1 DEF Has
  <2>3. i \in 1..Len(s) /\ s[i] \in Final
    BY <1>1, <2>2
  <2>4. ASSUME NEW j \in Datas(s) PROVE j \in Datas(p)
    <3>1. j \in 1..Len(s) /\ s[j] = "data"
      BY CountIsNat DEF Datas
    <3>2. ~(i < j)
      BY <1>5, <2>3, <3>1 DEF DataFirst
    <3>3. j \in 1..n
      BY <1>1, <2>2, <3>1, <3>2
    <3> QED
      BY <1>1, <3>1, <3>3, CountIsNat DEF Datas
  <2>5. Datas(p) = Datas(s)
    BY <1>3, <2>4
  <2> QED
    BY <2>5 DEF Count
<1>6. ASSUME NEW F, Has(p, F) PROVE Has(s, F)
  <2>1. PICK i \in 1..n : p[i] \in F
    BY <1>1, <1>6 DEF Has
  <2>2. i \in 1..Len(s) /\ s[i] \in F
    BY <1>1, <2>1
  <2> QED
    BY <2>2 DEF Has
<1>7. ASSUME DataFirst(s) PROVE DataFirst(p)
  BY <1>1, <1>7 DEF DataFirst
<1>8. ASSUME StatusFirst(s) PROVE StatusFirst(p)
  <2>1. ASSUME NEW i \in 1..n, p[i] = "fin"
        PROVE  i > 1 /\ p[i - 1] \in {"trailers", "error trailers", "error head"}
    <3>1. i \in 1..Len(s) /\ s[i] = "fin"
      BY <1>1, <2>1
    <3>2. i > 1 /\ s[i - 1] \in {"trailers", "error trailers", "error head"}
      BY <1>8, <3>1 DEF StatusFirst
    <3>3. i - 1 \in 1..n
      BY <1>1, <3>2, Before
    <3> QED
      BY <1>1, <3>2, <3>3
  <2> QED
    BY <1>1, <2>1 DEF StatusFirst
<1> QED
  BY <1>2, <1>4, <1>5, <1>6, <1>7, <1>8 DEF t, p

LEMMA DataOfIs ==
    ASSUME NEW s \in Seq(Item), NEW n \in 0..Len(s),
           \A j \in 1..n : s[j] = "data",
           n < Len(s) => s[n + 1] # "data"
    PROVE  DataOf(s) = n
<1>1. Len(s) \in Nat /\ DOMAIN s = 1..Len(s) /\ n \in Nat /\ n <= Len(s)
  OBVIOUS
<1> DEFINE A == { i \in DOMAIN s : \A j \in 1..i : s[j] = "data" }
<1>2. A = 1..n
  <2>1. ASSUME NEW i \in 1..n PROVE i \in A
    <3>1. i \in DOMAIN s /\ \A j \in 1..i : j \in 1..n
      BY <1>1
    <3> QED
      BY <3>1
  <2>2. ASSUME NEW i \in A PROVE i \in 1..n
    <3>1. i \in 1..Len(s)
      BY <1>1
    <3>2. CASE i > n
      <4>1. n + 1 \in 1..i /\ n < Len(s)
        BY <1>1, <3>1, <3>2
      <4> QED
        BY <4>1
    <3> QED
      BY <1>1, <3>1, <3>2
  <2> QED
    BY <2>1, <2>2
<1>3. Cardinality(1..n) = IF 1 > n THEN 0 ELSE n - 1 + 1
  BY <1>1, FS_Interval
<1>4. Cardinality(1..n) = n
  BY <1>1, <1>3
<1> QED
  BY <1>2, <1>4 DEF DataOf
-----------------------------------------------------------------------------
(* The invariant: what is on its way is what has been sent and not been    *)
(* read, and what stands at its end says what the sender knew.             *)
YesNo == {"yes", "no"}
Outcome == {"none", "ok", "error", "no status", "transport error", "deadline exceeded"}

Types ==
    /\ service \in {"echo", "whole", "early"}
    /\ script \in Seq(Item) /\ body \in Seq(Item) /\ reply \in Seq(Item)
    /\ sender \in {"sending", "finishing", "done"} /\ yielded \in Nat
    /\ call \in {"waiting", "reading", "done", "gone"} /\ result \in Outcome
    /\ wire \in [Ends -> Seq(Frame)]
    /\ reader \in [Ends -> [dataDone : YesNo, trailersDone : YesNo, awake : YesNo]]
    /\ got \in [Ends -> Nat] /\ replied \in Nat
    /\ request \in {"unknown", "whole", "error"}
    /\ server \in {"call", "loop", "finishing", "ended"}
    /\ kept \in {"none", "trailers", "error trailers"}
    /\ lost \in YesNo

(* The request: a stream that the client finishes holds all that its body  *)
(* yielded, and a service that sees it end has read all of that.           *)
RequestSide ==
    /\ DataFirst(wire["server"]) /\ Count(wire["server"]) <= Window
    /\ lost = "no" \/ Has(wire["server"], Final) =>
           got["server"] + Count(wire["server"]) = yielded
    /\ Has(wire["server"], Final) => sender # "sending" /\ yielded = DataOf(script)
    /\ sender = "finishing" => yielded = DataOf(script) \/ Deaf("server")
    /\ sender = "sending" =>
           /\ Len(body) = Len(script) - yielded /\ yielded <= Len(script)
           /\ \A i \in 1..Len(body) : body[i] = script[yielded + i]
           /\ \A i \in 1..yielded : script[i] = "data"
    /\ request = "unknown" /\ reader["server"].trailersDone = "yes"
           => got["server"] = DataOf(script)
    /\ RequestIsWhole

(* The response as the server makes it: there is a status at the end, and  *)
(* an echo has as many data as the service has read.                       *)
HasStatus(items) == \E i \in 1..Len(items) : items[i] \in {"trailers", "error"}
EchoReads == service = "echo" /\ request = "unknown"

ReplySide ==
    /\ kept = "trailers" =>
           /\ verdict = "trailers"
           /\ service = "echo" => request = "whole" /\ replied = got["server"]
    /\ kept = "error trailers" => verdict = "error"
    /\ server = "call" =>
           /\ kept = "none"
           /\ service = "early" \/ (service = "whole" /\ request = "whole") => HasStatus(reply)
           /\ service = "echo" => request = "unknown" /\ reply = <<>> /\ replied = got["server"]
    /\ server = "loop" =>
           /\ EchoReads => /\ kept = "none" /\ reply \in {<<>>, <<"data">>}
                           /\ got["server"] = replied + Len(reply)
           /\ ~EchoReads => kept # "none" \/ HasStatus(reply)
           /\ service = "echo" /\ request = "whole" =>
                  replied = got["server"] /\ reply \in {<<>>, <<"trailers">>}
           /\ service = "echo" /\ request = "error" => kept = "none" /\ reply = <<"error">>

(* The response as the client gets it.                                     *)
ClientSide ==
    /\ DataFirst(wire["client"]) /\ Count(wire["client"]) <= Window
    /\ lost = "no" \/ Has(wire["client"], Final) =>
           got["client"] + Count(wire["client"]) = replied
    /\ Has(wire["client"], {"trailers"}) => server = "ended" /\ kept = "trailers"
    /\ Has(wire["client"], {"error trailers"}) => server = "ended" /\ kept = "error trailers"
    /\ Has(wire["client"], {"fin"}) => server = "ended"
    /\ Has(wire["client"], {"error head"}) =>
           server \in {"finishing", "ended"} /\ verdict = "error"
    /\ call \in {"waiting", "reading"} =>
           StatusFirst(wire["client"]) /\ reader["client"].trailersDone = "no"
    /\ server = "call" => lost = "yes" \/ wire["client"] = <<>>
    /\ server = "finishing" /\ kept = "none" =>
           \/ Deaf("client") \/ call \in {"done", "gone"}
           \/ wire["client"] = <<"error head">>
    /\ result = "ok" =>
           call = "done" /\ server = "ended" /\ kept = "trailers" /\ got["client"] = replied
    /\ result = "error" => server \in {"finishing", "ended"} /\ verdict = "error"
    /\ result # "no status"

IInv == Types /\ RequestSide /\ ReplySide /\ ClientSide

LEMMA Typed ==
    ASSUME Types, NEW e \in Ends
    PROVE  /\ wire[e] \in Seq(Frame) /\ got[e] \in Nat /\ Count(wire[e]) \in Nat
           /\ reader[e].trailersDone \in YesNo /\ reader[e].dataDone \in YesNo
           /\ Window \in Nat \ {0}
<1>1. wire[e] \in Seq(Frame) /\ got[e] \in Nat
  BY DEF Types
<1>2. reader[e] \in [dataDone : YesNo, trailersDone : YesNo, awake : YesNo]
  BY DEF Types
<1> QED
  BY <1>1, <1>2, CountIsNat, H3CallAssumption

(* `Room` counts what Count counts.                                        *)
LEMMA RoomIs ==
    ASSUME NEW e
    PROVE  Room(e) <=> Count(wire[e]) < Window
BY DEF Room, Count, Datas

LEMMA InitIInv ==
    ASSUME Init
    PROVE  IInv
<1>1. /\ service \in Services /\ script \in Bodies /\ body = script
      /\ sender = "sending" /\ yielded = 0 /\ call = "waiting" /\ result = "none"
      /\ wire = [e \in Ends |-> <<>>] /\ stopped = {}
      /\ reader = [e \in Ends |-> Fresh] /\ got = [e \in Ends |-> 0]
      /\ request = "unknown" /\ server = "call" /\ kept = "none"
      /\ reply \in (IF service = "early" THEN Replies ELSE {<<>>})
      /\ replied = 0 /\ verdict = "none" /\ lost = "no"
  BY DEF Init
<1>2. script \in Seq(Item) /\ (service = "early" => reply \in Seq(Item) /\ HasStatus(reply))
  <2>1. script \in Seq(Item)
    BY <1>1, H3CallAssumption
  <2>2. ASSUME service = "early" PROVE reply \in Seq(Item) /\ HasStatus(reply)
    <3>1. reply \in Replies
      BY <1>1, <2>2
    <3>2. reply \in Seq(Item)
      BY <3>1, H3CallAssumption
    <3>3. DOMAIN reply = 1..Len(reply)
      BY <3>2
    <3>4. ToSet(reply) \cap {"trailers", "error"} # {}
      BY <3>1, H3CallAssumption
    <3> QED
      BY <3>2, <3>3, <3>4 DEF ToSet, HasStatus
  <2> QED
    BY <2>1, <2>2
<1>3. /\ wire["server"] = <<>> /\ wire["client"] = <<>>
      /\ got["server"] = 0 /\ got["client"] = 0
      /\ reader["server"].trailersDone = "no" /\ reader["client"].trailersDone = "no"
  BY <1>1 DEF Ends, Fresh
<1>4. DataFirst(<<>>) /\ Count(<<>>) = 0 /\ StatusFirst(<<>>) /\ \A F : ~Has(<<>>, F)
  <2>1. Datas(<<>>) = {}
    BY DEF Datas
  <2>2. Count(<<>>) = 0
    BY <2>1, FS_EmptySet DEF Count
  <2> QED
    BY <2>2 DEF DataFirst, StatusFirst, Has
<1>5. Types
  <2>1. wire \in [Ends -> Seq(Frame)]
    BY <1>1
  <2>2. reader \in [Ends -> [dataDone : YesNo, trailersDone : YesNo, awake : YesNo]]
    BY <1>1 DEF Fresh, YesNo
  <2>3. reply \in Seq(Item)
    <3>1. CASE service = "early"
      BY <1>2, <3>1
    <3>2. CASE service # "early"
      <4>1. reply = <<>>
        BY <1>1, <3>2
      <4> QED
        BY <4>1
    <3> QED
      BY <3>1, <3>2
  <2>4. got \in [Ends -> Nat] /\ service \in {"echo", "whole", "early"}
    BY <1>1, H3CallAssumption
  <2> QED
    BY <1>1, <1>2, <2>1, <2>2, <2>3, <2>4 DEF Types, YesNo, Outcome
<1>6. RequestSide
  <2>1. Window \in Nat /\ Len(script) \in Nat
    BY <1>2, H3CallAssumption
  <2>2. Has(wire["server"], Final) = FALSE
    BY <1>3, <1>4
  <2>3. Len(body) = Len(script) - yielded /\ yielded <= Len(script)
    BY <1>1, <2>1
  <2>4. \A i \in 1..Len(body) : body[i] = script[yielded + i]
    BY <1>1, <2>1
  <2> QED
    BY <1>1, <1>3, <1>4, <2>1, <2>2, <2>3, <2>4 DEF RequestSide, RequestIsWhole
<1>7. ReplySide
  BY <1>1, <1>2, <1>3 DEF ReplySide
<1>8. ClientSide
  <2>1. Window \in Nat
    BY H3CallAssumption
  <2>2. \A F : ~Has(wire["client"], F)
    BY <1>3, <1>4
  <2>3. /\ DataFirst(wire["client"]) /\ Count(wire["client"]) = 0
        /\ StatusFirst(wire["client"])
    BY <1>3, <1>4
  <2>4. Count(wire["client"]) <= Window /\ got["client"] + Count(wire["client"]) = replied
    BY <1>1, <1>3, <2>1, <2>3
  <2>5. /\ ~Has(wire["client"], {"trailers"}) /\ ~Has(wire["client"], {"error trailers"})
        /\ ~Has(wire["client"], {"fin"}) /\ ~Has(wire["client"], {"error head"})
    BY <2>2
  <2>6. /\ wire["client"] = <<>> /\ reader["client"].trailersDone = "no"
        /\ server = "call" /\ result = "none"
    BY <1>1, <1>3
  <2> HIDE DEF Has, Count
  <2> QED
    BY <2>3, <2>4, <2>5, <2>6 DEF ClientSide
<1> QED
  BY <1>5, <1>6, <1>7, <1>8 DEF IInv
-----------------------------------------------------------------------------
(* Steps that do not concern a side leave it as it is.                     *)
LEMMA RequestStays ==
    ASSUME RequestSide, UNCHANGED <<script, body, sender, yielded, request, lost>>,
           wire'["server"] = wire["server"], got'["server"] = got["server"],
           reader'["server"].trailersDone = reader["server"].trailersDone,
           stopped \subseteq stopped'
    PROVE  RequestSide'
<1>1. Deaf("server") => Deaf("server")'
  BY DEF Deaf
<1> QED
  BY <1>1 DEF RequestSide, RequestIsWhole

LEMMA ReplyStays ==
    ASSUME ReplySide, UNCHANGED <<service, request, server, reply, kept, replied, verdict>>,
           got'["server"] = got["server"]
    PROVE  ReplySide'
BY DEF ReplySide, EchoReads

LEMMA ClientStays ==
    ASSUME ClientSide, UNCHANGED <<call, result, server, kept, verdict, replied, lost>>,
           wire'["client"] = wire["client"], got'["client"] = got["client"],
           reader'["client"].trailersDone = reader["client"].trailersDone,
           stopped \subseteq stopped'
    PROVE  ClientSide'
<1>1. Deaf("client") => Deaf("client")'
  BY DEF Deaf
<1> QED
  BY <1>1 DEF ClientSide

(* What `Deliver` does to both ends.                                       *)
LEMMA DeliverIs ==
    ASSUME Types, NEW e \in Ends, NEW f \in Frame, Deliver(e, f)
    PROVE  /\ wire' \in [Ends -> Seq(Frame)]
           /\ reader' \in [Ends -> [dataDone : YesNo, trailersDone : YesNo, awake : YesNo]]
           /\ wire'[e] = IF Deaf(e) THEN wire[e] ELSE Append(wire[e], f)
           /\ \A d \in Ends : d # e => wire'[d] = wire[d]
           /\ \A d \in Ends : /\ reader'[d].trailersDone = reader[d].trailersDone
                              /\ reader'[d].dataDone = reader[d].dataDone
<1>1. CASE Deaf(e)
  BY <1>1 DEF Deliver, Types
<1>2. CASE ~Deaf(e)
  <2>1. /\ wire' = [wire EXCEPT ![e] = Append(@, f)]
        /\ reader' = [reader EXCEPT ![e].awake = "yes"]
    BY <1>2 DEF Deliver, Put, Wake
  <2>2. wire \in [Ends -> Seq(Frame)] /\ Append(wire[e], f) \in Seq(Frame)
    BY Typed, Appended DEF Types
  <2>3. /\ wire' \in [Ends -> Seq(Frame)] /\ wire'[e] = Append(wire[e], f)
        /\ \A d \in Ends : d # e => wire'[d] = wire[d]
    BY <2>1, <2>2
  <2>4. reader \in [Ends -> [dataDone : YesNo, trailersDone : YesNo, awake : YesNo]]
    BY DEF Types
  <2>5. /\ reader' \in [Ends -> [dataDone : YesNo, trailersDone : YesNo, awake : YesNo]]
        /\ \A d \in Ends : /\ reader'[d].trailersDone = reader[d].trailersDone
                           /\ reader'[d].dataDone = reader[d].dataDone
    BY <2>1, <2>4 DEF YesNo
  <2> QED
    BY <1>2, <2>3, <2>5
<1> QED
  BY <1>1, <1>2
-----------------------------------------------------------------------------
(* The task that sends the request.                                        *)
LEMMA SenderFrame ==
    ASSUME IInv, Sender, Types', RequestSide',
           wire'["client"] = wire["client"],
           \A d \in Ends : reader'[d].trailersDone = reader[d].trailersDone
    PROVE  IInv'
<1>1. UNCHANGED <<config, call, result, serverVars, got, stopped, lost>>
  BY DEF Sender, SendData, SendDataFails, SendTrailers, BodyEnds, FinishRequest, readers
<1>2. ReplySide' /\ ClientSide'
  BY <1>1, ReplyStays, ClientStays DEF IInv, config, serverVars, Ends
<1> QED
  BY <1>2 DEF IInv

LEMMA SendDataInv ==
    ASSUME IInv, SendData
    PROVE  IInv'
<1>1. /\ sender = "sending" /\ body # <<>> /\ Head(body) = "data"
      /\ ~Deaf("server") /\ Room("server") /\ Deliver("server", "data")
      /\ yielded' = yielded + 1 /\ body' = Tail(body)
      /\ UNCHANGED <<config, sender, call, result, serverVars, got, stopped, lost>>
  BY DEF SendData, Sends, Comes
<1> DEFINE w == wire["server"]
<1>2. /\ wire' \in [Ends -> Seq(Frame)]
      /\ reader' \in [Ends -> [dataDone : YesNo, trailersDone : YesNo, awake : YesNo]]
      /\ wire'["server"] = Append(w, "data") /\ wire'["client"] = wire["client"]
      /\ \A d \in Ends : reader'[d].trailersDone = reader[d].trailersDone
  <2>1. "data" \in Frame /\ "server" \in Ends /\ "client" \in Ends
    BY DEF Frame, Ends
  <2> QED
    BY <1>1, <2>1, DeliverIs DEF IInv
<1>3. /\ w \in Seq(Frame) /\ got["server"] \in Nat /\ Count(w) \in Nat /\ Window \in Nat
      /\ yielded \in Nat
      /\ body \in Seq(Item) /\ script \in Seq(Item) /\ Len(script) \in Nat
  <2>1. "server" \in Ends /\ Types
    BY DEF Ends, IInv
  <2>2. /\ w \in Seq(Frame) /\ got["server"] \in Nat /\ Count(w) \in Nat /\ Window \in Nat
    BY <2>1, Typed
  <2>3. yielded \in Nat /\ body \in Seq(Item) /\ script \in Seq(Item)
    BY <2>1 DEF Types
  <2>4. Len(script) \in Nat
    BY <2>3
  <2> QED
    BY <2>2, <2>3, <2>4
<1>4. /\ DataFirst(w) /\ ~Has(w, Final) /\ lost = "no" /\ got["server"] + Count(w) = yielded
      /\ Len(body) = Len(script) - yielded /\ yielded <= Len(script)
      /\ \A i \in 1..Len(body) : body[i] = script[yielded + i]
      /\ \A i \in 1..yielded : script[i] = "data"
  <2>1. lost = "no"
    BY <1>1 DEF Deaf, IInv, Types, YesNo
  <2> QED
    BY <1>1, <2>1 DEF IInv, RequestSide
<1>5. /\ Count(Append(w, "data")) = Count(w) + 1
      /\ ~Has(Append(w, "data"), Final) => DataFirst(Append(w, "data"))
      /\ DataFirst(Append(w, "data")) /\ ~Has(Append(w, "data"), Final)
  <2>1. "data" \in Frame /\ "data" \notin Final
    BY DEF Frame, Final
  <2>2. w \in Seq(Frame)
    BY <1>3
  <2> HIDE DEF w
  <2>3. /\ Count(Append(w, "data")) = Count(w) + 1
        /\ DataFirst(w) /\ ~Has(w, Final) => DataFirst(Append(w, "data"))
        /\ Has(Append(w, "data"), Final) <=> Has(w, Final) \/ "data" \in Final
    <3>1. Count(Append(w, "data")) = IF "data" = "data" THEN Count(w) + 1 ELSE Count(w)
      BY <2>1, <2>2, AppendFrame, Zenon
    <3>2. DataFirst(w) /\ ("data" = "data" => ~Has(w, Final)) => DataFirst(Append(w, "data"))
      BY <2>1, <2>2, AppendFrame, Zenon
    <3>3. Has(Append(w, "data"), Final) <=> Has(w, Final) \/ "data" \in Final
      BY <2>1, <2>2, AppendFrame, Zenon
    <3> QED
      BY <1>4, <3>1, <3>2, <3>3
  <2> QED
    BY <1>4, <2>1, <2>3
<1>6. Count(w) < Window
  BY <1>1, RoomIs
<1>7. /\ Tail(body) \in Seq(Item) /\ Len(Tail(body)) = Len(body) - 1
      /\ Len(body) \in Nat \ {0} /\ Head(body) = body[1]
      /\ \A i \in 1..Len(Tail(body)) : Tail(body)[i] = body[i + 1]
  BY <1>1, <1>3, Taken
<1> HIDE DEF w
<1>8. /\ Len(body') = Len(script) - yielded' /\ yielded' <= Len(script)
      /\ \A i \in 1..Len(body') : body'[i] = script[yielded' + i]
      /\ \A i \in 1..yielded' : script[i] = "data"
  <2>1. Len(body') = Len(script) - yielded' /\ yielded' <= Len(script)
    BY <1>1, <1>3, <1>4, <1>7
  <2>2. script[yielded + 1] = "data"
    <3>1. 1 \in 1..Len(body)
      BY <1>7
    <3>2. body[1] = script[yielded + 1]
      BY <1>4, <3>1
    <3> QED
      BY <1>1, <1>7, <3>2
  <2>3. ASSUME NEW i \in 1..Len(body') PROVE body'[i] = script[yielded' + i]
    <3>1. i + 1 \in 1..Len(body) /\ yielded + (i + 1) = yielded' + i
      BY <1>1, <1>3, <1>7
    <3>2. body[i + 1] = script[yielded + (i + 1)]
      BY <1>4, <3>1
    <3>3. Tail(body)[i] = body[i + 1]
      BY <1>1, <1>7
    <3> QED
      BY <1>1, <3>1, <3>2, <3>3
  <2>4. ASSUME NEW i \in 1..yielded' PROVE script[i] = "data"
    <3>1. i \in 1..yielded \/ i = yielded + 1
      BY <1>1, <1>3
    <3> QED
      BY <1>4, <2>2, <3>1
  <2> QED
    BY <2>1, <2>3, <2>4
<1>9. RequestSide'
  <2>1. UNCHANGED <<script, sender, request, got, lost>>
    BY <1>1 DEF config, serverVars
  <2>2. /\ DataFirst(wire'["server"]) /\ Count(wire'["server"]) <= Window
        /\ ~Has(wire'["server"], Final)
        /\ got'["server"] + Count(wire'["server"]) = yielded'
    BY <1>1, <1>2, <1>3, <1>4, <1>5, <1>6, <2>1 DEF w
  <2>3. /\ request' = "unknown" /\ reader'["server"].trailersDone = "yes"
              => got'["server"] = DataOf(script')
        /\ RequestIsWhole'
    BY <1>2, <2>1 DEF IInv, RequestSide, RequestIsWhole, Ends
  <2> QED
    BY <1>1, <1>8, <2>1, <2>2, <2>3 DEF RequestSide
<1>10. Types'
  <2>1. body' \in Seq(Item) /\ yielded' \in Nat
    BY <1>1, <1>3, <1>7
  <2> QED
    BY <1>1, <1>2, <2>1 DEF IInv, Types, config, serverVars
<1> QED
  BY <1>1, <1>2, <1>9, <1>10, SenderFrame DEF Sender

(* The body has yielded all its data when it yields anything else.         *)
LEMMA AllYielded ==
    ASSUME IInv, sender = "sending", ~Comes(body, {"data"})
    PROVE  yielded = DataOf(script)
<1>1. /\ body \in Seq(Item) /\ script \in Seq(Item) /\ yielded \in Nat
      /\ Len(body) = Len(script) - yielded /\ yielded <= Len(script)
      /\ \A i \in 1..Len(body) : body[i] = script[yielded + i]
      /\ \A i \in 1..yielded : script[i] = "data"
  BY DEF IInv, Types, RequestSide
<1>2. ASSUME yielded < Len(script) PROVE script[yielded + 1] # "data"
  <2>1. Len(body) > 0 /\ Len(body) \in Nat
    BY <1>1, <1>2
  <2>2. body # <<>> /\ Head(body) = body[1] /\ 1 \in 1..Len(body)
    BY <1>1, <2>1
  <2>3. body[1] # "data" /\ body[1] = script[yielded + 1]
    BY <1>1, <2>2 DEF Comes
  <2> QED
    BY <2>3
<1>3. yielded \in 0..Len(script)
  BY <1>1
<1> QED
  BY <1>1, <1>2, <1>3, DataOfIs

LEMMA SenderStopsInv ==
    ASSUME IInv, SendDataFails \/ BodyEnds
    PROVE  IInv'
<1>1. /\ sender = "sending" /\ sender' = "finishing"
      /\ UNCHANGED <<config, body, yielded, call, result, serverVars, readers, wire, stopped, lost>>
  BY DEF Sends, SendDataFails, BodyEnds
<1>2. yielded = DataOf(script) \/ Deaf("server")
  <2>1. CASE SendDataFails
    BY <2>1 DEF SendDataFails
  <2>2. CASE BodyEnds
    <3>1. ~Comes(body, {"data"})
      BY <2>2 DEF BodyEnds, Sends, Comes
    <3> QED
      BY <1>1, <3>1, AllYielded
  <2> QED
    BY <2>1, <2>2
<1>3. Deaf("server")' = Deaf("server")
  BY <1>1 DEF Deaf
<1>4. RequestSide'
  BY <1>1, <1>2, <1>3 DEF IInv, RequestSide, RequestIsWhole, config, serverVars, readers
<1>5. Types'
  BY <1>1 DEF IInv, Types, config, serverVars, readers
<1> QED
  BY <1>1, <1>4, <1>5, SenderFrame DEF Sender, readers

LEMMA SenderFinishesInv ==
    ASSUME IInv, SendTrailers \/ FinishRequest
    PROVE  IInv'
<1>1. PICK f \in {"trailers", "fin"} : Deliver("server", f)
  BY DEF SendTrailers, FinishRequest
<1>2. /\ sender \in {"sending", "finishing"} /\ sender' \in {"finishing", "done"}
      /\ sender' = "finishing" => SendTrailers
      /\ UNCHANGED <<config, yielded, call, result, serverVars, got, stopped, lost>>
  BY DEF Sends, SendTrailers, FinishRequest
<1> DEFINE w == wire["server"]
           t == Append(w, f)
<1>3. "server" \in Ends /\ "client" \in Ends /\ f \in Frame /\ f \in Final /\ f # "data"
  BY DEF Frame, Final, Ends
<1>4. /\ wire' \in [Ends -> Seq(Frame)]
      /\ reader' \in [Ends -> [dataDone : YesNo, trailersDone : YesNo, awake : YesNo]]
      /\ wire'["server"] = (IF Deaf("server") THEN w ELSE t) /\ wire'["client"] = wire["client"]
      /\ \A d \in Ends : reader'[d].trailersDone = reader[d].trailersDone
  BY <1>1, <1>3, DeliverIs DEF IInv
<1>5. yielded = DataOf(script) \/ Deaf("server")
  <2>1. CASE SendTrailers
    <3>1. sender = "sending" /\ ~Comes(body, {"data"})
      BY <2>1 DEF SendTrailers, Sends, Comes
    <3> QED
      BY <3>1, AllYielded
  <2>2. CASE FinishRequest
    BY <2>2 DEF FinishRequest, IInv, RequestSide
  <2> QED
    BY <2>1, <2>2
<1>6. w \in Seq(Frame) /\ DataFirst(w)
  BY Typed, <1>3 DEF IInv, RequestSide
<1>7. Count(t) = Count(w) /\ DataFirst(t)
  BY <1>3, <1>6, AppendFrame
<1> HIDE DEF w, t
<1>8. UNCHANGED <<script, yielded, request, got, lost>> /\ (Deaf("server"))' = Deaf("server")
  BY <1>2 DEF config, serverVars, Deaf
<1>9. RequestSide'
  <2>1. /\ request' = "unknown" /\ reader'["server"].trailersDone = "yes"
              => got'["server"] = DataOf(script')
        /\ RequestIsWhole'
    BY <1>3, <1>4, <1>8 DEF IInv, RequestSide, RequestIsWhole
  <2>2. sender' # "sending" /\ (sender' = "finishing" => yielded' = DataOf(script') \/ Deaf("server")')
    BY <1>2, <1>5, <1>8
  <2>3. CASE Deaf("server")
    BY <1>4, <1>8, <2>1, <2>2, <2>3 DEF IInv, RequestSide, w
  <2>4. CASE ~Deaf("server")
    <3>1. lost = "no"
      BY <2>4 DEF Deaf, IInv, Types, YesNo
    <3>2. Count(w) <= Window /\ got["server"] + Count(w) = yielded
      BY <3>1 DEF IInv, RequestSide, w
    <3>3. wire'["server"] = t /\ yielded' = DataOf(script')
      BY <1>4, <1>5, <1>8, <2>4
    <3>4. /\ DataFirst(wire'["server"]) /\ Count(wire'["server"]) <= Window
          /\ got'["server"] + Count(wire'["server"]) = yielded'
      BY <1>7, <1>8, <3>2, <3>3
    <3> QED
      BY <2>1, <2>2, <3>3, <3>4 DEF RequestSide
  <2> QED
    BY <2>3, <2>4
<1>10. Types'
  <2>1. body' \in Seq(Item)
    <3>1. CASE SendTrailers
      <4>1. body' = Tail(body) /\ body # <<>> /\ body \in Seq(Item)
        BY <3>1 DEF SendTrailers, Sends, Comes, IInv, Types
      <4> QED
        BY <4>1, Taken
    <3>2. CASE FinishRequest
      BY <3>2 DEF FinishRequest, IInv, Types
    <3> QED
      BY <3>1, <3>2
  <2> QED
    BY <1>2, <1>4, <2>1 DEF IInv, Types, config, serverVars
<1> QED
  BY <1>4, <1>9, <1>10, SenderFrame DEF Sender
-----------------------------------------------------------------------------
(* What polling a body does to the end that polls: it is told of the next  *)
(* frame, waits, or learns of a lost connection.                           *)
TellsData(e, yield) ==
    /\ yield = "data" /\ wire[e] # <<>> /\ Head(wire[e]) = "data"
    /\ wire'[e] = Tail(wire[e]) /\ got'[e] = got[e] + 1
    /\ reader'[e].trailersDone = reader[e].trailersDone
TellsEnd(e, yield) ==
    /\ yield \in Trailers \cup {"none"} /\ wire[e] # <<>>
    /\ Head(wire[e]) = IF yield = "none" THEN "fin" ELSE yield
    /\ wire'[e] = Tail(wire[e]) /\ got'[e] = got[e]
    /\ reader[e].trailersDone = "no" /\ reader'[e].trailersDone = "yes"
TellsNothing(e, yield) ==
    /\ wire'[e] = wire[e] /\ got'[e] = got[e]
    /\ \/ /\ yield = "none" /\ reader[e].trailersDone = "yes"
          /\ reader'[e].trailersDone = "yes"
       \/ /\ yield = "pending" /\ reader'[e].trailersDone = reader[e].trailersDone
          /\ wire[e] = <<>> \/ Head(wire[e]) \in Trailers \cup {"fin"}
       \/ /\ yield = "error" /\ wire[e] # <<>> /\ Head(wire[e]) = "reset"

LEMMA PollIs ==
    ASSUME Types, NEW e \in Ends, NEW yield, PollFrame(e, yield)
    PROVE  /\ wire' \in [Ends -> Seq(Frame)] /\ got' \in [Ends -> Nat]
           /\ reader' \in [Ends -> [dataDone : YesNo, trailersDone : YesNo, awake : YesNo]]
           /\ \A d \in Ends : d # e => /\ wire'[d] = wire[d] /\ got'[d] = got[d]
                                       /\ reader'[d] = reader[d]
           /\ TellsData(e, yield) \/ TellsEnd(e, yield) \/ TellsNothing(e, yield)
<1> DEFINE R == [dataDone : YesNo, trailersDone : YesNo, awake : YesNo]
<1>0. /\ wire \in [Ends -> Seq(Frame)] /\ got \in [Ends -> Nat] /\ reader \in [Ends -> R]
      /\ reader[e] \in R
  BY DEF Types
<1>1. ASSUME wire[e] # <<>> PROVE Tail(wire[e]) \in Seq(Frame)
  <2>1. wire[e] \in Seq(Frame)
    BY <1>0
  <2> QED
    BY <1>1, <2>1, Taken
<1>2. CASE PollDone(e, yield)
  <2>1. /\ reader[e].trailersDone = "yes" /\ yield = "none" /\ got' = got
        /\ UNCHANGED <<reader, wire>>
    BY <1>2 DEF PollDone, Tells
  <2> QED
    BY <1>0, <2>1 DEF TellsNothing
<1>3. CASE PollData(e, yield)
  <2>1. /\ wire[e] # <<>> /\ Head(wire[e]) = "data" /\ yield = "data"
        /\ got' = [got EXCEPT ![e] = @ + 1] /\ reader' = reader
        /\ wire' = [wire EXCEPT ![e] = Tail(@)]
    BY <1>3 DEF PollData, Tells, At, Comes
  <2>2. /\ wire' \in [Ends -> Seq(Frame)] /\ wire'[e] = Tail(wire[e])
        /\ \A d \in Ends : d # e => wire'[d] = wire[d]
    BY <1>0, <1>1, <2>1
  <2>3. /\ got' \in [Ends -> Nat] /\ got'[e] = got[e] + 1
        /\ \A d \in Ends : d # e => got'[d] = got[d]
    BY <1>0, <2>1
  <2> QED
    BY <1>0, <2>1, <2>2, <2>3 DEF TellsData
<1>4. CASE PollDataEnd(e, yield)
  <2>1. /\ wire[e] # <<>> /\ Head(wire[e]) \in Trailers \cup {"fin"} /\ yield = "pending"
        /\ got' = got /\ wire' = wire
        /\ reader' = [reader EXCEPT ![e].dataDone = "yes"]
    BY <1>4 DEF PollDataEnd, Tells, At, Comes
  <2>2. /\ reader' \in [Ends -> R] /\ reader'[e].trailersDone = reader[e].trailersDone
        /\ \A d \in Ends : d # e => reader'[d] = reader[d]
    BY <1>0, <2>1 DEF YesNo
  <2> QED
    BY <1>0, <2>1, <2>2 DEF TellsNothing
<1>5. CASE PollTrailers(e, yield)
  <2>1. /\ wire[e] # <<>> /\ reader[e].trailersDone = "no"
        /\ \/ Head(wire[e]) \in Trailers /\ yield = Head(wire[e])
           \/ Head(wire[e]) = "fin" /\ yield = "none"
        /\ got' = got /\ wire' = [wire EXCEPT ![e] = Tail(@)]
        /\ reader' = [reader EXCEPT ![e].trailersDone = "yes"]
    BY <1>5 DEF PollTrailers, Tells, At, Comes, Trailers
  <2>2. /\ wire' \in [Ends -> Seq(Frame)] /\ wire'[e] = Tail(wire[e])
        /\ \A d \in Ends : d # e => wire'[d] = wire[d]
    BY <1>0, <1>1, <2>1
  <2>3. /\ reader' \in [Ends -> R] /\ reader'[e].trailersDone = "yes"
        /\ \A d \in Ends : d # e => reader'[d] = reader[d]
    BY <1>0, <2>1 DEF YesNo
  <2>4. TellsEnd(e, yield)
    BY <2>1, <2>2, <2>3 DEF TellsEnd, Trailers
  <2> QED
    BY <1>0, <2>1, <2>2, <2>3, <2>4
<1>6. CASE PollReset(e, yield)
  <2>1. /\ wire[e] # <<>> /\ Head(wire[e]) = "reset" /\ yield = "error"
        /\ got' = got /\ wire' = wire
        /\ reader' = [reader EXCEPT ![e].trailersDone = reader[e].dataDone]
    BY <1>6 DEF PollReset, Tells, At, Comes
  <2>2. /\ reader' \in [Ends -> R]
        /\ \A d \in Ends : d # e => reader'[d] = reader[d]
    BY <1>0, <2>1 DEF YesNo
  <2> QED
    BY <1>0, <2>1, <2>2 DEF TellsNothing
<1>7. CASE PollIdle(e, yield)
  <2>1. /\ wire[e] = <<>> /\ yield = "pending" /\ got' = got /\ wire' = wire
        /\ reader' = [reader EXCEPT ![e].awake = "no"]
    BY <1>7 DEF PollIdle, Tells
  <2>2. /\ reader' \in [Ends -> R] /\ reader'[e].trailersDone = reader[e].trailersDone
        /\ \A d \in Ends : d # e => reader'[d] = reader[d]
    BY <1>0, <2>1 DEF YesNo
  <2> QED
    BY <1>0, <2>1, <2>2 DEF TellsNothing
<1> QED
  BY <1>2, <1>3, <1>4, <1>5, <1>6, <1>7 DEF PollFrame

(* The service reads the request.                                          *)
LEMMA ReadRequestInv ==
    ASSUME IInv, ReadRequest
    PROVE  IInv'
<1>1. PICK yield \in {"data", "trailers", "none", "error", "pending"} :
          /\ PollFrame("server", yield)
          /\ request' = CASE yield = "none" -> "whole"
                          [] yield = "error" -> "error"
                          [] OTHER -> request
          /\ reply' = CASE yield = "data" /\ service = "echo" -> <<"data">>
                        [] yield = "none" ->
                               (IF service = "whole" THEN <<"data">> ELSE <<>>) \o <<"trailers">>
                        [] yield = "error" /\ service = "echo" -> <<"error">>
                        [] OTHER -> reply
  BY DEF ReadRequest
<1>2. /\ request = "unknown"
      /\ \/ service = "whole" /\ server = "call"
         \/ service = "echo" /\ server = "loop" /\ reply = <<>>
      /\ UNCHANGED <<config, clientVars, server, kept, replied, verdict, stopped, lost>>
  BY DEF ReadRequest, ReadsRequest
<1>3. "server" \in Ends /\ "client" \in Ends
  BY DEF Ends
<1>4. /\ wire' \in [Ends -> Seq(Frame)] /\ got' \in [Ends -> Nat]
      /\ reader' \in [Ends -> [dataDone : YesNo, trailersDone : YesNo, awake : YesNo]]
      /\ wire'["client"] = wire["client"] /\ got'["client"] = got["client"]
      /\ reader'["client"] = reader["client"]
      /\ \/ TellsData("server", yield) \/ TellsEnd("server", yield)
         \/ TellsNothing("server", yield)
  BY <1>1, <1>3, PollIs DEF IInv
<1>5. ClientSide'
  BY <1>2, <1>4, ClientStays DEF IInv, clientVars
<1>6. UNCHANGED <<service, script, body, sender, yielded, call, result>>
  BY <1>2 DEF config, clientVars
<1>7. /\ yield = "none" => reply' = (IF service = "whole" THEN <<"data">> ELSE <<>>) \o <<"trailers">>
      /\ yield = "data" => reply' = IF service = "echo" THEN <<"data">> ELSE reply
      /\ yield = "error" => reply' = IF service = "echo" THEN <<"error">> ELSE reply
      /\ yield \in {"trailers", "pending"} => reply' = reply
      /\ request' = IF yield = "none" THEN "whole" ELSE IF yield = "error" THEN "error"
                    ELSE "unknown"
  BY <1>1, <1>2
<1> DEFINE r == <<"data">> \o <<"trailers">>
<1>8. /\ r \in Seq(Item) /\ Len(r) = 2 /\ r[2] = "trailers"
      /\ <<>> \o <<"trailers">> = <<"trailers">>
      /\ <<"data">> \in Seq(Item) /\ <<"trailers">> \in Seq(Item) /\ <<"error">> \in Seq(Item)
  <2>1. "data" \in Item /\ "trailers" \in Item /\ "error" \in Item
    BY DEF Item
  <2>2. ASSUME NEW c \in Item
        PROVE  <<c>> \in Seq(Item) /\ Len(<<c>>) = 1 /\ <<c>>[1] = c /\ <<>> \o <<c>> = <<c>>
    OBVIOUS
  <2>3. /\ r \in Seq(Item) /\ Len(r) = Len(<<"data">>) + Len(<<"trailers">>)
        /\ \A k \in 1..Len(<<"trailers">>) : r[Len(<<"data">>) + k] = <<"trailers">>[k]
    <3>1. <<"data">> \in Seq(Item) /\ <<"trailers">> \in Seq(Item)
      BY <2>1, <2>2
    <3> QED
      BY <3>1, Concat
  <2>4. Len(r) = 2
    BY <2>1, <2>2, <2>3
  <2>5. r[2] = "trailers"
    <3>1. r[Len(<<"data">>) + 1] = <<"trailers">>[1]
      BY <2>1, <2>2, <2>3
    <3>2. Len(<<"data">>) + 1 = 2
      BY <2>1, <2>2
    <3> QED
      BY <2>1, <2>2, <3>1, <3>2
  <2> QED
    BY <2>1, <2>2, <2>3, <2>4, <2>5
<1> HIDE DEF r
<1>9. Types'
  <2>1. reply' \in Seq(Item) /\ request' \in {"unknown", "whole", "error"}
    <3>1. yield = "none" => reply' = r \/ reply' = <<"trailers">>
      BY <1>7, <1>8 DEF r
    <3> QED
      BY <1>7, <1>8, <3>1 DEF IInv, Types
  <2> QED
    BY <1>2, <1>4, <1>6, <2>1 DEF IInv, Types
<1> DEFINE w == wire["server"]
           g == got["server"]
<1>10. /\ w \in Seq(Frame) /\ g \in Nat /\ Count(w) \in Nat /\ Window \in Nat
       /\ DataFirst(w) /\ Count(w) <= Window
  BY <1>3, Typed DEF IInv, RequestSide
<1>11. /\ lost = "no" \/ Has(w, Final) => g + Count(w) = yielded
       /\ Has(w, Final) => sender # "sending" /\ yielded = DataOf(script)
       /\ reader["server"].trailersDone = "yes" => g = DataOf(script)
  BY <1>2 DEF IInv, RequestSide
<1>12. Deaf("server")' = Deaf("server")
  BY <1>2 DEF Deaf
<1>13. CASE TellsData("server", yield)
  <2>1. /\ yield = "data" /\ w # <<>> /\ Head(w) = "data" /\ wire'["server"] = Tail(w)
        /\ got'["server"] = g + 1
        /\ reader'["server"].trailersDone = reader["server"].trailersDone
    BY <1>13 DEF TellsData
  <2>2. /\ Tail(w) \in Seq(Frame) /\ Count(w) = Count(Tail(w)) + 1
        /\ Has(Tail(w), Final) => Has(w, Final)
        /\ DataFirst(Tail(w)) /\ Count(Tail(w)) \in Nat
    <3> HIDE DEF w
    <3> QED
      BY <1>10, <2>1, TakeFrame, CountIsNat
  <2>3. reader["server"].trailersDone = "no" \/ g = DataOf(script)
    <3>1. reader["server"].trailersDone \in YesNo
      BY <1>3, Typed DEF IInv
    <3> QED
      BY <1>11, <3>1 DEF YesNo
  <2>4. reader["server"].trailersDone = "no"
    BY <1>1, <2>1 DEF PollFrame, PollDone, PollData, PollDataEnd, PollTrailers, PollReset,
                      PollIdle, Trailers
  <2>5. RequestSide'
    <3>1. DataFirst(wire'["server"]) /\ Count(wire'["server"]) <= Window
      BY <1>10, <2>1, <2>2
    <3>2. lost' = "no" \/ Has(wire'["server"], Final) =>
              got'["server"] + Count(wire'["server"]) = yielded'
      <4>1. lost' = lost /\ yielded' = yielded
        BY <1>2, <1>6
      <4>2. g + Count(w) = yielded => (g + 1) + Count(Tail(w)) = yielded
        BY <1>10, <2>2
      <4> QED
        BY <1>11, <2>1, <2>2, <4>1, <4>2
    <3>3. Has(wire'["server"], Final) => sender' # "sending" /\ yielded' = DataOf(script')
      BY <1>6, <1>11, <2>1, <2>2
    <3>4. RequestIsWhole' /\ reader'["server"].trailersDone = "no"
      BY <1>7, <2>1, <2>4 DEF RequestIsWhole
    <3> QED
      BY <1>6, <1>12, <3>1, <3>2, <3>3, <3>4 DEF IInv, RequestSide
  <2>6. ReplySide'
    <3>1. got'["server"] = g + 1 /\ g \in Nat /\ replied \in Nat /\ request' = "unknown"
      BY <1>7, <1>10, <2>1 DEF IInv, Types
    <3>2. CASE service = "whole" /\ server = "call"
      BY <1>2, <1>6, <1>7, <2>1, <3>1, <3>2 DEF IInv, ReplySide, EchoReads
    <3>3. CASE service = "echo" /\ server = "loop" /\ reply = <<>>
      <4>1. reply' = <<"data">> /\ Len(reply') = 1 /\ Len(reply) = 0
        BY <1>7, <2>1, <3>3
      <4>2. kept = "none" /\ g = replied
        BY <1>2, <3>1, <3>3, <4>1 DEF IInv, ReplySide, EchoReads
      <4>3. got'["server"] = replied + Len(reply')
        BY <3>1, <4>1, <4>2
      <4> QED
        BY <1>2, <1>6, <3>1, <3>3, <4>1, <4>2, <4>3 DEF ReplySide, EchoReads
    <3> QED
      BY <1>2, <3>2, <3>3
  <2> QED
    BY <1>5, <1>9, <2>5, <2>6 DEF IInv
<1>14. ASSUME got'["server"] = g
       PROVE  ReplySide'
  <2>1. CASE service = "whole" /\ server = "call"
    <3>1. kept = "none" /\ kept' = "none" /\ server' = "call" /\ service' = "whole"
      BY <1>2, <1>6, <2>1 DEF IInv, ReplySide
    <3>2. request' = "whole" => HasStatus(reply')
      <4>1. ASSUME yield = "none" PROVE HasStatus(reply')
        <5>1. reply' = r
          BY <1>7, <2>1, <4>1 DEF r
        <5>2. 2 \in 1..Len(reply') /\ reply'[2] = "trailers"
          <6>1. Len(r) = 2 /\ r[2] = "trailers"
            BY <1>8
          <6>2. Len(reply') = 2 /\ reply'[2] = "trailers"
            BY <5>1, <6>1, Zenon
          <6> QED
            BY <6>2
        <5> QED
          BY <5>2 DEF HasStatus
      <4> QED
        BY <1>7, <4>1
    <3> QED
      BY <3>1, <3>2 DEF ReplySide
  <2>2. CASE service = "echo" /\ server = "loop" /\ reply = <<>>
    <3>1. /\ kept = "none" /\ g = replied + Len(reply) /\ Len(reply) = 0
          /\ replied \in Nat /\ g \in Nat
      BY <1>2, <1>10, <2>2 DEF IInv, ReplySide, EchoReads, Types
    <3>2. kept' = "none" /\ got'["server"] = replied' /\ server' = "loop" /\ service' = "echo"
      BY <1>2, <1>6, <1>14, <2>2, <3>1
    <3>3. CASE yield = "none"
      <4>1. reply' = <<"trailers">> /\ request' = "whole"
        BY <1>7, <1>8, <2>2, <3>3
      <4>2. HasStatus(reply')
        <5>1. 1 \in 1..Len(reply') /\ reply'[1] = "trailers"
          BY <4>1
        <5> QED
          BY <5>1 DEF HasStatus
      <4> QED
        BY <3>2, <4>1, <4>2 DEF ReplySide, EchoReads
    <3>4. CASE yield = "error"
      <4>1. reply' = <<"error">> /\ request' = "error"
        BY <1>7, <2>2, <3>4
      <4>2. HasStatus(reply')
        <5>1. 1 \in 1..Len(reply') /\ reply'[1] = "error"
          BY <4>1
        <5> QED
          BY <5>1 DEF HasStatus
      <4> QED
        BY <3>2, <4>1, <4>2 DEF ReplySide, EchoReads
    <3>5. CASE yield \in {"trailers", "pending"}
      <4>1. reply' = <<>> /\ request' = "unknown" /\ Len(reply') = 0
        BY <1>7, <2>2, <3>5
      <4>2. got'["server"] = replied' + Len(reply')
        BY <1>2, <3>1, <3>2, <4>1
      <4> QED
        BY <3>2, <4>1, <4>2 DEF ReplySide, EchoReads
    <3>6. CASE yield = "data"
      <4>1. TellsData("server", yield)
        BY <1>4, <3>6 DEF TellsEnd, TellsNothing, Trailers
      <4>2. got'["server"] = g + 1
        BY <4>1 DEF TellsData
      <4> QED
        BY <1>10, <1>14, <4>2
    <3> QED
      BY <3>3, <3>4, <3>5, <3>6
  <2> QED
    BY <1>2, <2>1, <2>2
<1>15. CASE TellsEnd("server", yield)
  <2>1. /\ w # <<>> /\ Head(w) \in Final /\ Head(w) # "data" /\ wire'["server"] = Tail(w)
        /\ got'["server"] = g
    BY <1>15 DEF TellsEnd, Trailers, Final
  <2>2. /\ Tail(w) \in Seq(Frame) /\ Count(w) = Count(Tail(w))
        /\ Has(Tail(w), Final) => Has(w, Final)
        /\ DataFirst(Tail(w)) /\ Count(Tail(w)) \in Nat /\ Count(w) = 0 /\ Has(w, Final)
    <3> HIDE DEF w
    <3>1. Has(w, Final)
      <4>1. 1 \in 1..Len(w) /\ w[1] = Head(w)
        BY <1>10, <2>1
      <4> QED
        BY <2>1, <4>1 DEF Has
    <3> QED
      BY <1>10, <2>1, <3>1, TakeFrame, NoDataLeft, CountIsNat
  <2>3. g = DataOf(script) /\ yielded = DataOf(script) /\ sender # "sending"
    BY <1>10, <1>11, <2>2
  <2>4. RequestSide'
    <3>1. DataFirst(wire'["server"]) /\ Count(wire'["server"]) <= Window
      BY <1>10, <2>1, <2>2
    <3>2. got'["server"] + Count(wire'["server"]) = yielded'
      BY <1>6, <1>10, <2>1, <2>2, <2>3
    <3>3. RequestIsWhole' /\ got'["server"] = DataOf(script')
      BY <1>6, <2>1, <2>3 DEF RequestIsWhole
    <3> QED
      BY <1>6, <1>12, <2>3, <3>1, <3>2, <3>3 DEF IInv, RequestSide
  <2> QED
    BY <1>5, <1>9, <1>14, <2>1, <2>4 DEF IInv
<1>16. CASE TellsNothing("server", yield)
  <2>1. wire'["server"] = w /\ got'["server"] = g
    BY <1>16 DEF TellsNothing
  <2>2. request' = "unknown" => reader'["server"].trailersDone = reader["server"].trailersDone
    BY <1>7, <1>16 DEF TellsNothing
  <2>3. request' = "whole" => reader["server"].trailersDone = "yes"
    BY <1>7, <1>16 DEF TellsNothing
  <2>4. RequestIsWhole' /\ (request' = "unknown" /\ reader'["server"].trailersDone = "yes"
                                => got'["server"] = DataOf(script'))
    BY <1>6, <1>11, <2>1, <2>2, <2>3 DEF RequestIsWhole
  <2>5. RequestSide'
    BY <1>2, <1>6, <1>12, <2>1, <2>4 DEF IInv, RequestSide
  <2> QED
    BY <1>5, <1>9, <1>14, <2>1, <2>5 DEF IInv
<1> QED
  BY <1>4, <1>13, <1>15, <1>16
-----------------------------------------------------------------------------
(* The server answers.                                                     *)
LEMMA ServerFrame ==
    ASSUME IInv, Types', ReplySide', ClientSide',
           UNCHANGED <<config, clientVars, request, got, lost>>,
           wire'["server"] = wire["server"],
           reader'["server"].trailersDone = reader["server"].trailersDone,
           stopped \subseteq stopped'
    PROVE  IInv'
BY RequestStays DEF IInv, config, clientVars

(* While the server has not finished nothing final is on its way.          *)
LEMMA NotFinished ==
    ASSUME IInv, server # "ended"
    PROVE  /\ wire["client"] \in Seq(Frame) /\ ~Has(wire["client"], Final)
           /\ ~Has(wire["client"], {"trailers"}) /\ ~Has(wire["client"], {"error trailers"})
           /\ ~Has(wire["client"], {"fin"})
           /\ server # "finishing" => ~Has(wire["client"], {"error head"})
           /\ result # "ok" /\ (server # "finishing" => result # "error")
           /\ DataFirst(wire["client"]) /\ Count(wire["client"]) \in Nat
           /\ Count(wire["client"]) <= Window /\ Window \in Nat /\ got["client"] \in Nat
<1>1. "client" \in Ends
  BY DEF Ends
<1>2. /\ ~Has(wire["client"], {"trailers"}) /\ ~Has(wire["client"], {"error trailers"})
      /\ ~Has(wire["client"], {"fin"})
      /\ server # "finishing" => ~Has(wire["client"], {"error head"})
      /\ result # "ok" /\ (server # "finishing" => result # "error")
      /\ DataFirst(wire["client"]) /\ Count(wire["client"]) <= Window
  BY DEF IInv, ClientSide
<1>3. ~Has(wire["client"], Final)
  BY <1>2 DEF Has, Final
<1> QED
  BY <1>1, <1>2, <1>3, Typed DEF IInv

LEMMA NotLost ==
    ASSUME IInv, ~Deaf("client")
    PROVE  lost = "no" /\ got["client"] + Count(wire["client"]) = replied
BY DEF Deaf, IInv, Types, YesNo, ClientSide

(* The head of a response is the first frame.                              *)
LEMMA HeadIsSent ==
    ASSUME IInv, server = "call", NEW f \in {"head", "error head"}, Deliver("client", f)
    PROVE  /\ wire' \in [Ends -> Seq(Frame)]
           /\ reader' \in [Ends -> [dataDone : YesNo, trailersDone : YesNo, awake : YesNo]]
           /\ wire'["server"] = wire["server"]
           /\ \A d \in Ends : reader'[d].trailersDone = reader[d].trailersDone
           /\ DataFirst(wire'["client"]) /\ Count(wire'["client"]) = Count(wire["client"])
           /\ ~Has(wire'["client"], Final)
           /\ ~Has(wire'["client"], {"trailers"}) /\ ~Has(wire'["client"], {"error trailers"})
           /\ ~Has(wire'["client"], {"fin"})
           /\ Has(wire'["client"], {"error head"}) => f = "error head" /\ ~Deaf("client")
           /\ StatusFirst(wire["client"]) => StatusFirst(wire'["client"])
           /\ ~Deaf("client") => wire'["client"] = <<f>>
<1>1. "server" \in Ends /\ "client" \in Ends /\ f \in Frame /\ f # "fin" /\ f # "data"
      /\ f \notin Final
  BY DEF Frame, Final, Ends
<1> DEFINE c == wire["client"]
           t == Append(c, f)
<1>2. /\ wire' \in [Ends -> Seq(Frame)]
      /\ reader' \in [Ends -> [dataDone : YesNo, trailersDone : YesNo, awake : YesNo]]
      /\ wire'["client"] = IF Deaf("client") THEN c ELSE t
      /\ wire'["server"] = wire["server"]
      /\ \A d \in Ends : reader'[d].trailersDone = reader[d].trailersDone
  BY <1>1, DeliverIs DEF IInv
<1>3. /\ c \in Seq(Frame) /\ ~Has(c, Final)
      /\ ~Has(c, {"trailers"}) /\ ~Has(c, {"error trailers"}) /\ ~Has(c, {"fin"})
      /\ ~Has(c, {"error head"}) /\ DataFirst(c)
  BY NotFinished
<1>4. ~Deaf("client") => c = <<>>
  BY DEF Deaf, IInv, ClientSide
<1>5. ~Deaf("client") => t = <<f>>
  <2>1. Append(<<>>, f) = <<f>>
    BY <1>1, Single
  <2> HIDE DEF c
  <2>2. ASSUME c = <<>> PROVE t = <<f>>
    BY <2>1, <2>2, Zenon
  <2> QED
    BY <1>4, <2>2
<1> HIDE DEF c
<1>6. /\ Count(t) = Count(c) /\ DataFirst(t)
      /\ \A F : Has(t, F) <=> Has(c, F) \/ f \in F
      /\ StatusFirst(c) => StatusFirst(t)
  BY <1>1, <1>3, AppendFrame
<1> HIDE DEF t
<1>7. /\ ~Has(t, Final) /\ ~Has(t, {"trailers"}) /\ ~Has(t, {"error trailers"})
      /\ ~Has(t, {"fin"}) /\ (Has(t, {"error head"}) => f = "error head")
  BY <1>1, <1>3, <1>6
<1>8. CASE Deaf("client")
  BY <1>2, <1>3, <1>8 DEF c
<1>9. CASE ~Deaf("client")
  <2>1. wire'["client"] = t
    BY <1>2, <1>9
  <2> QED
    BY <1>2, <1>3, <1>5, <1>6, <1>7, <1>9, <2>1 DEF c
<1> QED
  BY <1>8, <1>9

LEMMA ServiceReturnsInv ==
    ASSUME IInv, ServiceReturns
    PROVE  IInv'
<1>1. /\ server = "call" /\ (service = "whole" => request = "whole")
      /\ server' = (IF Deaf("client") THEN "ended" ELSE "loop")
      /\ stopped \subseteq stopped' /\ Deliver("client", "head")
      /\ UNCHANGED <<config, clientVars, request, reply, kept, replied, verdict, got, lost>>
  BY DEF ServiceReturns
<1>2. /\ wire' \in [Ends -> Seq(Frame)]
      /\ reader' \in [Ends -> [dataDone : YesNo, trailersDone : YesNo, awake : YesNo]]
      /\ wire'["server"] = wire["server"]
      /\ \A d \in Ends : reader'[d].trailersDone = reader[d].trailersDone
      /\ DataFirst(wire'["client"]) /\ Count(wire'["client"]) = Count(wire["client"])
      /\ ~Has(wire'["client"], Final)
      /\ ~Has(wire'["client"], {"trailers"}) /\ ~Has(wire'["client"], {"error trailers"})
      /\ ~Has(wire'["client"], {"fin"}) /\ ~Has(wire'["client"], {"error head"})
      /\ StatusFirst(wire["client"]) => StatusFirst(wire'["client"])
  BY <1>1, HeadIsSent
<1>3. UNCHANGED <<service, script, body, sender, yielded, call, result>>
  BY <1>1 DEF config, clientVars
<1>4. Types'
  BY <1>1, <1>2, <1>3 DEF IInv, Types
<1>5. ReplySide'
  <2>1. /\ kept = "none"
        /\ service = "early" \/ (service = "whole" /\ request = "whole") => HasStatus(reply)
        /\ service = "echo" => request = "unknown" /\ reply = <<>> /\ replied = got["server"]
    BY <1>1 DEF IInv, ReplySide
  <2>2. reply = <<>> => Len(reply) = 0
    OBVIOUS
  <2>3. got["server"] \in Nat /\ replied \in Nat /\ service \in {"echo", "whole", "early"}
    BY DEF IInv, Types, Ends
  <2>4. service = "echo" => got["server"] = replied + Len(reply)
    BY <2>1, <2>2, <2>3
  <2> QED
    BY <1>1, <1>3, <2>1, <2>3, <2>4 DEF ReplySide, EchoReads
<1>6. ClientSide'
  <2>1. result # "ok" /\ result # "error" /\ result # "no status" /\ Count(wire["client"]) <= Window
    BY <1>1, NotFinished DEF IInv, ClientSide
  <2>2. lost = "no" => got["client"] + Count(wire["client"]) = replied
    BY DEF IInv, ClientSide
  <2>3. call \in {"waiting", "reading"} =>
            StatusFirst(wire["client"]) /\ reader["client"].trailersDone = "no"
    BY DEF IInv, ClientSide
  <2>4. server' \in {"ended", "loop"} /\ reader'["client"].trailersDone = reader["client"].trailersDone
    BY <1>1, <1>2 DEF Ends
  <2> QED
    BY <1>1, <1>2, <1>3, <2>1, <2>2, <2>3, <2>4 DEF ClientSide
<1> QED
  BY <1>1, <1>2, <1>4, <1>5, <1>6, ServerFrame DEF Ends

LEMMA RespondStatusInv ==
    ASSUME IInv, RespondStatus
    PROVE  IInv'
<1>1. /\ server = "call"
      /\ server' = (IF Deaf("client") THEN "ended" ELSE "finishing")
      /\ stopped \subseteq stopped' /\ Deliver("client", "error head") /\ verdict' = "error"
      /\ UNCHANGED <<config, clientVars, request, reply, kept, replied, got, lost>>
  BY DEF RespondStatus
<1>2. /\ wire' \in [Ends -> Seq(Frame)]
      /\ reader' \in [Ends -> [dataDone : YesNo, trailersDone : YesNo, awake : YesNo]]
      /\ wire'["server"] = wire["server"]
      /\ \A d \in Ends : reader'[d].trailersDone = reader[d].trailersDone
      /\ DataFirst(wire'["client"]) /\ Count(wire'["client"]) = Count(wire["client"])
      /\ ~Has(wire'["client"], Final)
      /\ ~Has(wire'["client"], {"trailers"}) /\ ~Has(wire'["client"], {"error trailers"})
      /\ ~Has(wire'["client"], {"fin"})
      /\ StatusFirst(wire["client"]) => StatusFirst(wire'["client"])
      /\ ~Deaf("client") => wire'["client"] = <<"error head">>
  BY <1>1, HeadIsSent
<1>3. UNCHANGED <<service, script, body, sender, yielded, call, result>>
  BY <1>1 DEF config, clientVars
<1>4. Types'
  BY <1>1, <1>2, <1>3 DEF IInv, Types
<1>5. ReplySide'
  <2>1. kept = "none"
    BY <1>1 DEF IInv, ReplySide
  <2> QED
    BY <1>1, <2>1 DEF ReplySide
<1>6. ClientSide'
  <2>1. result # "ok" /\ result # "error" /\ result # "no status" /\ Count(wire["client"]) <= Window
    BY <1>1, NotFinished DEF IInv, ClientSide
  <2>2. lost = "no" => got["client"] + Count(wire["client"]) = replied
    BY DEF IInv, ClientSide
  <2>3. call \in {"waiting", "reading"} =>
            StatusFirst(wire["client"]) /\ reader["client"].trailersDone = "no"
    BY DEF IInv, ClientSide
  <2>4. server' \in {"ended", "finishing"} /\ reader'["client"].trailersDone = reader["client"].trailersDone
    BY <1>1, <1>2 DEF Ends
  <2>5. server' = "finishing" => wire'["client"] = <<"error head">>
    BY <1>1, <1>2
  <2> QED
    BY <1>1, <1>2, <1>3, <2>1, <2>2, <2>3, <2>4, <2>5 DEF ClientSide
<1> QED
  BY <1>1, <1>2, <1>4, <1>5, <1>6, ServerFrame DEF Ends

(* A step of the server that gives nothing to the transport.               *)
LEMMA ServerOnly ==
    ASSUME IInv, Types', ReplySide', server # "ended", server' # "call",
           UNCHANGED <<config, clientVars, request, replied, readers, wire, lost>>,
           stopped \subseteq stopped',
           server = "finishing" => verdict' = verdict /\ server' \in {"finishing", "ended"},
           server' = "finishing" /\ kept' = "none" => Deaf("client")
    PROVE  IInv'
<1>1. /\ wire' = wire /\ got' = got /\ reader' = reader /\ call' = call /\ result' = result
      /\ lost' = lost /\ replied' = replied
  BY DEF readers, clientVars
<1>2. Deaf("client") => Deaf("client")'
  BY DEF Deaf
<1>3. ClientSide'
  <2>1. /\ ~Has(wire["client"], {"trailers"}) /\ ~Has(wire["client"], {"error trailers"})
        /\ ~Has(wire["client"], {"fin"}) /\ ~Has(wire["client"], Final)
        /\ server # "finishing" => ~Has(wire["client"], {"error head"})
        /\ result # "ok" /\ (server # "finishing" => result # "error")
    BY NotFinished
  <2> QED
    BY <1>1, <1>2, <2>1 DEF IInv, ClientSide
<1> QED
  BY <1>1, <1>3, ServerFrame DEF readers

LEMMA ReplyEndsInv ==
    ASSUME IInv, ReplyEnds \/ ReplyFails
    PROVE  IInv'
<1>1. /\ server \in {"loop", "finishing"} /\ server' \in {"finishing", "ended"}
      /\ stopped \subseteq stopped'
      /\ UNCHANGED <<config, clientVars, request, reply, kept, replied, verdict, readers, wire, lost>>
  BY DEF ReplyEnds, ReplyFails
<1>2. server' = "finishing" => ReplyEnds
  BY DEF ReplyFails
<1>3. Types'
  BY <1>1 DEF IInv, Types, config, clientVars, readers
<1>4. ReplySide'
  BY <1>1 DEF IInv, ReplySide, config, readers
<1>5. server' = "finishing" => kept # "none"
  <2>1. ASSUME ReplyEnds PROVE kept # "none"
    <3>1. server = "loop" /\ reply = <<>> /\ ~EchoReads
      BY <2>1 DEF ReplyEnds, ReadsRequest, EchoReads
    <3>2. ~HasStatus(reply)
      BY <3>1 DEF HasStatus
    <3> QED
      BY <3>1, <3>2 DEF IInv, ReplySide
  <2> QED
    BY <1>2, <2>1
<1> QED
  BY <1>1, <1>3, <1>4, <1>5, ServerOnly

LEMMA KeepTrailersInv ==
    ASSUME IInv, KeepTrailers
    PROVE  IInv'
<1>1. /\ server = "loop" /\ reply # <<>> /\ Head(reply) \in {"trailers", "error"}
      /\ kept' = (IF Head(reply) = "error" THEN "error trailers" ELSE "trailers")
      /\ verdict' = Head(reply)
      /\ reply' = (IF Head(reply) = "error" THEN <<>> ELSE Tail(reply))
      /\ server' = (IF Head(reply) = "error" THEN "finishing" ELSE server)
      /\ UNCHANGED <<config, clientVars, request, replied, readers, wire, stopped, lost>>
  BY DEF KeepTrailers, ReplyYields, Comes
<1>2. reply \in Seq(Item) /\ Tail(reply) \in Seq(Item) /\ <<>> \in Seq(Item)
  <2>1. reply \in Seq(Item)
    BY DEF IInv, Types
  <2>2. <<>> \in Seq(Item)
    OBVIOUS
  <2> QED
    BY <1>1, <2>1, <2>2, Taken
<1>3. Types'
  <2>1. reply' \in Seq(Item) /\ kept' \in {"none", "trailers", "error trailers"}
    BY <1>1, <1>2
  <2> QED
    BY <1>1, <2>1 DEF IInv, Types, config, clientVars, readers
<1>4. service' = service /\ request' = request /\ replied' = replied /\ got' = got
  BY <1>1 DEF config, readers
<1>5. ReplySide'
  <2>1. CASE Head(reply) = "error"
    BY <1>1, <2>1 DEF ReplySide
  <2>2. CASE Head(reply) = "trailers"
    <3>1. service = "echo" => request = "whole" /\ replied = got["server"] /\ reply = <<"trailers">>
      <4>1. Head(<<"data">>) = "data" /\ Head(<<"error">>) = "error"
        OBVIOUS
      <4>2. ASSUME service = "echo" PROVE ~EchoReads
        BY <1>1, <2>2, <4>1, <4>2 DEF IInv, ReplySide
      <4>3. request \in {"unknown", "whole", "error"}
        BY DEF IInv, Types
      <4>4. service = "echo" /\ request = "error" => reply = <<"error">>
        BY <1>1 DEF IInv, ReplySide
      <4>5. service = "echo" => request = "whole"
        BY <2>2, <4>1, <4>2, <4>3, <4>4 DEF EchoReads
      <4> QED
        BY <1>1, <4>5 DEF IInv, ReplySide
    <3>2. Tail(<<"trailers">>) = <<>>
      OBVIOUS
    <3>3. kept' = "trailers" /\ verdict' = "trailers" /\ server' = "loop" /\ reply' = Tail(reply)
      BY <1>1, <2>2
    <3>4. service = "echo" => reply' = <<>>
      BY <3>1, <3>2, <3>3
    <3> QED
      BY <1>4, <3>1, <3>3, <3>4 DEF ReplySide, EchoReads
  <2> QED
    BY <1>1, <2>1, <2>2
<1> QED
  BY <1>1, <1>3, <1>5, ServerOnly

LEMMA SendReplyInv ==
    ASSUME IInv, SendReply
    PROVE  IInv'
<1>1. /\ server = "loop" /\ reply # <<>> /\ Head(reply) = "data"
      /\ ~Deaf("client") /\ Room("client") /\ Deliver("client", "data")
      /\ replied' = replied + 1 /\ reply' = Tail(reply)
      /\ UNCHANGED <<config, clientVars, request, server, kept, verdict, got, stopped, lost>>
  BY DEF SendReply, ReplyYields, Comes
<1> DEFINE c == wire["client"]
           t == Append(c, "data")
<1>2. "server" \in Ends /\ "client" \in Ends /\ "data" \in Frame /\ "data" \notin Final
  BY DEF Frame, Final, Ends
<1>3. /\ wire' \in [Ends -> Seq(Frame)]
      /\ reader' \in [Ends -> [dataDone : YesNo, trailersDone : YesNo, awake : YesNo]]
      /\ wire'["client"] = t /\ wire'["server"] = wire["server"]
      /\ \A d \in Ends : reader'[d].trailersDone = reader[d].trailersDone
  BY <1>1, <1>2, DeliverIs DEF IInv
<1>4. /\ c \in Seq(Frame) /\ ~Has(c, Final)
      /\ ~Has(c, {"trailers"}) /\ ~Has(c, {"error trailers"})
      /\ ~Has(c, {"fin"}) /\ ~Has(c, {"error head"})
      /\ result # "ok" /\ result # "error"
      /\ DataFirst(c) /\ Count(c) \in Nat /\ Window \in Nat /\ got["client"] \in Nat
  BY <1>1, NotFinished
<1>5. Count(c) < Window /\ lost = "no" /\ got["client"] + Count(c) = replied
  BY <1>1, RoomIs, NotLost
<1>6. replied \in Nat /\ got["server"] \in Nat /\ result # "no status"
  BY <1>2 DEF IInv, Types, ClientSide
<1>7. call \in {"waiting", "reading"} =>
          StatusFirst(c) /\ reader["client"].trailersDone = "no"
  BY DEF IInv, ClientSide
<1> HIDE DEF c
<1>8. /\ Count(t) = Count(c) + 1 /\ DataFirst(t)
      /\ \A F : Has(t, F) <=> Has(c, F) \/ "data" \in F
      /\ StatusFirst(c) => StatusFirst(t)
  BY <1>2, <1>4, AppendFrame
<1> HIDE DEF t
<1>9. /\ ~Has(t, Final) /\ ~Has(t, {"trailers"}) /\ ~Has(t, {"error trailers"})
      /\ ~Has(t, {"fin"}) /\ ~Has(t, {"error head"})
  BY <1>2, <1>4, <1>8
<1>10. Count(t) <= Window /\ got["client"] + Count(t) = replied'
  <2>1. Count(t) = Count(c) + 1
    BY <1>8
  <2>2. replied' = replied + 1
    BY <1>1
  <2>3. Count(c) \in Nat /\ Window \in Nat /\ got["client"] \in Nat
    BY <1>4
  <2>4. Count(c) < Window /\ got["client"] + Count(c) = replied
    BY <1>5
  <2>5. Count(c) + 1 <= Window /\ got["client"] + (Count(c) + 1) = replied + 1
    BY <2>3, <2>4
  <2> QED
    BY <2>1, <2>2, <2>5
<1>11. got' = got /\ call' = call /\ result' = result /\ service' = service /\ request' = request
  BY <1>1 DEF config, clientVars
<1>12. ClientSide'
  <2>1. reader'["client"].trailersDone = reader["client"].trailersDone
    BY <1>2, <1>3
  <2> QED
    BY <1>1, <1>3, <1>4, <1>6, <1>7, <1>8, <1>9, <1>10, <1>11, <2>1 DEF ClientSide
<1>13. /\ reply \in Seq(Item) /\ Tail(reply) \in Seq(Item)
       /\ Len(reply) \in Nat \ {0} /\ Len(Tail(reply)) = Len(reply) - 1 /\ reply[1] = "data"
       /\ \A i \in 1..Len(Tail(reply)) : Tail(reply)[i] = reply[i + 1]
  <2>1. reply \in Seq(Item)
    BY DEF IInv, Types
  <2> QED
    BY <1>1, <2>1, Taken
<1>14. HasStatus(reply) => HasStatus(Tail(reply))
  <2>1. ASSUME HasStatus(reply) PROVE HasStatus(Tail(reply))
    <3>1. PICK i \in 1..Len(reply) : reply[i] \in {"trailers", "error"}
      BY <2>1 DEF HasStatus
    <3>2. i # 1
      BY <1>13, <3>1
    <3>3. i - 1 \in 1..Len(Tail(reply)) /\ (i - 1) + 1 = i
      BY <1>13, <3>2
    <3>4. Tail(reply)[i - 1] \in {"trailers", "error"}
      BY <1>13, <3>1, <3>3
    <3> QED
      BY <3>3, <3>4 DEF HasStatus
  <2> QED
    BY <2>1
<1>15. service = "echo" =>
           request = "unknown" /\ kept = "none" /\ reply = <<"data">> /\ got["server"] = replied + 1
  <2>1. Head(<<"trailers">>) = "trailers" /\ Head(<<"error">>) = "error" /\ Len(<<"data">>) = 1
    OBVIOUS
  <2>2. ASSUME service = "echo" PROVE request = "unknown"
    <3>1. request \in {"unknown", "whole", "error"}
      BY DEF IInv, Types
    <3>2. request = "whole" => reply \in {<<>>, <<"trailers">>}
      BY <1>1, <2>2 DEF IInv, ReplySide
    <3>3. request = "error" => reply = <<"error">>
      BY <1>1, <2>2 DEF IInv, ReplySide
    <3> QED
      BY <1>1, <2>1, <3>1, <3>2, <3>3
  <2>3. service = "echo" =>
            kept = "none" /\ reply \in {<<>>, <<"data">>} /\ got["server"] = replied + Len(reply)
    BY <1>1, <2>2 DEF IInv, ReplySide, EchoReads
  <2> QED
    BY <1>1, <2>1, <2>2, <2>3
<1>16. ReplySide'
  <2>1. kept = "trailers" => verdict = "trailers" /\ service # "echo"
    BY <1>15 DEF IInv, ReplySide
  <2>2. kept = "error trailers" => verdict = "error"
    BY DEF IInv, ReplySide
  <2>3. service = "echo" => reply' = <<>> /\ got["server"] = replied' + Len(reply')
    <3>1. Tail(<<"data">>) = <<>> /\ Len(<<>>) = 0
      OBVIOUS
    <3>2. ASSUME service = "echo" PROVE reply' = <<>> /\ got["server"] = replied + 1
      BY <1>1, <1>15, <3>1, <3>2
    <3>3. replied' = replied + 1
      BY <1>1
    <3>4. replied \in Nat
      BY <1>6
    <3>5. replied + 1 = (replied + 1) + 0
      BY <3>4
    <3>6. ASSUME reply' = <<>> PROVE replied' + Len(reply') = replied + 1
      BY <3>1, <3>3, <3>5, <3>6
    <3> QED
      BY <3>2, <3>6
  <2>4. ~EchoReads => kept # "none" \/ HasStatus(reply')
    BY <1>1, <1>14 DEF IInv, ReplySide
  <2> QED
    BY <1>1, <1>11, <1>15, <2>1, <2>2, <2>3, <2>4 DEF ReplySide, EchoReads
<1>17. Types'
  <2>1. reply' \in Seq(Item)
    BY <1>1, <1>13
  <2>2. replied' \in Nat
    <3>1. replied' = replied + 1
      BY <1>1
    <3>2. replied \in Nat
      BY <1>6
    <3> QED
      BY <3>1, <3>2
  <2> QED
    BY <1>1, <1>3, <2>1, <2>2 DEF IInv, Types, config, clientVars
<1> QED
  BY <1>1, <1>2, <1>3, <1>12, <1>16, <1>17, ServerFrame

LEMMA FinishReplyInv ==
    ASSUME IInv, FinishReply
    PROVE  IInv'
<1>1. /\ server = "finishing" /\ ~Deaf("client")
      /\ wire' = [wire EXCEPT !["client"] =
                      @ \o (IF kept = "none" THEN <<>> ELSE <<kept>>) \o <<"fin">>]
      /\ reader' = [reader EXCEPT !["client"].awake = "yes"]
      /\ server' = "ended" /\ stopped \subseteq stopped'
      /\ UNCHANGED <<config, clientVars, request, reply, kept, replied, verdict, got, lost>>
  BY DEF FinishReply, Wake
<1> DEFINE c == wire["client"]
           m == IF kept = "none" THEN c ELSE Append(c, kept)
           t == Append(m, "fin")
           R == [dataDone : YesNo, trailersDone : YesNo, awake : YesNo]
<1>2. "server" \in Ends /\ "client" \in Ends /\ "fin" \in Frame /\ kept \in {"none", "trailers", "error trailers"}
      /\ (kept # "none" => kept \in Frame)
  BY DEF Frame, Ends, IInv, Types
<1>3. /\ c \in Seq(Frame) /\ ~Has(c, Final)
      /\ ~Has(c, {"trailers"}) /\ ~Has(c, {"error trailers"}) /\ ~Has(c, {"fin"})
      /\ result # "ok" /\ DataFirst(c) /\ Count(c) \in Nat /\ Count(c) <= Window
  BY <1>1, NotFinished
<1>4. lost = "no" /\ got["client"] + Count(c) = replied
  BY <1>1, NotLost
<1>5. wire \in [Ends -> Seq(Frame)] /\ reader \in [Ends -> R]
  BY DEF IInv, Types
<1>6. /\ reader' \in [Ends -> R]
      /\ \A d \in Ends : reader'[d].trailersDone = reader[d].trailersDone
  BY <1>1, <1>2, <1>5 DEF YesNo
<1>7. /\ call \in {"waiting", "reading"} =>
             StatusFirst(c) /\ reader["client"].trailersDone = "no"
      /\ Has(c, {"error head"}) => verdict = "error"
      /\ result = "error" => verdict = "error"
      /\ result # "no status"
      /\ kept = "none" => call \in {"done", "gone"} \/ c = <<"error head">>
  BY <1>1 DEF IInv, ClientSide
<1>8. c \o (IF kept = "none" THEN <<>> ELSE <<kept>>) \o <<"fin">> = t
  <2> HIDE DEF c
  <2>1. c \o (IF kept = "none" THEN <<>> ELSE <<kept>>) = m
    <3>1. CASE kept = "none"
      <4>1. c \o <<>> = c
        BY <1>2, <1>3, AppendIs
      <4> QED
        BY <3>1, <4>1, Zenon
    <3>2. CASE kept # "none"
      BY <1>2, <1>3, <3>2, AppendIs
    <3> QED
      BY <3>1, <3>2
  <2>2. m \in Seq(Frame)
    <3>1. kept # "none" => Append(c, kept) \in Seq(Frame)
      BY <1>2, <1>3, Appended
    <3> QED
      BY <1>3, <3>1
  <2> HIDE DEF m
  <2>3. m \o <<"fin">> = t
    BY <1>2, <2>2, AppendIs
  <2> QED
    BY <2>1, <2>3, Zenon
<1>9. wire' \in [Ends -> Seq(Frame)] /\ wire'["server"] = wire["server"] /\ wire'["client"] = t
  <2>1. t \in Seq(Frame)
    <3> HIDE DEF c
    <3>1. m \in Seq(Frame)
      <4>1. kept # "none" => Append(c, kept) \in Seq(Frame)
        BY <1>2, <1>3, Appended
      <4> QED
        BY <1>3, <4>1
    <3> HIDE DEF m
    <3> QED
      BY <1>2, <3>1, Appended
  <2>2. wire' = [wire EXCEPT !["client"] = t]
    <3> HIDE DEF t
    <3> QED
      BY <1>1, <1>8 DEF c
  <2> HIDE DEF t
  <2> QED
    BY <1>2, <1>5, <2>1, <2>2
<1> HIDE DEF c
<1>10. /\ m \in Seq(Frame) /\ Count(m) = Count(c) /\ DataFirst(m)
       /\ \A F : Has(m, F) => Has(c, F) \/ (kept # "none" /\ kept \in F)
       /\ StatusFirst(c) => StatusFirst(m)
       /\ kept # "none" => m # <<>> /\ m[Len(m)] = kept
  <2>1. CASE kept = "none"
    BY <1>3, <2>1
  <2>2. CASE kept # "none"
    <3>1. kept \in Frame /\ kept # "data" /\ kept # "fin"
      BY <1>2, <2>2
    <3>2. /\ m \in Seq(Frame) /\ Count(m) = Count(c) /\ DataFirst(m)
          /\ \A F : Has(m, F) <=> Has(c, F) \/ kept \in F
          /\ StatusFirst(c) => StatusFirst(m)
      BY <1>3, <2>2, <3>1, AppendFrame
    <3>3. Len(m) = Len(c) + 1 /\ m[Len(c) + 1] = kept /\ Len(c) \in Nat
      BY <1>3, <2>2, <3>1, Appended
    <3>4. m # <<>>
      BY <3>3
    <3> QED
      BY <2>2, <3>2, <3>3, <3>4
  <2> QED
    BY <2>1, <2>2
<1>11. call \in {"waiting", "reading"} =>
           StatusFirst(m) /\ m # <<>> /\ m[Len(m)] \in {"trailers", "error trailers", "error head"}
  <2>1. kept = "none" /\ call \in {"waiting", "reading"} => m = <<"error head">>
    BY <1>7
  <2>2. Len(<<"error head">>) = 1 /\ <<"error head">>[1] = "error head" /\ <<"error head">> # <<>>
    OBVIOUS
  <2> HIDE DEF m
  <2>3. kept = "none" /\ call \in {"waiting", "reading"} => m # <<>> /\ m[Len(m)] = "error head"
    BY <2>1, <2>2, Zenon
  <2> QED
    BY <1>2, <1>7, <1>10, <2>3
<1> HIDE DEF m
<1>12. /\ Count(t) = Count(c) /\ DataFirst(t)
       /\ \A F : Has(t, F) => Has(m, F) \/ "fin" \in F
       /\ call \in {"waiting", "reading"} => StatusFirst(t)
  BY <1>2, <1>3, <1>10, <1>11, AppendFrame
<1> HIDE DEF t
<1>13. /\ Has(t, {"trailers"}) => kept = "trailers"
       /\ Has(t, {"error trailers"}) => kept = "error trailers"
       /\ Has(t, {"error head"}) => verdict = "error"
  <2>1. ASSUME NEW f \in Frame, f # "fin", ~Has(c, {f}), Has(t, {f}) PROVE kept = f
    <3>1. Has(m, {f})
      BY <1>12, <2>1
    <3> QED
      BY <1>10, <2>1, <3>1
  <2>2. "trailers" \in Frame /\ "error trailers" \in Frame /\ "error head" \in Frame
    BY DEF Frame
  <2> QED
    BY <1>2, <1>3, <1>7, <2>1, <2>2
<1>14. got' = got /\ call' = call /\ result' = result /\ lost' = lost /\ kept' = kept
       /\ verdict' = verdict /\ replied' = replied
  BY <1>1 DEF clientVars
<1>15. ClientSide'
  <2>1. reader'["client"].trailersDone = reader["client"].trailersDone
    BY <1>2, <1>6
  <2>2. Count(t) <= Window /\ got["client"] + Count(t) = replied
    BY <1>3, <1>4, <1>12
  <2> QED
    BY <1>1, <1>3, <1>7, <1>9, <1>12, <1>13, <1>14, <2>1, <2>2 DEF ClientSide
<1>16. ReplySide'
  BY <1>1 DEF IInv, ReplySide, config
<1>17. Types'
  BY <1>1, <1>6, <1>9 DEF IInv, Types, config, clientVars
<1> QED
  BY <1>1, <1>2, <1>6, <1>9, <1>15, <1>16, <1>17, ServerFrame
-----------------------------------------------------------------------------
(* The caller.                                                             *)
LEMMA CallerFrame ==
    ASSUME IInv, Types', ClientSide', stopped \subseteq stopped',
           UNCHANGED <<config, body, sender, yielded, serverVars, lost>>,
           wire'["server"] = wire["server"], got'["server"] = got["server"],
           reader'["server"].trailersDone = reader["server"].trailersDone
    PROVE  IInv'
BY RequestStays, ReplyStays DEF IInv, config, serverVars

(* The frames that are left when the caller takes one.                     *)
Left ==
    /\ DataFirst(wire["client"]) /\ Count(wire["client"]) <= Window
    /\ lost = "no" \/ Has(wire["client"], Final) =>
           got["client"] + Count(wire["client"]) = replied
    /\ Has(wire["client"], {"trailers"}) => server = "ended" /\ kept = "trailers"
    /\ Has(wire["client"], {"error trailers"}) => server = "ended" /\ kept = "error trailers"
    /\ Has(wire["client"], {"fin"}) => server = "ended"
    /\ Has(wire["client"], {"error head"}) =>
           server \in {"finishing", "ended"} /\ verdict = "error"
    /\ server = "call" => lost = "yes" \/ wire["client"] = <<>>

LEMMA CallerTakes ==
    ASSUME IInv, wire["client"] # <<>>, UNCHANGED <<serverVars, lost>>,
           wire'["client"] = Tail(wire["client"]),
           got'["client"] = IF Head(wire["client"]) = "data" THEN got["client"] + 1
                            ELSE got["client"]
    PROVE  Left'
<1> DEFINE c == wire["client"]
           t == Tail(c)
           g == got["client"]
<1>1. "client" \in Ends
  BY DEF Ends
<1>2. /\ c \in Seq(Frame) /\ g \in Nat /\ Count(c) \in Nat /\ Window \in Nat \ {0}
  BY <1>1, Typed DEF IInv
<1>3. /\ DataFirst(c) /\ Count(c) <= Window
      /\ lost = "no" \/ Has(c, Final) => g + Count(c) = replied
      /\ Has(c, {"trailers"}) => server = "ended" /\ kept = "trailers"
      /\ Has(c, {"error trailers"}) => server = "ended" /\ kept = "error trailers"
      /\ Has(c, {"fin"}) => server = "ended"
      /\ Has(c, {"error head"}) => server \in {"finishing", "ended"} /\ verdict = "error"
      /\ server = "call" => lost = "yes"
  BY DEF IInv, ClientSide
<1>4. server' = server /\ kept' = kept /\ verdict' = verdict /\ replied' = replied /\ lost' = lost
  BY DEF serverVars
<1>5. wire'["client"] = t /\ got'["client"] = IF Head(c) = "data" THEN g + 1 ELSE g
  OBVIOUS
<1> HIDE DEF c, g
<1>6. /\ t \in Seq(Frame)
      /\ Count(c) = IF Head(c) = "data" THEN Count(t) + 1 ELSE Count(t)
      /\ \A F : Has(t, F) => Has(c, F)
      /\ DataFirst(t)
  BY <1>2, <1>3, TakeFrame DEF c
<1> HIDE DEF t
<1>7. Count(t) \in Nat
  BY <1>6, CountIsNat
<1>8. Count(t) <= Window
  <2>1. Count(c) = IF Head(c) = "data" THEN Count(t) + 1 ELSE Count(t)
    BY <1>6
  <2>2. Window \in Nat /\ Count(c) <= Window
    BY <1>2, <1>3
  <2>3. CASE Head(c) = "data"
    <3>1. Count(t) + 1 <= Window
      BY <2>1, <2>2, <2>3
    <3> QED
      BY <1>7, <2>2, <3>1
  <2>4. CASE Head(c) # "data"
    <3>1. Count(t) = Count(c)
      BY <2>1, <2>4
    <3> QED
      BY <2>2, <3>1
  <2> QED
    BY <2>3, <2>4
<1>9. got'["client"] + Count(t) = g + Count(c)
  <2>1. Count(c) = IF Head(c) = "data" THEN Count(t) + 1 ELSE Count(t)
    BY <1>6
  <2>2. (g + 1) + Count(t) = g + (Count(t) + 1)
    BY <1>2, <1>7
  <2> QED
    BY <1>5, <2>1, <2>2
<1>10. lost = "no" \/ Has(t, Final) => got'["client"] + Count(t) = replied
  BY <1>3, <1>6, <1>9
<1>11. /\ Has(t, {"trailers"}) => server = "ended" /\ kept = "trailers"
       /\ Has(t, {"error trailers"}) => server = "ended" /\ kept = "error trailers"
       /\ Has(t, {"fin"}) => server = "ended"
       /\ Has(t, {"error head"}) => server \in {"finishing", "ended"} /\ verdict = "error"
  BY <1>3, <1>6
<1> QED
  BY <1>3, <1>4, <1>5, <1>6, <1>8, <1>10, <1>11 DEF Left

LEMMA CallerLeavesInv ==
    ASSUME IInv, ClientTimesOut \/ CallerLeaves
    PROVE  IInv'
<1>1. /\ call \in {"waiting", "reading"} /\ call' \in {"done", "gone"}
      /\ (result' = result \/ result' = "deadline exceeded") /\ stopped \subseteq stopped'
      /\ UNCHANGED <<config, body, sender, yielded, serverVars, readers, wire, lost>>
  BY DEF ClientTimesOut, CallerLeaves, Tell
<1>2. Types'
  <2>1. result' \in Outcome /\ call' \in {"waiting", "reading", "done", "gone"}
    BY <1>1 DEF IInv, Types, Outcome
  <2> QED
    BY <1>1, <2>1 DEF IInv, Types, config, serverVars, readers
<1>3. ClientSide'
  <2>1. result # "ok"
    BY <1>1 DEF IInv, ClientSide
  <2>2. /\ wire' = wire /\ got' = got /\ reader' = reader /\ lost' = lost /\ server' = server
        /\ kept' = kept /\ verdict' = verdict /\ replied' = replied
    BY <1>1 DEF readers, serverVars
  <2> QED
    BY <1>1, <2>1, <2>2 DEF IInv, ClientSide
<1> QED
  BY <1>1, <1>2, <1>3, CallerFrame DEF readers

LEMMA ReceiveHeadInv ==
    ASSUME IInv, ReceiveHead
    PROVE  IInv'
<1> DEFINE c == wire["client"]
<1>1. /\ call = "waiting" /\ c # <<>> /\ Head(c) \in {"head", "error head", "reset"}
      /\ Head(c) = "head" => call' = "reading" /\ result' = result
      /\ Head(c) = "reset" => call' = "done" /\ result' = "transport error"
      /\ Head(c) = "error head" => call' = "done" /\ result' = "error"
      /\ wire' = [wire EXCEPT !["client"] = Tail(@)]
      /\ UNCHANGED <<config, body, sender, yielded, serverVars, readers, stopped, lost>>
  BY DEF ReceiveHead, At, Comes, Tell
<1>2. "server" \in Ends /\ "client" \in Ends
  BY DEF Ends
<1>3. c \in Seq(Frame)
  BY <1>2, Typed DEF IInv
<1>4. Tail(c) \in Seq(Frame) /\ Head(c) = c[1] /\ 1 \in 1..Len(c)
  <2> HIDE DEF c
  <2> QED
    BY <1>1, <1>3, Taken
<1>5. wire' \in [Ends -> Seq(Frame)] /\ wire'["client"] = Tail(c) /\ wire'["server"] = wire["server"]
  <2>1. wire \in [Ends -> Seq(Frame)]
    BY DEF IInv, Types
  <2> QED
    BY <1>1, <1>2, <1>4, <2>1
<1>6. call' \in {"reading", "done"} /\ result' \in Outcome
  BY <1>1 DEF IInv, Types, Outcome
<1>7. Types'
  BY <1>1, <1>5, <1>6 DEF IInv, Types, config, serverVars, readers
<1>8. Left'
  <2>1. got' = got /\ Head(c) # "data"
    BY <1>1 DEF readers
  <2> QED
    BY <1>1, <1>5, <2>1, CallerTakes
<1>9. StatusFirst(c) /\ reader["client"].trailersDone = "no" /\ result # "ok" /\ result # "no status"
      /\ (result = "error" => server \in {"finishing", "ended"} /\ verdict = "error")
      /\ (Has(c, {"error head"}) => server \in {"finishing", "ended"} /\ verdict = "error")
      /\ (server = "finishing" /\ kept = "none" => Deaf("client") \/ c = <<"error head">>)
  BY <1>1 DEF IInv, ClientSide
<1>10. call' = "reading" => StatusFirst(Tail(c))
  <2> HIDE DEF c
  <2> QED
    BY <1>1, <1>3, <1>9, TakeFrame
<1>11. result' = "error" => server \in {"finishing", "ended"} /\ verdict = "error"
  <2>1. ASSUME Head(c) = "error head" PROVE Has(c, {"error head"})
    <3> HIDE DEF c
    <3> QED
      BY <1>4, <2>1 DEF Has
  <2> QED
    BY <1>1, <1>9, <2>1
<1>12. server = "finishing" /\ kept = "none" => Deaf("client") \/ call' = "done"
  <2>1. Head(<<"error head">>) = "error head"
    OBVIOUS
  <2>2. c = <<"error head">> => call' = "done"
    BY <1>1, <2>1
  <2> QED
    BY <1>9, <2>2
<1>13. server' = server /\ kept' = kept /\ verdict' = verdict /\ replied' = replied
       /\ reader' = reader /\ got' = got /\ Deaf("client")' = Deaf("client")
  BY <1>1 DEF serverVars, readers, Deaf
<1>14. ClientSide'
  <2>1. result' # "ok" /\ result' # "no status"
    BY <1>1, <1>9
  <2>2. call' \in {"waiting", "reading"} => StatusFirst(wire'["client"])
    BY <1>5, <1>6, <1>10
  <2> QED
    BY <1>8, <1>9, <1>11, <1>12, <1>13, <2>1, <2>2 DEF Left, ClientSide
<1> QED
  BY <1>1, <1>2, <1>5, <1>7, <1>13, <1>14, CallerFrame

LEMMA ReadReplyInv ==
    ASSUME IInv, ReadReply
    PROVE  IInv'
<1> DEFINE c == wire["client"]
           g == got["client"]
<1>1. PICK yield \in {"data", "pending", "trailers", "error trailers", "none", "error"} :
          /\ PollFrame("client", yield)
          /\ yield \in {"data", "pending"} => call' = call /\ result' = result
          /\ yield = "trailers" => call' = "done" /\ result' = "ok"
          /\ yield = "error trailers" => call' = "done" /\ result' = "error"
          /\ yield = "none" => call' = "done" /\ result' = "no status"
          /\ yield = "error" => call' = "done" /\ result' = "transport error"
  BY DEF ReadReply, Tell, Trailers
<1>2. /\ call = "reading"
      /\ UNCHANGED <<config, body, sender, yielded, serverVars, stopped, lost>>
  BY DEF ReadReply
<1>3. "server" \in Ends /\ "client" \in Ends
  BY DEF Ends
<1>4. /\ wire' \in [Ends -> Seq(Frame)] /\ got' \in [Ends -> Nat]
      /\ reader' \in [Ends -> [dataDone : YesNo, trailersDone : YesNo, awake : YesNo]]
      /\ wire'["server"] = wire["server"] /\ got'["server"] = got["server"]
      /\ reader'["server"] = reader["server"]
      /\ \/ TellsData("client", yield) \/ TellsEnd("client", yield)
         \/ TellsNothing("client", yield)
  BY <1>1, <1>3, PollIs DEF IInv
<1>5. c \in Seq(Frame)
  BY <1>3, Typed DEF IInv
<1>6. StatusFirst(c) /\ reader["client"].trailersDone = "no" /\ result # "ok" /\ result # "no status"
      /\ (result = "error" => server \in {"finishing", "ended"} /\ verdict = "error")
      /\ (Has(c, {"trailers"}) => server = "ended" /\ kept = "trailers")
      /\ (Has(c, {"error trailers"}) => server = "ended" /\ kept = "error trailers")
      /\ (Has(c, Final) => g + Count(c) = replied) /\ DataFirst(c)
      /\ (server = "finishing" /\ kept = "none" => Deaf("client") \/ c = <<"error head">>)
  BY <1>2 DEF IInv, ClientSide
<1>7. server' = server /\ kept' = kept /\ verdict' = verdict /\ replied' = replied
      /\ lost' = lost /\ Deaf("client")' = Deaf("client")
  BY <1>2 DEF serverVars, Deaf
<1>8. call' \in {"reading", "done"} /\ result' \in Outcome
  BY <1>1, <1>2 DEF IInv, Types, Outcome
<1>9. Types'
  BY <1>2, <1>4, <1>8 DEF IInv, Types, config, serverVars
<1>10. CASE TellsData("client", yield)
  <2>1. /\ yield = "data" /\ c # <<>> /\ Head(c) = "data" /\ wire'["client"] = Tail(c)
        /\ got'["client"] = g + 1
        /\ reader'["client"].trailersDone = "no"
    BY <1>6, <1>10 DEF TellsData
  <2>2. Left'
    BY <1>2, <2>1, CallerTakes
  <2>3. StatusFirst(Tail(c))
    <3> HIDE DEF c
    <3> QED
      BY <1>5, <1>6, <2>1, TakeFrame
  <2>4. ~(c = <<"error head">>)
    <3>1. Head(<<"error head">>) = "error head"
      BY HeadOfSingle
    <3> QED
      BY <2>1, <3>1
  <2>5. call' = "reading" /\ result' = result
    BY <1>1, <1>2, <2>1
  <2>6. ClientSide'
    BY <1>6, <1>7, <2>1, <2>2, <2>3, <2>4, <2>5 DEF Left, ClientSide
  <2> QED
    BY <1>2, <1>4, <1>9, <2>6, CallerFrame
<1>11. CASE TellsEnd("client", yield)
  <2>1. /\ yield \in {"trailers", "error trailers", "none"} /\ c # <<>>
        /\ Head(c) = (IF yield = "none" THEN "fin" ELSE yield)
        /\ wire'["client"] = Tail(c) /\ got'["client"] = g
    BY <1>11 DEF TellsEnd, Trailers
  <2>2. Head(c) # "data" /\ Head(c) \in Final
    BY <2>1 DEF Final
  <2>3. Left'
    BY <1>2, <2>1, <2>2, CallerTakes
  <2>4. Head(c) = c[1] /\ 1 \in 1..Len(c)
    <3> HIDE DEF c
    <3> QED
      BY <1>5, <2>1, Taken
  <2>5. yield # "none"
    <3> HIDE DEF c
    <3>1. Head(c) # "fin"
      BY <1>5, <1>6, <2>1, EndIsNotFirst
    <3> QED
      BY <2>1, <3>1
  <2>6. Has(c, Final) /\ Has(c, {Head(c)})
    <3> HIDE DEF c
    <3> QED
      BY <2>2, <2>4 DEF Has
  <2>7. g = replied
    <3>1. Count(c) = 0
      <4> HIDE DEF c
      <4> QED
        BY <1>5, <1>6, <2>1, <2>2, NoDataLeft
    <3>2. g \in Nat
      BY <1>3, Typed DEF IInv
    <3>3. g + Count(c) = replied
      BY <1>6, <2>6
    <3> HIDE DEF c, g
    <3> QED
      BY <3>1, <3>2, <3>3, NothingMore
  <2>8. CASE yield = "trailers"
    <3>1. call' = "done" /\ result' = "ok" /\ server = "ended" /\ kept = "trailers"
      BY <1>1, <1>6, <2>1, <2>6, <2>8
    <3>2. got'["client"] = replied'
      BY <1>7, <2>1, <2>7
    <3>3. ClientSide'
      BY <1>7, <2>3, <3>1, <3>2 DEF Left, ClientSide
    <3> QED
      BY <1>2, <1>4, <1>9, <3>3, CallerFrame
  <2>9. CASE yield = "error trailers"
    <3>1. call' = "done" /\ result' = "error" /\ server = "ended" /\ kept = "error trailers"
      BY <1>1, <1>6, <2>1, <2>6, <2>9
    <3>2. verdict = "error"
      BY <3>1 DEF IInv, ReplySide
    <3>3. ClientSide'
      BY <1>7, <2>3, <3>1, <3>2 DEF Left, ClientSide
    <3> QED
      BY <1>2, <1>4, <1>9, <3>3, CallerFrame
  <2> QED
    BY <2>1, <2>5, <2>8, <2>9
<1>12. CASE TellsNothing("client", yield)
  <2>1. wire'["client"] = c /\ got'["client"] = g
    BY <1>12 DEF TellsNothing
  <2>2. CASE yield = "pending"
    <3>1. reader'["client"].trailersDone = reader["client"].trailersDone
      BY <1>12, <2>2 DEF TellsNothing
    <3>2. call' = call /\ result' = result
      BY <1>1, <2>2
    <3>3. UNCHANGED <<server, kept, verdict, replied>>
      BY <1>7
    <3>4. ClientSide'
      BY <1>2, <2>1, <3>1, <3>2, <3>3, ClientStays DEF IInv
    <3> QED
      BY <1>2, <1>4, <1>9, <3>4, CallerFrame
  <2>3. CASE yield = "error"
    <3>1. call' = "done" /\ result' = "transport error"
      BY <1>1, <2>3
    <3>2. ClientSide'
      BY <1>7, <2>1, <3>1 DEF IInv, ClientSide
    <3> QED
      BY <1>2, <1>4, <1>9, <3>2, CallerFrame
  <2> QED
    BY <1>6, <1>12, <2>2, <2>3 DEF TellsNothing
<1> QED
  BY <1>4, <1>10, <1>11, <1>12
-----------------------------------------------------------------------------
(* A lost connection cuts the frames on their way off, and no end frame    *)
(* stays that lost data in front of it.                                    *)
LEMMA ConnectionLostInv ==
    ASSUME IInv, ConnectionLost
    PROVE  IInv'
<1>1. /\ lost' = "yes"
      /\ reader' = [e \in Ends |-> [reader[e] EXCEPT !.awake = "yes"]]
      /\ UNCHANGED <<config, clientVars, serverVars, got, stopped>>
  BY DEF ConnectionLost
<1>2. PICK n \in 0..Len(wire["client"]), m \in 0..Len(wire["server"]) :
          wire' = [e \in Ends |->
              Append(SubSeq(wire[e], 1, IF e = "client" THEN n ELSE m), "reset")]
  BY DEF ConnectionLost
<1> DEFINE c == wire["client"]
           w == wire["server"]
           tc == Append(SubSeq(c, 1, n), "reset")
           tw == Append(SubSeq(w, 1, m), "reset")
<1>3. "server" \in Ends /\ "client" \in Ends /\ \A e \in Ends : e \in {"client", "server"}
  BY DEF Ends
<1>4. wire'["client"] = tc /\ wire'["server"] = tw
  BY <1>2, <1>3
<1>5. c \in Seq(Frame) /\ w \in Seq(Frame) /\ Window \in Nat
  BY <1>3, Typed DEF IInv
<1>6. /\ tc \in Seq(Frame) /\ Count(tc) <= Count(c) /\ Count(tc) \in Nat /\ Count(c) \in Nat
      /\ DataFirst(c) /\ Has(tc, Final) => Count(tc) = Count(c)
      /\ \A F : Has(tc, F) => Has(c, F) \/ "reset" \in F
      /\ DataFirst(c) => DataFirst(tc)
      /\ StatusFirst(c) => StatusFirst(tc)
  <2> HIDE DEF c
  <2> QED
    BY <1>2, <1>5, CutFrames DEF c
<1>7. /\ tw \in Seq(Frame) /\ Count(tw) <= Count(w) /\ Count(tw) \in Nat /\ Count(w) \in Nat
      /\ DataFirst(w) /\ Has(tw, Final) => Count(tw) = Count(w)
      /\ \A F : Has(tw, F) => Has(w, F) \/ "reset" \in F
      /\ DataFirst(w) => DataFirst(tw)
  <2> HIDE DEF w
  <2> QED
    BY <1>2, <1>5, CutFrames DEF w
<1>8. wire' \in [Ends -> Seq(Frame)]
  <2>1. ASSUME NEW e \in Ends
        PROVE  Append(SubSeq(wire[e], 1, IF e = "client" THEN n ELSE m), "reset") \in Seq(Frame)
    <3>1. CASE e = "client"
      BY <1>6, <3>1
    <3>2. CASE e = "server"
      BY <1>7, <3>2
    <3> QED
      BY <1>3, <3>1, <3>2
  <2> QED
    BY <1>2, <2>1
<1>9. /\ reader' \in [Ends -> [dataDone : YesNo, trailersDone : YesNo, awake : YesNo]]
      /\ \A d \in Ends : reader'[d].trailersDone = reader[d].trailersDone
  <2>1. reader \in [Ends -> [dataDone : YesNo, trailersDone : YesNo, awake : YesNo]]
    BY DEF IInv, Types
  <2> QED
    BY <1>1, <2>1 DEF YesNo
<1>10. Types'
  BY <1>1, <1>8, <1>9 DEF IInv, Types, config, clientVars, serverVars, YesNo
<1>11. "reset" \notin Final /\ Deaf("client")' /\ Deaf("server")'
  BY <1>1 DEF Final, Deaf
<1> HIDE DEF tc, tw
<1>12. RequestSide'
  <2>1. UNCHANGED <<script, body, sender, yielded, request, got>>
    BY <1>1 DEF config, clientVars, serverVars
  <2>2. /\ DataFirst(w) /\ Count(w) <= Window
        /\ Has(w, Final) => got["server"] + Count(w) = yielded
        /\ Has(w, Final) => sender # "sending" /\ yielded = DataOf(script)
    BY DEF IInv, RequestSide
  <2> HIDE DEF w
  <2>3. Count(tw) <= Window /\ DataFirst(tw)
    BY <1>5, <1>7, <2>2
  <2>4. Has(tw, Final) => Has(w, Final) /\ Count(tw) = Count(w)
    BY <1>7, <1>11, <2>2
  <2>5. reader'["server"].trailersDone = reader["server"].trailersDone
    BY <1>3, <1>9
  <2>6. Has(tw, Final) => /\ got["server"] + Count(tw) = yielded
                          /\ sender # "sending" /\ yielded = DataOf(script)
    BY <2>2, <2>4
  <2> QED
    BY <1>1, <1>4, <1>11, <2>1, <2>3, <2>5, <2>6 DEF IInv, RequestSide, RequestIsWhole
<1>13. ReplySide'
  BY <1>1, ReplyStays DEF IInv, config, serverVars
<1>14. ClientSide'
  <2>1. UNCHANGED <<call, result, server, kept, verdict, replied, got>>
    BY <1>1 DEF clientVars, serverVars
  <2>2. /\ DataFirst(c) /\ Count(c) <= Window
        /\ Has(c, Final) => got["client"] + Count(c) = replied
        /\ Has(c, {"trailers"}) => server = "ended" /\ kept = "trailers"
        /\ Has(c, {"error trailers"}) => server = "ended" /\ kept = "error trailers"
        /\ Has(c, {"fin"}) => server = "ended"
        /\ Has(c, {"error head"}) => server \in {"finishing", "ended"} /\ verdict = "error"
        /\ call \in {"waiting", "reading"} =>
               StatusFirst(c) /\ reader["client"].trailersDone = "no"
    BY DEF IInv, ClientSide
  <2> HIDE DEF c
  <2>3. Count(tc) <= Window /\ DataFirst(tc)
    <3>1. Count(tc) <= Count(c) /\ Count(tc) \in Nat /\ Count(c) \in Nat
      BY <1>6
    <3>2. Count(c) <= Window /\ Window \in Nat
      BY <1>5, <2>2
    <3>3. Count(tc) <= Window
      BY <3>1, <3>2
    <3> QED
      BY <1>6, <2>2, <3>3
  <2>4. Has(tc, Final) => got["client"] + Count(tc) = replied
    BY <1>6, <1>11, <2>2
  <2>5. /\ Has(tc, {"trailers"}) => server = "ended" /\ kept = "trailers"
        /\ Has(tc, {"error trailers"}) => server = "ended" /\ kept = "error trailers"
        /\ Has(tc, {"fin"}) => server = "ended"
        /\ Has(tc, {"error head"}) => server \in {"finishing", "ended"} /\ verdict = "error"
    BY <1>6, <2>2
  <2>6. call \in {"waiting", "reading"} =>
            StatusFirst(tc) /\ reader'["client"].trailersDone = "no"
    BY <1>3, <1>6, <1>9, <2>2
  <2>7. /\ result = "ok" =>
               call = "done" /\ server = "ended" /\ kept = "trailers" /\ got["client"] = replied
        /\ result = "error" => server \in {"finishing", "ended"} /\ verdict = "error"
        /\ result # "no status"
    BY DEF IInv, ClientSide
  <2> QED
    BY <1>1, <1>4, <1>11, <2>1, <2>3, <2>4, <2>5, <2>6, <2>7 DEF ClientSide
<1> QED
  BY <1>10, <1>12, <1>13, <1>14 DEF IInv
-----------------------------------------------------------------------------
LEMMA NextIInv ==
    ASSUME IInv, [Next]_vars
    PROVE  IInv'
<1>1. CASE Sender
  BY <1>1, SendDataInv, SenderStopsInv, SenderFinishesInv DEF Sender
<1>2. CASE Server
  BY <1>2, ReadRequestInv, ServiceReturnsInv, RespondStatusInv, SendReplyInv, ReplyEndsInv,
     KeepTrailersInv, FinishReplyInv DEF Server, ServiceFails
<1>3. CASE Caller
  BY <1>3, ReceiveHeadInv, ReadReplyInv DEF Caller
<1>4. CASE ServerTimesOut
  BY <1>4, RespondStatusInv DEF ServerTimesOut
<1>5. CASE ClientTimesOut \/ CallerLeaves
  BY <1>5, CallerLeavesInv
<1>6. CASE ConnectionLost
  BY <1>6, ConnectionLostInv
<1>7. CASE UNCHANGED vars \/ \E source \in Sources : SourceYields(source)
  <2>1. UNCHANGED <<config, clientVars, serverVars, readers, wire, stopped, lost>>
    BY <1>7 DEF vars, SourceYields
  <2>2. Types'
    BY <2>1 DEF IInv, Types, config, clientVars, serverVars, readers
  <2>3. ClientSide'
    BY <2>1, ClientStays DEF IInv, clientVars, serverVars, readers
  <2> QED
    BY <2>1, <2>2, <2>3, CallerFrame DEF clientVars, readers
<1> QED
  BY <1>1, <1>2, <1>3, <1>4, <1>5, <1>6, <1>7 DEF Next

(* What is idle is a source.                                               *)
LEMMA IdleStays ==
    ASSUME idle \subseteq Sources, [Next]_vars
    PROVE  idle' \subseteq Sources
<1>1. ASSUME Rests("request") \/ Rests("reply") PROVE idle' \subseteq Sources
  BY <1>1 DEF Rests, Sources
<1>2. CASE Sender
  BY <1>1, <1>2 DEF Sender, SendData, SendDataFails, SendTrailers, BodyEnds, FinishRequest
<1>3. CASE Server
  BY <1>1, <1>3 DEF Server, ReadRequest, ServiceReturns, ServiceFails, RespondStatus, SendReply,
     ReplyFails, KeepTrailers, ReplyEnds, FinishReply
<1>4. CASE Caller
  BY <1>4 DEF Caller, ReceiveHead, ReadReply
<1>5. CASE ServerTimesOut \/ ClientTimesOut \/ CallerLeaves \/ ConnectionLost
  BY <1>5 DEF ServerTimesOut, RespondStatus, ClientTimesOut, CallerLeaves, ConnectionLost
<1>6. CASE \E source \in Sources : SourceYields(source)
  BY <1>6 DEF SourceYields
<1>7. CASE UNCHANGED vars
  BY <1>7 DEF vars
<1> QED
  BY <1>2, <1>3, <1>4, <1>5, <1>6, <1>7 DEF Next

LEMMA IInvMeans ==
    ASSUME IInv, idle \subseteq Sources
    PROVE  CallInv
<1>1. TypeOK
  <2>1. ASSUME NEW e \in Ends
        PROVE  Cardinality({ i \in DOMAIN wire[e] : wire[e][i] = "data" }) <= Window
    <3>1. Count(wire[e]) <= Window
      BY DEF IInv, RequestSide, ClientSide, Ends
    <3> QED
      BY <3>1 DEF Count, Datas
  <2> QED
    BY <2>1 DEF IInv, Types, ReplySide, TypeOK
<1>2. RequestIsWhole
  BY DEF IInv, RequestSide
<1>3. ResultIsTrue
  BY DEF IInv, ClientSide, ReplySide, ResultIsTrue
<1> QED
  BY <1>1, <1>2, <1>3 DEF CallInv

(* H3Channel and serve_request: whatever the bodies hold and whenever the  *)
(* connection is lost, a timer fires or the caller leaves, a service that  *)
(* sees its request end has read all that the client's body yielded, and a *)
(* caller that is told OK has all the data of a response that ended so.    *)
THEOREM CallIsKnown == Spec => []CallInv
<1> DEFINE Idle == idle \subseteq Sources
<1>1. Init => IInv /\ Idle
  <2>1. Init => idle \subseteq Sources
    BY DEF Init
  <2> QED
    BY <2>1, InitIInv
<1>2. IInv /\ Idle /\ [Next]_vars => IInv' /\ Idle'
  BY NextIInv, IdleStays
<1>3. IInv /\ Idle => CallInv
  BY IInvMeans
<1> HIDE DEF Idle
<1> QED
  BY <1>1, <1>2, <1>3, PTL DEF Spec
=============================================================================
