--------------------------- MODULE ReflectionProofs ---------------------------
(***************************************************************************)
(* Theorems about `Reflection` for any .proto files, requests and capacity *)
(* of the channel: what a client of the stream ServerReflectionInfo gets,  *)
(* and that the index its answers are from has all the files' symbols.     *)
(***************************************************************************)
EXTENDS Reflection, FiniteSetTheorems, WellFoundedInduction, TLAPS

-----------------------------------------------------------------------------
(* Sequences.                                                              *)
LEMMA Widen ==
    ASSUME NEW S, NEW T, S \subseteq T, NEW s \in Seq(S)
    PROVE  s \in Seq(T)
OBVIOUS

LEMMA Appended ==
    ASSUME NEW S, NEW s \in Seq(S), NEW e \in S
    PROVE  /\ Append(s, e) \in Seq(S) /\ Len(Append(s, e)) = Len(s) + 1 /\ Len(s) \in Nat
           /\ \A i \in 1..Len(s) : Append(s, e)[i] = s[i]
           /\ Append(s, e)[Len(s) + 1] = e
OBVIOUS

LEMMA Taken ==
    ASSUME NEW S, NEW s \in Seq(S), s # <<>>
    PROVE  /\ Tail(s) \in Seq(S) /\ Len(Tail(s)) = Len(s) - 1
           /\ Len(s) \in Nat \ {0} /\ Len(Tail(s)) \in Nat
           /\ Head(s) = s[1] /\ Head(s) \in S
           /\ \A i \in 1..Len(Tail(s)) : Tail(s)[i] = s[i + 1]
OBVIOUS

LEMMA Concat ==
    ASSUME NEW S, NEW a \in Seq(S), NEW c \in Seq(S)
    PROVE  /\ a \o c \in Seq(S) /\ Len(a \o c) = Len(a) + Len(c)
           /\ Len(a) \in Nat /\ Len(c) \in Nat
           /\ \A k \in 1..Len(a) : (a \o c)[k] = a[k]
           /\ \A k \in 1..Len(c) : (a \o c)[Len(a) + k] = c[k]
OBVIOUS

(* w is the end of a.                                                      *)
Waits(w, a) ==
    /\ Len(w) <= Len(a)
    /\ \A i \in 1..Len(w) : w[i] = a[Len(a) - Len(w) + i]

LEMMA SuffixOf ==
    ASSUME NEW S, NEW a \in Seq(S), NEW w \in Seq(S), Waits(w, a)
    PROVE  IsSuffix(w, a)
<1> DEFINE m == Len(w)
           n == Len(a)
           v == Reverse(w)
           b == Reverse(a)
<1>1. m \in Nat /\ n \in Nat /\ m <= n
  BY DEF Waits
<1>2. /\ v = [i \in 1..m |-> w[(m - i) + 1]] /\ b = [i \in 1..n |-> a[(n - i) + 1]]
  BY DEF Reverse
<1>3. ASSUME NEW i \in 1..m PROVE w[(m - i) + 1] = a[(n - i) + 1]
  <2>1. PICK k \in 1..m : k = (m - i) + 1
    <3>1. (m - i) + 1 \in 1..m
      BY <1>1
    <3> QED
      BY <3>1
  <2>2. (n - m) + k = (n - i) + 1 /\ w[k] = a[n - m + k]
    BY <1>1, <2>1 DEF Waits
  <2> QED
    BY <2>1, <2>2
<1> HIDE DEF m, n
<1>4. \A i \in 1..m : w[(m - i) + 1] \in S
  <2>1. \A i \in 1..m : (m - i) + 1 \in 1..Len(w)
    BY <1>1 DEF m
  <2> QED
    BY <2>1
<1>5. \A i \in 1..n : a[(n - i) + 1] \in S
  <2>1. \A i \in 1..n : (n - i) + 1 \in 1..Len(a)
    BY <1>1 DEF n
  <2> QED
    BY <2>1
<1>6. v \in Seq(S) /\ Len(v) = m /\ b \in Seq(S) /\ Len(b) = n
  <2> HIDE DEF v, b
  <2>1. v \in Seq(S) /\ Len(v) = m
    BY <1>1, <1>2, <1>4
  <2>2. b \in Seq(S) /\ Len(b) = n
    BY <1>1, <1>2, <1>5
  <2> QED
    BY <2>1, <2>2
<1>7. \A i \in 1..m : v[i] = b[i]
  <2> HIDE DEF v, b
  <2>1. ASSUME NEW i \in 1..m PROVE v[i] = b[i]
    <3>1. v[i] = w[(m - i) + 1]
      BY <1>2
    <3>2. i \in 1..n
      BY <1>1
    <3>3. b[i] = a[(n - i) + 1]
      BY <1>2, <3>2
    <3> QED
      BY <1>3, <3>1, <3>3
  <2> QED
    BY <2>1
<1> HIDE DEF v, b
<1>8. SubSeq(v, 1, m) = SubSeq(b, 1, m)
  BY <1>1, <1>6, <1>7
<1> QED
  BY <1>1, <1>6, <1>8 DEF IsSuffix, IsPrefix, v, b

(* What is put behind both is waited for as well.                          *)
LEMMA WaitsMore ==
    ASSUME NEW S, NEW a \in Seq(S), NEW w \in Seq(S), Waits(w, a), NEW e \in S
    PROVE  Waits(Append(w, e), Append(a, e))
<1> DEFINE x == Append(w, e)
           y == Append(a, e)
<1>1. /\ Len(x) = Len(w) + 1 /\ Len(w) \in Nat /\ x[Len(w) + 1] = e
      /\ \A i \in 1..Len(w) : x[i] = w[i]
  BY Appended
<1>2. /\ Len(y) = Len(a) + 1 /\ Len(a) \in Nat /\ y[Len(a) + 1] = e
      /\ \A i \in 1..Len(a) : y[i] = a[i]
  BY Appended
<1> HIDE DEF x, y
<1>3. ASSUME NEW i \in 1..Len(x) PROVE x[i] = y[Len(y) - Len(x) + i]
  <2>1. CASE i = Len(w) + 1
    <3>1. Len(y) - Len(x) + i = Len(a) + 1
      BY <1>1, <1>2, <2>1
    <3> QED
      BY <1>1, <1>2, <2>1, <3>1
  <2>2. CASE i # Len(w) + 1
    <3>1. PICK k \in 1..Len(a) : k = Len(a) - Len(w) + i
      BY <1>1, <1>2, <2>2 DEF Waits
    <3>2. i \in 1..Len(w) /\ Len(y) - Len(x) + i = k
      BY <1>1, <1>2, <2>2, <3>1
    <3>3. w[i] = a[k]
      BY <3>1, <3>2 DEF Waits
    <3> QED
      BY <1>1, <1>2, <3>2, <3>3
  <2> QED
    BY <2>1, <2>2
<1>4. Len(x) <= Len(y)
  BY <1>1, <1>2 DEF Waits
<1> QED
  BY <1>3, <1>4 DEF Waits, x, y

LEMMA WaitsLess ==
    ASSUME NEW S, NEW a \in Seq(S), NEW w \in Seq(S), Waits(w, a), w # <<>>
    PROVE  /\ Waits(Tail(w), a)
           /\ Len(a) - Len(w) + 1 \in 1..Len(a) /\ Head(w) = a[Len(a) - Len(w) + 1]
<1> DEFINE t == Tail(w)
<1>1. /\ Len(t) = Len(w) - 1 /\ Len(w) \in Nat \ {0} /\ Len(t) \in Nat /\ Head(w) = w[1]
      /\ \A i \in 1..Len(t) : t[i] = w[i + 1]
  BY Taken
<1> HIDE DEF t
<1>2. Len(a) \in Nat /\ Len(w) <= Len(a)
  BY DEF Waits
<1>3. ASSUME NEW i \in 1..Len(t) PROVE t[i] = a[Len(a) - Len(t) + i]
  <2>1. i + 1 \in 1..Len(w) /\ Len(a) - Len(t) + i = Len(a) - Len(w) + (i + 1)
    BY <1>1, <1>2
  <2>2. w[i + 1] = a[Len(a) - Len(w) + (i + 1)]
    BY <2>1 DEF Waits
  <2> QED
    BY <1>1, <2>1, <2>2
<1>4. 1 \in 1..Len(w)
  BY <1>1
<1>5. w[1] = a[Len(a) - Len(w) + 1]
  BY <1>4 DEF Waits
<1> QED
  BY <1>1, <1>2, <1>3, <1>5 DEF Waits, t
-----------------------------------------------------------------------------
(* What the task has read is behind the answers, in order, wherever they   *)
(* are; a task that has ended has read all, or has met what it cannot      *)
(* decode; and an end that the client sees leaves nothing in the channel.  *)
StreamTypes ==
    /\ stage \in {"compile", "register", "serve", "failed"}
    /\ client \in {"open", "closed", "gone"}
    /\ task \in {"reading", "sending", "ended"}
    /\ status \in {"none", "OK"}
    /\ asked \in Seq(Requests) /\ wire \in Seq(Requests)
    /\ \E S : answers \in Seq(S) /\ channel \in Seq(S) /\ held \in Seq(S)
    /\ Len(channel) <= Capacity

Echoes(s, a, n) == \A i \in 1..Len(s) : s[i].original = a[n + i]

InOrder ==
    /\ Waits(wire, asked)
    /\ Len(answers) <= Len(asked) - Len(wire)
    /\ Echoes(answers, asked, 0)
    /\ client # "gone" =>
           /\ Len(answers) + Len(channel) + Len(held) = Len(asked) - Len(wire)
           /\ Echoes(channel, asked, Len(answers))
           /\ Echoes(held, asked, Len(answers) + Len(channel))

ReadIsDecodable == \A i \in 1..Len(asked) - Len(wire) : asked[i].kind # "undecodable"

Phases ==
    /\ task = "sending" => Len(held) = 1
    /\ task # "sending" /\ client # "gone" => held = <<>>
    /\ task = "ended" /\ client # "gone" =>
           \/ wire = <<>> /\ client = "closed"
           \/ wire # <<>> /\ Head(wire).kind = "undecodable"
    /\ status = "OK" => client # "gone" /\ task = "ended" /\ channel = <<>>

IInv == StreamTypes /\ InOrder /\ ReadIsDecodable /\ Phases

LEMMA Lengths ==
    ASSUME StreamTypes
    PROVE  /\ Len(asked) \in Nat /\ Len(wire) \in Nat /\ Len(answers) \in Nat
           /\ Len(channel) \in Nat /\ Len(held) \in Nat /\ Capacity \in Nat \ {0}
           /\ wire = <<>> <=> Len(wire) = 0
           /\ channel = <<>> <=> Len(channel) = 0
           /\ held = <<>> <=> Len(held) = 0
<1>1. PICK S : answers \in Seq(S) /\ channel \in Seq(S) /\ held \in Seq(S)
  BY DEF StreamTypes
<1>2. /\ Len(answers) \in Nat /\ Len(channel) \in Nat /\ Len(held) \in Nat
      /\ channel = <<>> <=> Len(channel) = 0
      /\ held = <<>> <=> Len(held) = 0
  BY <1>1
<1>3. asked \in Seq(Requests) /\ wire \in Seq(Requests)
  BY DEF StreamTypes
<1>4. /\ Len(asked) \in Nat /\ Len(wire) \in Nat
      /\ wire = <<>> <=> Len(wire) = 0
  BY <1>3
<1> QED
  BY <1>2, <1>4, ReflectionAssumption

LEMMA InitIInv ==
    ASSUME Init
    PROVE  IInv
<1>1. /\ stage = "compile" /\ client = "open" /\ asked = <<>> /\ wire = <<>>
      /\ task = "reading" /\ held = <<>> /\ channel = <<>> /\ answers = <<>>
      /\ status = "none"
  BY DEF Init
<1>2. StreamTypes
  <2>1. asked \in Seq(Requests) /\ wire \in Seq(Requests) /\ Len(channel) <= Capacity
    BY <1>1, ReflectionAssumption
  <2>2. answers \in Seq({}) /\ channel \in Seq({}) /\ held \in Seq({})
    BY <1>1
  <2> QED
    BY <1>1, <2>1, <2>2 DEF StreamTypes
<1>3. InOrder /\ ReadIsDecodable
  BY <1>1 DEF InOrder, Waits, Echoes, ReadIsDecodable
<1>4. Phases
  BY <1>1 DEF Phases
<1> QED
  BY <1>2, <1>3, <1>4 DEF IInv

LEMMA AskInv ==
    ASSUME IInv, Ask
    PROVE  IInv'
<1>1. PICK q \in Requests : asked' = Append(asked, q) /\ wire' = Append(wire, q)
  BY DEF Ask
<1>2. /\ client = "open"
      /\ UNCHANGED <<stage, client, task, held, channel, answers, status>>
  BY DEF Ask
<1>3. /\ asked \in Seq(Requests) /\ wire \in Seq(Requests) /\ Waits(wire, asked)
      /\ StreamTypes
  BY DEF IInv, StreamTypes, InOrder
<1>4. /\ asked' \in Seq(Requests) /\ Len(asked') = Len(asked) + 1 /\ Len(asked) \in Nat
      /\ \A i \in 1..Len(asked) : asked'[i] = asked[i]
  BY <1>1, <1>3, Appended
<1>5. /\ wire' \in Seq(Requests) /\ Len(wire') = Len(wire) + 1 /\ Len(wire) \in Nat
      /\ \A i \in 1..Len(wire) : wire'[i] = wire[i]
      /\ wire' # <<>> /\ (wire # <<>> => Head(wire') = Head(wire))
  BY <1>1, <1>3
<1>6. Waits(wire', asked')
  BY <1>1, <1>3, WaitsMore
<1>7. ASSUME NEW s, NEW n \in Nat, Len(s) \in Nat, Echoes(s, asked, n), n + Len(s) <= Len(asked)
      PROVE  Echoes(s, asked', n)
  <2> SUFFICES ASSUME NEW i \in 1..Len(s) PROVE s[i].original = asked'[n + i]
    BY DEF Echoes
  <2>1. n + i \in 1..Len(asked)
    BY <1>7, <1>4
  <2>2. asked'[n + i] = asked[n + i]
    BY <1>4, <2>1
  <2> QED
    BY <1>7, <2>2 DEF Echoes
<1>8. StreamTypes'
  BY <1>2, <1>3, <1>4, <1>5 DEF StreamTypes
<1>9. InOrder'
  <2>1. /\ Len(answers) <= Len(asked) - Len(wire) /\ Echoes(answers, asked, 0)
        /\ Len(answers) + Len(channel) + Len(held) = Len(asked) - Len(wire)
        /\ Echoes(channel, asked, Len(answers))
        /\ Echoes(held, asked, Len(answers) + Len(channel))
    BY <1>2 DEF IInv, InOrder
  <2>2. /\ Len(answers) \in Nat /\ Len(channel) \in Nat /\ Len(held) \in Nat
        /\ Len(answers) + Len(channel) \in Nat
    BY <1>3, Lengths
  <2>3. Echoes(answers, asked', 0)
    BY <1>4, <1>5, <1>7, <2>1, <2>2
  <2>4. Echoes(channel, asked', Len(answers))
    BY <1>4, <1>5, <1>7, <2>1, <2>2
  <2>5. Echoes(held, asked', Len(answers) + Len(channel))
    BY <1>4, <1>5, <1>7, <2>1, <2>2
  <2>6. Len(asked') - Len(wire') = Len(asked) - Len(wire)
    BY <1>4, <1>5
  <2> QED
    BY <1>2, <1>6, <2>1, <2>3, <2>4, <2>5, <2>6 DEF InOrder
<1>10. ReadIsDecodable'
  <2>1. Len(asked') - Len(wire') = Len(asked) - Len(wire)
    BY <1>4, <1>5
  <2>2. ASSUME NEW i \in 1..Len(asked) - Len(wire) PROVE asked'[i].kind # "undecodable"
    <3>1. i \in 1..Len(asked) /\ asked[i].kind # "undecodable"
      BY <1>4, <1>5 DEF IInv, ReadIsDecodable
    <3> QED
      BY <1>4, <3>1
  <2> QED
    BY <2>1, <2>2 DEF ReadIsDecodable
<1>11. Phases'
  BY <1>2, <1>5 DEF IInv, Phases
<1> QED
  BY <1>8, <1>9, <1>10, <1>11 DEF IInv

LEMMA ReadRequestInv ==
    ASSUME IInv, ReadRequest
    PROVE  IInv'
<1>1. PICK a : a = [original |-> Head(wire), response |-> Response(Head(wire))]
  OBVIOUS
<1>2. /\ task = "reading" /\ wire # <<>> /\ Head(wire).kind # "undecodable"
      /\ task' = "sending" /\ held' = <<a>> /\ wire' = Tail(wire)
      /\ UNCHANGED <<stage, client, asked, channel, answers, status>>
  BY <1>1 DEF ReadRequest
<1>3. a.original = Head(wire)
  BY <1>1
<1>4. /\ asked \in Seq(Requests) /\ wire \in Seq(Requests) /\ Waits(wire, asked)
      /\ StreamTypes
  BY DEF IInv, StreamTypes, InOrder
<1>5. /\ Tail(wire) \in Seq(Requests) /\ Len(Tail(wire)) = Len(wire) - 1 /\ Len(wire) \in Nat \ {0}
  BY <1>2, <1>4, Taken
<1>6. /\ Waits(Tail(wire), asked)
      /\ Len(asked) - Len(wire) + 1 \in 1..Len(asked)
      /\ Head(wire) = asked[Len(asked) - Len(wire) + 1]
  BY <1>2, <1>4, WaitsLess
<1>7. StreamTypes'
  <2>1. PICK S : answers \in Seq(S) /\ channel \in Seq(S) /\ held \in Seq(S)
    BY <1>4 DEF StreamTypes
  <2>2. answers \in Seq(S \cup {a}) /\ channel \in Seq(S \cup {a}) /\ <<a>> \in Seq(S \cup {a})
    BY <2>1, Widen
  <2>3. \E T : answers' \in Seq(T) /\ channel' \in Seq(T) /\ held' \in Seq(T)
    BY <1>2, <2>2
  <2>4. wire' \in Seq(Requests)
    BY <1>2, <1>5
  <2> QED
    BY <1>2, <1>4, <2>3, <2>4 DEF StreamTypes
<1>8. Len(held') = 1 /\ held'[1] = a
  BY <1>2
<1>9. InOrder'
  <2>1. /\ Len(answers) \in Nat /\ Len(channel) \in Nat /\ Len(asked) \in Nat
    BY <1>4, Lengths
  <2>2. /\ Len(answers) <= Len(asked) - Len(wire) /\ Echoes(answers, asked, 0)
    BY DEF IInv, InOrder
  <2>3. Len(answers') <= Len(asked') - Len(wire')
    BY <1>2, <1>5, <2>1, <2>2
  <2>4. ASSUME client # "gone"
        PROVE  /\ Len(answers) + Len(channel) + Len(held') = Len(asked) - Len(wire')
               /\ Echoes(channel, asked, Len(answers))
               /\ Echoes(held', asked, Len(answers) + Len(channel))
    <3>1. /\ Len(answers) + Len(channel) + Len(held) = Len(asked) - Len(wire)
          /\ Echoes(channel, asked, Len(answers))
      BY <2>4 DEF IInv, InOrder
    <3>2. Len(held) = 0
      BY <1>2, <2>4 DEF IInv, Phases
    <3>3. Len(answers) + Len(channel) = Len(asked) - Len(wire)
      BY <2>1, <3>1, <3>2
    <3>4. Len(answers) + Len(channel) + Len(held') = Len(asked) - Len(wire')
      BY <1>2, <1>5, <1>8, <2>1, <3>3
    <3>5. held'[1].original = asked[Len(answers) + Len(channel) + 1]
      BY <1>3, <1>6, <1>8, <3>3
    <3>6. Echoes(held', asked, Len(answers) + Len(channel))
      BY <1>8, <3>5 DEF Echoes
    <3> QED
      BY <3>1, <3>4, <3>6
  <2> QED
    BY <1>2, <1>6, <2>2, <2>3, <2>4 DEF InOrder
<1>10. ReadIsDecodable'
  <2>1. Len(asked) \in Nat
    BY <1>4
  <2>2. ASSUME NEW i \in 1..Len(asked) - Len(Tail(wire)) PROVE asked[i].kind # "undecodable"
    <3>1. CASE i = Len(asked) - Len(wire) + 1
      BY <1>2, <1>6, <3>1
    <3>2. CASE i # Len(asked) - Len(wire) + 1
      <4>1. i \in 1..Len(asked) - Len(wire)
        BY <1>5, <2>1, <3>2
      <4> QED
        BY <4>1 DEF IInv, ReadIsDecodable
    <3> QED
      BY <3>1, <3>2
  <2> QED
    BY <1>2, <2>2 DEF ReadIsDecodable
<1>11. Phases'
  BY <1>2, <1>8 DEF IInv, Phases
<1> QED
  BY <1>7, <1>9, <1>10, <1>11 DEF IInv

LEMMA SendAnswerInv ==
    ASSUME IInv, SendAnswer
    PROVE  IInv'
<1>1. /\ task = "sending" /\ client # "gone" /\ Len(channel) < Capacity
      /\ channel' = channel \o held /\ task' = "reading" /\ held' = <<>>
      /\ UNCHANGED <<stage, client, asked, wire, answers, status>>
  BY DEF SendAnswer
<1>2. PICK S : answers \in Seq(S) /\ channel \in Seq(S) /\ held \in Seq(S)
  BY DEF IInv, StreamTypes
<1>3. /\ channel \o held \in Seq(S) /\ Len(channel \o held) = Len(channel) + Len(held)
      /\ Len(channel) \in Nat /\ Len(held) \in Nat
      /\ \A k \in 1..Len(channel) : (channel \o held)[k] = channel[k]
      /\ \A k \in 1..Len(held) : (channel \o held)[Len(channel) + k] = held[k]
  BY <1>2, Concat
<1>4. Len(held) = 1 /\ Len(answers) \in Nat /\ Len(asked) \in Nat /\ Capacity \in Nat
  BY <1>1, Lengths DEF IInv, Phases
<1>5. /\ Len(answers) + Len(channel) + Len(held) = Len(asked) - Len(wire)
      /\ Echoes(channel, asked, Len(answers))
      /\ Echoes(held, asked, Len(answers) + Len(channel))
      /\ Waits(wire, asked) /\ Len(answers) <= Len(asked) - Len(wire)
      /\ Echoes(answers, asked, 0)
  BY <1>1 DEF IInv, InOrder
<1> DEFINE c == channel \o held
<1>6. c \in Seq(S) /\ Len(c) = Len(channel) + 1 /\ channel' = c
  BY <1>1, <1>3, <1>4
<1>7. Echoes(c, asked, Len(answers))
  <2>1. /\ \A k \in 1..Len(channel) : c[k] = channel[k]
        /\ c[Len(channel) + 1] = held[1]
    BY <1>3, <1>4
  <2> HIDE DEF c
  <2>2. ASSUME NEW i \in 1..Len(c) PROVE c[i].original = asked[Len(answers) + i]
    <3>1. CASE i = Len(channel) + 1
      <4>1. held[1].original = asked[Len(answers) + Len(channel) + 1]
        BY <1>4, <1>5 DEF Echoes
      <4>2. Len(answers) + i = Len(answers) + Len(channel) + 1
        BY <1>3, <1>4, <3>1
      <4> QED
        BY <2>1, <3>1, <4>1, <4>2
    <3>2. CASE i # Len(channel) + 1
      <4>1. i \in 1..Len(channel)
        BY <1>3, <1>6, <3>2
      <4> QED
        BY <1>5, <2>1, <4>1 DEF Echoes
    <3> QED
      BY <3>1, <3>2
  <2> QED
    BY <2>2 DEF Echoes
<1> HIDE DEF c
<1>8. StreamTypes'
  <2>1. held' \in Seq(S) /\ Len(channel') <= Capacity
    BY <1>1, <1>3, <1>4, <1>6
  <2>2. \E T : answers' \in Seq(T) /\ channel' \in Seq(T) /\ held' \in Seq(T)
    BY <1>1, <1>2, <1>6, <2>1
  <2> QED
    BY <1>1, <2>1, <2>2 DEF IInv, StreamTypes
<1>9. InOrder'
  <2>1. Len(held') = 0
    BY <1>1
  <2>2. Len(answers) + Len(channel') + Len(held') = Len(asked) - Len(wire)
    BY <1>3, <1>4, <1>5, <1>6, <2>1
  <2>3. Echoes(held', asked, Len(answers) + Len(channel'))
    BY <2>1 DEF Echoes
  <2> QED
    BY <1>1, <1>5, <1>6, <1>7, <2>2, <2>3 DEF InOrder
<1>10. ReadIsDecodable' /\ Phases'
  BY <1>1 DEF IInv, ReadIsDecodable, Phases
<1> QED
  BY <1>8, <1>9, <1>10 DEF IInv

LEMMA ReceiveInv ==
    ASSUME IInv, Receive
    PROVE  IInv'
<1>1. /\ client # "gone" /\ channel # <<>>
      /\ answers' = Append(answers, Head(channel)) /\ channel' = Tail(channel)
      /\ UNCHANGED <<stage, client, asked, wire, task, held, status>>
  BY DEF Receive
<1>2. PICK S : answers \in Seq(S) /\ channel \in Seq(S) /\ held \in Seq(S)
  BY DEF IInv, StreamTypes
<1>3. /\ channel' \in Seq(S) /\ Len(channel') = Len(channel) - 1
      /\ Len(channel) \in Nat \ {0} /\ Len(channel') \in Nat
      /\ Head(channel) = channel[1] /\ Head(channel) \in S
      /\ \A i \in 1..Len(channel') : channel'[i] = channel[i + 1]
  BY <1>1, <1>2, Taken
<1>4. /\ answers' \in Seq(S) /\ Len(answers') = Len(answers) + 1 /\ Len(answers) \in Nat
      /\ \A i \in 1..Len(answers) : answers'[i] = answers[i]
      /\ answers'[Len(answers) + 1] = Head(channel)
  BY <1>1, <1>2, <1>3, Appended
<1>5. /\ Len(answers) + Len(channel) + Len(held) = Len(asked) - Len(wire)
      /\ Echoes(channel, asked, Len(answers))
      /\ Echoes(held, asked, Len(answers) + Len(channel))
      /\ Waits(wire, asked)
      /\ Echoes(answers, asked, 0)
  BY <1>1 DEF IInv, InOrder
<1>6. Len(held) \in Nat /\ Len(asked) \in Nat /\ Len(wire) \in Nat /\ Capacity \in Nat
      /\ Len(channel) <= Capacity
  BY Lengths DEF IInv, StreamTypes
<1>7. Echoes(answers', asked, 0)
  <2>1. ASSUME NEW i \in 1..Len(answers') PROVE answers'[i].original = asked[0 + i]
    <3>1. CASE i = Len(answers) + 1
      <4>1. 1 \in 1..Len(channel)
        BY <1>3
      <4>2. channel[1].original = asked[Len(answers) + 1]
        BY <1>5, <4>1 DEF Echoes
      <4>3. 0 + i = Len(answers) + 1
        BY <1>4, <3>1
      <4> QED
        BY <1>3, <1>4, <3>1, <4>2, <4>3
    <3>2. CASE i # Len(answers) + 1
      <4>1. i \in 1..Len(answers)
        BY <1>4, <3>2
      <4> QED
        BY <1>4, <1>5, <4>1 DEF Echoes
    <3> QED
      BY <3>1, <3>2
  <2> QED
    BY <2>1 DEF Echoes
<1>8. Echoes(channel', asked, Len(answers'))
  <2>1. ASSUME NEW i \in 1..Len(channel') PROVE channel'[i].original = asked[Len(answers') + i]
    <3>1. i + 1 \in 1..Len(channel) /\ Len(answers') + i = Len(answers) + (i + 1)
      BY <1>3, <1>4
    <3>2. channel[i + 1].original = asked[Len(answers) + (i + 1)]
      BY <1>5, <3>1 DEF Echoes
    <3> QED
      BY <1>3, <3>1, <3>2
  <2> QED
    BY <2>1 DEF Echoes
<1>9. Len(answers') + Len(channel') = Len(answers) + Len(channel)
  BY <1>3, <1>4
<1>10. StreamTypes'
  <2>1. Len(channel') <= Capacity
    BY <1>3, <1>6
  <2>2. \E T : answers' \in Seq(T) /\ channel' \in Seq(T) /\ held' \in Seq(T)
    BY <1>1, <1>2, <1>3, <1>4
  <2> QED
    BY <1>1, <2>1, <2>2 DEF IInv, StreamTypes
<1>11. InOrder'
  <2>1. Len(answers') + Len(channel') + Len(held') = Len(asked') - Len(wire')
    BY <1>1, <1>5, <1>9
  <2>2. Len(answers') <= Len(asked') - Len(wire')
    BY <1>1, <1>3, <1>4, <1>6, <2>1
  <2>3. Echoes(held', asked', Len(answers') + Len(channel'))
    BY <1>1, <1>5, <1>9
  <2> QED
    BY <1>1, <1>5, <1>7, <1>8, <2>1, <2>2, <2>3 DEF InOrder
<1>12. ReadIsDecodable' /\ Phases'
  BY <1>1 DEF IInv, ReadIsDecodable, Phases
<1> QED
  BY <1>10, <1>11, <1>12 DEF IInv

LEMMA OtherStepsInv ==
    ASSUME IInv, CloseSide \/ Leave \/ StopReading \/ SendFails \/ Finish
    PROVE  IInv'
<1>1. UNCHANGED <<stage, asked, wire, held, answers>>
  BY DEF CloseSide, Leave, StopReading, SendFails, Finish
<1>2. StreamTypes'
  <2>1. channel' = channel \/ (channel' = <<>> /\ Leave)
    BY DEF CloseSide, Leave, StopReading, SendFails, Finish
  <2>2. PICK S : answers \in Seq(S) /\ channel \in Seq(S) /\ held \in Seq(S)
    BY DEF IInv, StreamTypes
  <2>3. channel' \in Seq(S) /\ Len(channel') <= Capacity
    <3>1. CASE channel' = channel
      BY <2>2, <3>1 DEF IInv, StreamTypes
    <3>2. CASE channel' = <<>>
      BY <3>2, ReflectionAssumption
    <3> QED
      BY <2>1, <3>1, <3>2
  <2>4. \E T : answers' \in Seq(T) /\ channel' \in Seq(T) /\ held' \in Seq(T)
    BY <1>1, <2>2, <2>3
  <2>5. /\ client' \in {"open", "closed", "gone"} /\ status' \in {"none", "OK"}
        /\ task' \in {"reading", "sending", "ended"}
    BY DEF IInv, StreamTypes, CloseSide, Leave, StopReading, SendFails, Finish
  <2> QED
    BY <1>1, <2>3, <2>4, <2>5 DEF IInv, StreamTypes
<1>3. InOrder'
  <2>1. client' # "gone" => client # "gone" /\ channel' = channel
    BY DEF CloseSide, Leave, StopReading, SendFails, Finish
  <2> QED
    BY <1>1, <2>1 DEF IInv, InOrder
<1>4. ReadIsDecodable'
  BY <1>1 DEF IInv, ReadIsDecodable
<1>5. Phases'
  <2>1. CASE CloseSide
    BY <2>1 DEF CloseSide, IInv, Phases
  <2>2. CASE Leave
    BY <2>2 DEF Leave, IInv, Phases
  <2>3. CASE StopReading
    BY <2>3 DEF StopReading, IInv, Phases, StreamTypes
  <2>4. CASE SendFails
    BY <2>4 DEF SendFails, IInv, Phases
  <2>5. CASE Finish
    BY <2>5 DEF Finish, IInv, Phases
  <2> QED
    BY <2>1, <2>2, <2>3, <2>4, <2>5
<1> QED
  BY <1>2, <1>3, <1>4, <1>5 DEF IInv

LEMMA StreamStays ==
    ASSUME IInv, UNCHANGED stream, stage' \in {"compile", "register", "serve", "failed"}
    PROVE  IInv'
BY DEF IInv, StreamTypes, InOrder, ReadIsDecodable, Phases, stream

LEMMA NextIInv ==
    ASSUME IInv, [Next]_vars
    PROVE  IInv'
<1>1. CASE CompileProto \/ CompileDone \/ RegisterSet \/ RegisterService \/ Build
           \/ UNCHANGED vars
  <2>1. UNCHANGED stream
    BY <1>1 DEF CompileProto, CompileDone, RegisterSet, RegisterService, Build, vars
  <2>2. stage' \in {"compile", "register", "serve", "failed"}
    BY <1>1 DEF CompileProto, CompileDone, RegisterSet, RegisterService, Build, vars,
                IInv, StreamTypes
  <2> QED
    BY <2>1, <2>2, StreamStays
<1> QED
  BY <1>1, AskInv, ReadRequestInv, SendAnswerInv, ReceiveInv, OtherStepsInv DEF Next, Task

LEMMA InvariantHolds == Spec => []IInv
<1>1. Init => IInv
  BY InitIInv
<1>2. IInv /\ [Next]_vars => IInv'
  BY NextIInv
<1> QED
  BY <1>1, <1>2, PTL DEF Spec
-----------------------------------------------------------------------------
LEMMA AnswersAreInOrder ==
    ASSUME IInv
    PROVE  AnswersInOrder
<1>1. PICK S : answers \in Seq(S) /\ channel \in Seq(S) /\ held \in Seq(S)
  BY DEF IInv, StreamTypes
<1>2. /\ DOMAIN answers = 1..Len(answers)
      /\ Len(answers) \in Nat /\ Len(channel) \in Nat /\ Len(held) \in Nat
  BY <1>1
<1>3. ASSUME NEW i \in DOMAIN answers PROVE answers[i].original = asked[i]
  <2>1. i \in 1..Len(answers) /\ 0 + i = i
    BY <1>2
  <2> QED
    BY <2>1 DEF IInv, InOrder, Echoes
<1>4. ASSUME client # "gone"
      PROVE  /\ Len(Received) = Len(asked) - Len(wire)
             /\ \A i \in DOMAIN Received : Received[i].original = asked[i]
  <2> DEFINE c == answers \o channel
             r == c \o held
  <2>1. /\ c \in Seq(S) /\ Len(c) = Len(answers) + Len(channel)
        /\ \A k \in 1..Len(answers) : c[k] = answers[k]
        /\ \A k \in 1..Len(channel) : c[Len(answers) + k] = channel[k]
    BY <1>1, Concat
  <2> HIDE DEF c
  <2>2. /\ r \in Seq(S) /\ Len(r) = Len(c) + Len(held)
        /\ \A k \in 1..Len(c) : r[k] = c[k]
        /\ \A k \in 1..Len(held) : r[Len(c) + k] = held[k]
    <3>1. c \in Seq(S) /\ held \in Seq(S)
      BY <1>1, <2>1
    <3> QED
      BY <3>1, Concat
  <2> HIDE DEF r
  <2>3. DOMAIN r = 1..Len(r)
    BY <2>2
  <2>4. /\ Len(answers) + Len(channel) + Len(held) = Len(asked) - Len(wire)
        /\ \A i \in 1..Len(answers) : answers[i].original = asked[i]
        /\ \A i \in 1..Len(channel) : channel[i].original = asked[Len(answers) + i]
        /\ \A i \in 1..Len(held) : held[i].original = asked[Len(answers) + Len(channel) + i]
    BY <1>2, <1>3, <1>4 DEF IInv, InOrder, Echoes
  <2>5. ASSUME NEW i \in 1..Len(r) PROVE r[i].original = asked[i]
    <3>1. CASE i \in 1..Len(answers)
      <4>1. r[i] = answers[i]
        BY <1>2, <2>1, <2>2, <3>1
      <4> QED
        BY <2>4, <3>1, <4>1
    <3>2. CASE i \in Len(answers) + 1..Len(c)
      <4>1. PICK k \in 1..Len(channel) : i = Len(answers) + k
        <5>1. i - Len(answers) \in 1..Len(channel) /\ i = Len(answers) + (i - Len(answers))
          BY <1>2, <2>1, <3>2
        <5> QED
          BY <5>1
      <4>2. i \in 1..Len(c)
        BY <1>2, <2>1, <4>1
      <4>3. r[i] = channel[k]
        BY <2>1, <2>2, <4>1, <4>2
      <4> QED
        BY <2>4, <4>1, <4>3
    <3>3. CASE i \in Len(c) + 1..Len(r)
      <4>1. PICK k \in 1..Len(held) : i = Len(c) + k
        <5>1. i - Len(c) \in 1..Len(held) /\ i = Len(c) + (i - Len(c))
          BY <1>2, <2>1, <2>2, <3>3
        <5> QED
          BY <5>1
      <4>2. r[i] = held[k]
        BY <2>2, <4>1
      <4> QED
        BY <2>1, <2>4, <4>1, <4>2
    <3> QED
      BY <1>2, <2>1, <2>2, <3>1, <3>2, <3>3
  <2>6. Received = r
    BY DEF Received, r, c
  <2>7. Len(r) = Len(asked) - Len(wire)
    BY <2>1, <2>2, <2>4
  <2> QED
    BY <2>3, <2>5, <2>6, <2>7
<1> QED
  BY <1>3, <1>4 DEF AnswersInOrder

(* What can be answered are the requests that the task has read.           *)
LEMMA CleanEndsAreWhole ==
    ASSUME IInv
    PROVE  CleanEndIsWhole
<1> SUFFICES ASSUME status = "OK"
             PROVE  Len(answers) = Cardinality({ i \in DOMAIN asked :
                                        \A j \in 1..i : asked[j].kind # "undecodable" })
  BY DEF CleanEndIsWhole
<1> DEFINE n == Len(answers)
           A == { i \in DOMAIN asked : \A j \in 1..i : asked[j].kind # "undecodable" }
<1>1. /\ client # "gone" /\ task = "ended" /\ Len(channel) = 0 /\ Len(held) = 0
      /\ \/ wire = <<>>
         \/ wire # <<>> /\ Head(wire).kind = "undecodable"
  BY Lengths DEF IInv, Phases
<1>2. /\ asked \in Seq(Requests) /\ wire \in Seq(Requests) /\ Waits(wire, asked)
      /\ n \in Nat /\ Len(wire) \in Nat /\ Len(asked) \in Nat
  BY Lengths DEF IInv, StreamTypes, InOrder
<1>3. n = Len(asked) - Len(wire)
  <2>1. Len(answers) + Len(channel) + Len(held) = Len(asked) - Len(wire)
    BY <1>1 DEF IInv, InOrder
  <2> QED
    BY <1>1, <1>2, <2>1
<1>4. DOMAIN asked = 1..Len(asked)
  BY <1>2
<1> HIDE DEF n
<1>5. ASSUME NEW j \in 1..n PROVE asked[j].kind # "undecodable" /\ j \in 1..Len(asked)
  <2>1. j \in 1..Len(asked) - Len(wire) /\ j \in 1..Len(asked)
    BY <1>2, <1>3
  <2> QED
    BY <2>1 DEF IInv, ReadIsDecodable
<1>6. A = 1..n
  <2>1. ASSUME NEW i \in 1..n PROVE i \in A
    <3>1. \A j \in 1..i : j \in 1..n
      BY <1>2
    <3> QED
      BY <1>4, <1>5, <3>1
  <2>2. ASSUME NEW i \in A PROVE i \in 1..n
    <3>1. CASE wire = <<>>
      BY <1>2, <1>3, <1>4, <3>1
    <3>2. CASE wire # <<>> /\ Head(wire).kind = "undecodable"
      <4>1. /\ Len(asked) - Len(wire) + 1 \in 1..Len(asked)
            /\ Head(wire) = asked[Len(asked) - Len(wire) + 1]
        BY <1>2, <3>2, WaitsLess
      <4>2. n + 1 \in 1..Len(asked) /\ asked[n + 1].kind = "undecodable"
        BY <1>3, <3>2, <4>1
      <4>3. i \in 1..Len(asked) /\ n + 1 \notin 1..i
        BY <1>4, <4>2
      <4> QED
        BY <1>2, <4>2, <4>3
    <3> QED
      BY <1>1, <3>1, <3>2
  <2> QED
    BY <2>1, <2>2
<1>7. Cardinality(1..n) = n
  <2>1. 1 \in Int /\ n \in Int
    BY <1>2
  <2>2. Cardinality(1..n) = IF 1 > n THEN 0 ELSE n - 1 + 1
    BY <2>1, FS_Interval
  <2> QED
    BY <1>2, <2>2
<1> QED
  BY <1>6, <1>7 DEF n

(* While the client stays, no answer of a reflection stream is lost,       *)
(* repeated or out of order, however small the channel is, and the end of  *)
(* the stream comes behind the answers to all that could be decoded        *)
(* (lib.rs, ServerReflectionInfo).                                         *)
THEOREM StreamIsAnswered == Spec => []StreamInv
<1>1. IInv => StreamInv
  <2> SUFFICES ASSUME IInv
               PROVE  StreamInv
    OBVIOUS
  <2>1. IsSuffix(wire, asked)
    BY SuffixOf DEF IInv, StreamTypes, InOrder
  <2>2. TypeOK
    BY <2>1 DEF IInv, StreamTypes, TypeOK
  <2> QED
    BY <2>2, AnswersAreInOrder, CleanEndsAreWhole DEF StreamInv
<1> QED
  BY <1>1, InvariantHolds, PTL
-----------------------------------------------------------------------------
(* Induction over the numbers, for sets of them.                           *)
LEMMA Induction ==
    ASSUME NEW T, 0 \in T, \A n \in Nat : n \in T => n + 1 \in T
    PROVE  Nat \subseteq T
<1> DEFINE R == {q \in Nat \X Nat : q[1] < q[2]}
           F == Nat \ T
<1>1. IsWellFoundedOn(R, Nat)
  BY NatLessThanWellFounded DEF OpToRel
<1>2. SUFFICES ASSUME F # {} PROVE FALSE
  OBVIOUS
<1>3. F \subseteq Nat
  OBVIOUS
<1> HIDE DEF R, F
<1>4. PICK x \in F : \A y \in F : <<y, x>> \notin R
  BY <1>1, <1>2, <1>3, WFMin
<1>5. x \in Nat /\ x # 0 /\ x \notin T
  BY <1>4 DEF F
<1>6. x - 1 \in Nat /\ (x - 1) + 1 = x /\ x - 1 < x
  BY <1>5
<1>7. <<x - 1, x>> \in R
  BY <1>5, <1>6 DEF R
<1>8. x - 1 \in T
  BY <1>4, <1>6, <1>7 DEF F
<1> QED
  BY <1>5, <1>6, <1>8

(* The loop over the files of a set: what the state is after k of them.    *)
Round(state, s, fds, after) ==
    IF s = {} THEN state ELSE RegisterFile(after[s \ {Max(s)}], fds[Max(s)])
Rounds(state, fds) ==
    CHOOSE after : after = [s \in SUBSET DOMAIN fds |-> Round(state, s, fds, after)]

LEMMA FoldIs ==
    \A state, fds : FoldLeft(RegisterFile, state, fds) = Rounds(state, fds)[DOMAIN fds]
BY DEF FoldLeft, MapThenFoldSet, Rounds, Round

LEMMA MaxIs ==
    ASSUME NEW k \in Nat, NEW s \in SUBSET (1..k + 1), k + 1 \in s
    PROVE  Max(s) = k + 1 /\ s \ {Max(s)} \in SUBSET (1..k)
<1> DEFINE m == Max(s)
<1>1. k + 1 \in s /\ \A y \in s : k + 1 >= y
  OBVIOUS
<1>2. m \in s /\ \A y \in s : m >= y
  BY <1>1 DEF Max
<1> HIDE DEF m
<1>3. m >= k + 1 /\ k + 1 >= m /\ m \in Int
  BY <1>1, <1>2
<1>4. m = k + 1
  BY <1>3
<1> QED
  BY <1>4 DEF m

LEMMA RoundsExist ==
    ASSUME NEW state, NEW fds, NEW n \in Nat, DOMAIN fds = 1..n
    PROVE  \E after : after = [s \in SUBSET DOMAIN fds |-> Round(state, s, fds, after)]
<1> DEFINE Right(after, k) == after = [s \in SUBSET (1..k) |-> Round(state, s, fds, after)]
           T == { k \in Nat : \E after : Right(after, k) }
<1>1. 0 \in T
  <2> DEFINE none == [s \in {{}} |-> state]
  <2>1. SUBSET (1..0) = {{}}
    OBVIOUS
  <2>2. none = [s \in {{}} |-> Round(state, s, fds, none)]
    BY DEF Round
  <2> HIDE DEF none
  <2>3. Right(none, 0)
    BY <2>1, <2>2
  <2> QED
    BY <2>3
<1>2. ASSUME NEW k \in Nat, k \in T PROVE k + 1 \in T
  <2>1. PICK f : Right(f, k)
    BY <1>2
  <2> DEFINE D == SUBSET (1..k)
             E == SUBSET (1..k + 1)
             Later(s) == IF k + 1 \in s THEN RegisterFile(f[s \ {k + 1}], fds[k + 1]) ELSE f[s]
             g == [s \in E |-> Later(s)]
  <2>2. \A s \in D : s \in E /\ g[s] = f[s]
    OBVIOUS
  <2>3. ASSUME NEW s \in E PROVE g[s] = Round(state, s, fds, g)
    <3>1. CASE k + 1 \in s
      <4>1. Max(s) = k + 1 /\ s \ {Max(s)} \in D
        BY <3>1, MaxIs
      <4>2. g[s \ {k + 1}] = f[s \ {k + 1}]
        BY <2>2, <4>1
      <4>3. g[s] = RegisterFile(f[s \ {k + 1}], fds[k + 1])
        BY <3>1
      <4> HIDE DEF g
      <4>4. s # {}
        BY <3>1
      <4> QED
        BY <4>1, <4>2, <4>3, <4>4 DEF Round
    <3>2. CASE k + 1 \notin s
      <4>1. s \in D
        BY <3>2
      <4>2. g[s] = f[s] /\ f[s] = Round(state, s, fds, f)
        BY <2>1, <2>2, <4>1
      <4>3. s \ {Max(s)} \in D
        BY <4>1
      <4>4. g[s \ {Max(s)}] = f[s \ {Max(s)}]
        BY <2>2, <4>3
      <4> HIDE DEF g
      <4> QED
        BY <4>2, <4>4 DEF Round
    <3> QED
      BY <3>1, <3>2
  <2>4. g = [s \in E |-> g[s]]
    OBVIOUS
  <2> HIDE DEF g
  <2>5. Right(g, k + 1)
    BY <2>3, <2>4
  <2> QED
    BY <2>5
<1> HIDE DEF T
<1>3. n \in T
  BY <1>1, <1>2, Induction
<1> QED
  BY <1>3 DEF T

LEMMA RoundIs ==
    ASSUME NEW state, NEW fds, NEW n \in Nat, DOMAIN fds = 1..n
    PROVE  /\ Rounds(state, fds)[1..0] = state
           /\ \A k \in 0..n - 1 :
                  Rounds(state, fds)[1..k + 1] = RegisterFile(Rounds(state, fds)[1..k], fds[k + 1])
<1> DEFINE R == Rounds(state, fds)
<1>1. R = [s \in SUBSET DOMAIN fds |-> Round(state, s, fds, R)]
  BY RoundsExist DEF Rounds
<1> HIDE DEF R
<1>2. R[1..0] = state
  <2>1. 1..0 = {} /\ {} \in SUBSET DOMAIN fds
    OBVIOUS
  <2> QED
    BY <1>1, <2>1 DEF Round
<1>3. ASSUME NEW k \in 0..n - 1 PROVE R[1..k + 1] = RegisterFile(R[1..k], fds[k + 1])
  <2> DEFINE s == 1..k + 1
  <2>1. /\ k \in Nat /\ s \in SUBSET (1..k + 1) /\ k + 1 \in s /\ s \in SUBSET DOMAIN fds
        /\ s # {} /\ s \ {k + 1} = 1..k
    OBVIOUS
  <2> HIDE DEF s
  <2>2. Max(s) = k + 1
    BY <2>1, MaxIs
  <2>3. R[s] = RegisterFile(R[s \ {Max(s)}], fds[Max(s)])
    BY <1>1, <2>1 DEF Round
  <2> QED
    BY <2>1, <2>2, <2>3 DEF s
<1> QED
  BY <1>2, <1>3 DEF R

(* Sequences of names, and how often a name is in them.                    *)
LEMMA JoinIs ==
    ASSUME NEW A, NEW B, NEW a \in Seq(A), NEW b \in Seq(B)
    PROVE  /\ a \o b \in Seq(A \cup B)
           /\ Len(a) \in Nat /\ Len(b) \in Nat
           /\ DOMAIN a = 1..Len(a) /\ DOMAIN b = 1..Len(b)
           /\ DOMAIN (a \o b) = 1..Len(a) + Len(b)
           /\ \A k \in 1..Len(a) : (a \o b)[k] = a[k]
           /\ \A k \in 1..Len(b) : (a \o b)[Len(a) + k] = b[k]
<1>1. a \in Seq(A \cup B) /\ b \in Seq(A \cup B)
  <2>1. A \subseteq A \cup B /\ B \subseteq A \cup B
    OBVIOUS
  <2> DEFINE C == A \cup B
  <2> HIDE DEF C
  <2>2. a \in Seq(C) /\ b \in Seq(C)
    BY <2>1, Widen DEF C
  <2> QED
    BY <2>2 DEF C
<1> DEFINE C == A \cup B
<1> HIDE DEF C
<1>2. a \in Seq(C) /\ b \in Seq(C)
  BY <1>1 DEF C
<1>3. a \o b \in Seq(C) /\ Len(a \o b) = Len(a) + Len(b)
  BY <1>2
<1> QED
  BY <1>2, <1>3 DEF C

LEMMA PlacesFinite ==
    ASSUME NEW A, NEW a \in Seq(A), NEW name
    PROVE  /\ IsFiniteSet(Places(a, name)) /\ Count(a, name) \in Nat
           /\ Count(a, name) = 0 <=> name \notin ToSet(a)
<1>1. IsFiniteSet(1..Len(a)) /\ DOMAIN a = 1..Len(a)
  BY FS_Interval
<1>2. Places(a, name) \subseteq 1..Len(a)
  BY <1>1 DEF Places
<1>3. IsFiniteSet(Places(a, name))
  BY <1>1, <1>2, FS_Subset
<1>4. Count(a, name) \in Nat /\ (Count(a, name) = 0 <=> Places(a, name) = {})
  BY <1>3, FS_CardinalityType, FS_EmptySet DEF Count
<1>5. Places(a, name) = {} <=> name \notin ToSet(a)
  BY DEF Places, ToSet
<1> QED
  BY <1>3, <1>4, <1>5

LEMMA CountJoined ==
    ASSUME NEW A, NEW B, NEW a \in Seq(A), NEW b \in Seq(B), NEW name
    PROVE  Count(a \o b, name) = Count(a, name) + Count(b, name)
<1> DEFINE c == a \o b
           P == Places(a, name)
           Q == Places(b, name)
           Moved == { Len(a) + k : k \in Q }
           g == [k \in Q |-> Len(a) + k]
<1>1. /\ Len(a) \in Nat /\ Len(b) \in Nat
      /\ DOMAIN a = 1..Len(a) /\ DOMAIN b = 1..Len(b) /\ DOMAIN c = 1..Len(a) + Len(b)
      /\ \A k \in 1..Len(a) : c[k] = a[k]
      /\ \A k \in 1..Len(b) : c[Len(a) + k] = b[k]
  BY JoinIs
<1>2. IsFiniteSet(P) /\ IsFiniteSet(Q)
  BY PlacesFinite
<1> HIDE DEF c
<1>3. P \subseteq 1..Len(a) /\ Q \subseteq 1..Len(b)
  BY <1>1 DEF Places
<1>4. Places(c, name) = P \cup Moved
  <2>1. ASSUME NEW i \in Places(c, name) PROVE i \in P \cup Moved
    <3>1. i \in 1..Len(a) + Len(b) /\ c[i] = name
      BY <1>1 DEF Places
    <3>2. CASE i \in 1..Len(a)
      BY <1>1, <3>1, <3>2 DEF Places
    <3>3. CASE i \notin 1..Len(a)
      <4> DEFINE k == i - Len(a)
      <4>1. k \in 1..Len(b) /\ i = Len(a) + k
        BY <1>1, <3>1, <3>3
      <4> HIDE DEF k
      <4>2. k \in Q
        BY <1>1, <3>1, <4>1 DEF Places
      <4> QED
        BY <4>1, <4>2
    <3> QED
      BY <3>2, <3>3
  <2>2. ASSUME NEW i \in P PROVE i \in Places(c, name)
    BY <1>1 DEF Places
  <2>3. ASSUME NEW k \in Q PROVE Len(a) + k \in Places(c, name)
    <3>1. k \in 1..Len(b) /\ b[k] = name
      BY <1>1 DEF Places
    <3>2. Len(a) + k \in DOMAIN c /\ c[Len(a) + k] = name
      BY <1>1, <3>1
    <3> QED
      BY <3>2 DEF Places
  <2> QED
    BY <2>1, <2>2, <2>3
<1> HIDE DEF P, Q
<1>5. P \cap Moved = {}
  BY <1>1, <1>3
<1>6. IsFiniteSet(Moved) /\ Cardinality(Moved) = Cardinality(Q)
  <2>1. g \in [Q -> Moved]
    OBVIOUS
  <2>2. \A j, k \in Q : g[j] = g[k] => j = k
    BY <1>1, <1>3
  <2>3. \A m \in Moved : \E k \in Q : g[k] = m
    OBVIOUS
  <2>4. g \in Bijection(Q, Moved)
    <3> HIDE DEF g, Moved
    <3> QED
      BY <2>1, <2>2, <2>3 DEF Bijection, Injection, Surjection, IsInjective
  <2> HIDE DEF g, Moved
  <2>5. ExistsBijection(Q, Moved)
    BY <2>4 DEF ExistsBijection
  <2> QED
    BY <1>2, <2>5, FS_Bijection
<1> HIDE DEF Moved
<1>7. Cardinality(P \cup Moved) = Cardinality(P) + Cardinality(Q) - Cardinality({})
  BY <1>2, <1>5, <1>6, FS_Union
<1>8. Cardinality({}) = 0 /\ Cardinality(P) \in Nat /\ Cardinality(Q) \in Nat
  BY <1>2, FS_EmptySet, FS_CardinalityType
<1> QED
  BY <1>4, <1>7, <1>8 DEF Count, c, P, Q

LEMMA OccurrencesAppended ==
    ASSUME NEW F, NEW fds \in Seq(F), NEW f, NEW name, IsFiniteSet(Occurrences(fds, name)),
           NEW A, ServiceNames(f) \in Seq(A)
    PROVE  /\ IsFiniteSet(Occurrences(Append(fds, f), name))
           /\ Cardinality(Occurrences(Append(fds, f), name)) =
                  Cardinality(Occurrences(fds, name)) + Count(ServiceNames(f), name)
<1> DEFINE n == Len(fds)
           all == Append(fds, f)
           old == Occurrences(fds, name)
           P == Places(ServiceNames(f), name)
           new == {n + 1} \X P
<1>1. /\ n \in Nat /\ DOMAIN fds = 1..n /\ DOMAIN all = (1..n) \cup {n + 1}
      /\ \A j \in 1..n : all[j] = fds[j]
      /\ all[n + 1] = f
  <2> DEFINE G == F \cup {f}
  <2>1. F \subseteq G /\ f \in G
    OBVIOUS
  <2> HIDE DEF G
  <2>2. fds \in Seq(G)
    BY <2>1, Widen
  <2> QED
    BY <2>1, <2>2
<1> HIDE DEF all, n
<1>2. Occurrences(all, name) = old \cup new
  BY <1>1 DEF Occurrences
<1>3. old \cap new = {}
  BY <1>1 DEF Occurrences
<1>4. IsFiniteSet(P)
  BY PlacesFinite
<1> HIDE DEF old, P
<1>5. IsFiniteSet({n + 1}) /\ Cardinality({n + 1}) = 1
  BY FS_Singleton
<1>6. IsFiniteSet(new) /\ Cardinality(new) = 1 * Cardinality(P)
  BY <1>4, <1>5, FS_Product
<1>7. IsFiniteSet(old)
  BY DEF old
<1> HIDE DEF new
<1>8. /\ IsFiniteSet(old \cup new)
      /\ Cardinality(old \cup new) = Cardinality(old) + Cardinality(new) - Cardinality({})
  <2>1. IsFiniteSet(new)
    BY <1>6
  <2>2. Cardinality(old \cup new)
            = Cardinality(old) + Cardinality(new) - Cardinality(old \cap new)
    BY <1>7, <2>1, FS_Union
  <2>3. IsFiniteSet(old \cup new)
    BY <1>7, <2>1, FS_Union
  <2> QED
    BY <1>3, <2>2, <2>3
<1>9. Cardinality({}) = 0 /\ Cardinality(P) \in Nat /\ Cardinality(old) \in Nat
  BY <1>4, <1>7, FS_EmptySet, FS_CardinalityType
<1> QED
  BY <1>2, <1>6, <1>8, <1>9 DEF Count, all, old, P

(* The index over the files registered so far.                             *)
Files ==
    { Sources[name] : name \in DOMAIN Sources }
        \cup UNION { ToSet(fds) : fds \in ForeignSets \ {Corrupt} }

SymbolsAre(fds, map) ==
    /\ \A s \in DOMAIN map : map[s] \in ToSet(fds) /\ Defines(map[s], s)
    /\ \A f \in ToSet(fds) : \A s : Defines(f, s) => s \in DOMAIN map

FilesAre(fds, map) ==
    /\ \A n \in DOMAIN map : map[n] \in ToSet(fds) /\ map[n].name = n
    /\ \A f \in ToSet(fds) : f.name \in DOMAIN map

Times(fds, hand, name) == Count(hand, name) + Cardinality(Occurrences(fds, name))
NamesAre(fds, hand, names) ==
    /\ \E A : names \in Seq(A)
    /\ \A name : /\ IsFiniteSet(Occurrences(fds, name))
                 /\ Count(names, name) = Times(fds, hand, name)

Indexed(fds, hand, state) ==
    /\ fds \in Seq(Files) /\ (\E A : hand \in Seq(A))
    /\ SymbolsAre(fds, state.symbols)
    /\ FilesAre(fds, state.files)
    /\ NamesAre(fds, hand, state.names)

LEMMA FilesHaveServices ==
    ASSUME NEW f \in Files
    PROVE  f.services \in Seq(ToSet(f.services)) /\ \E A : ServiceNames(f) \in Seq(A)
<1>1. f.services \in Seq(ToSet(f.services))
  <2>1. CASE \E name \in DOMAIN Sources : f = Sources[name]
    BY <2>1, FilesAssumption
  <2>2. CASE \E fds \in ForeignSets \ {Corrupt} : f \in ToSet(fds)
    BY <2>2, FilesAssumption DEF ToSet
  <2> QED
    BY <2>1, <2>2 DEF Files
<1> DEFINE q == ServiceNames(f)
           n == Len(f.services)
<1>2. n \in Nat /\ DOMAIN f.services = 1..n
  BY <1>1
<1> HIDE DEF n
<1>3. q = [i \in 1..n |-> f.package \o f.services[i].name]
  BY <1>2 DEF ServiceNames
<1> HIDE DEF q
<1>4. q \in Seq({ q[i] : i \in 1..n })
  <2> DEFINE S == { q[i] : i \in 1..n }
  <2>1. q = [i \in 1..n |-> q[i]] /\ \A i \in 1..n : q[i] \in S
    BY <1>3
  <2> HIDE DEF S
  <2>2. q \in Seq(S)
    BY <1>2, <2>1
  <2> QED
    BY <2>2 DEF S
<1> QED
  BY <1>1, <1>4 DEF q

LEMMA AppendIs ==
    ASSUME NEW F, NEW fds \in Seq(F), NEW f \in F
    PROVE  Append(fds, f) \in Seq(F) /\ ToSet(Append(fds, f)) = ToSet(fds) \cup {f}
<1> DEFINE n == Len(fds)
           all == Append(fds, f)
<1>1. /\ all \in Seq(F) /\ n \in Nat /\ DOMAIN fds = 1..n /\ DOMAIN all = 1..n + 1
      /\ \A j \in 1..n : all[j] = fds[j]
      /\ all[n + 1] = f
  OBVIOUS
<1> HIDE DEF all, n
<1>2. \A j \in 1..n + 1 : j \in 1..n \/ j = n + 1
  BY <1>1
<1>3. n + 1 \in DOMAIN all /\ \A j \in 1..n : j \in DOMAIN all
  BY <1>1
<1>4. ToSet(all) = ToSet(fds) \cup {f}
  <2>1. ASSUME NEW x \in ToSet(all) PROVE x \in ToSet(fds) \cup {f}
    BY <1>1, <1>2 DEF ToSet
  <2>2. ASSUME NEW x \in ToSet(fds) PROVE x \in ToSet(all)
    BY <1>1, <1>3 DEF ToSet
  <2>3. f \in ToSet(all)
    BY <1>1, <1>3 DEF ToSet
  <2> QED
    BY <2>1, <2>2, <2>3
<1> QED
  BY <1>1, <1>4 DEF all

LEMMA SymbolIs ==
    ASSUME NEW f, NEW s
    PROVE  s \in ServiceSymbols(f) \cup TypeSymbols(f) <=> Defines(f, s)
<1>1. s \in TypeSymbols(f) <=> \E t \in f.messages \cup f.enums : s = f.package \o t
  BY DEF TypeSymbols
<1>2. s \in ServiceSymbols(f) <=>
          \E v \in ToSet(f.services) :
              \/ s = f.package \o v.name
              \/ \E m \in v.methods : s = f.package \o v.name \o m
  <2> DEFINE SymbolsOf(v) ==
                 {f.package \o v.name} \cup { f.package \o v.name \o m : m \in v.methods }
  <2>1. \A v : s \in SymbolsOf(v) <=>
               \/ s = f.package \o v.name
               \/ \E m \in v.methods : s = f.package \o v.name \o m
    OBVIOUS
  <2>2. ServiceSymbols(f) = UNION { SymbolsOf(v) : v \in ToSet(f.services) }
    BY DEF ServiceSymbols
  <2> HIDE DEF SymbolsOf
  <2>3. s \in ServiceSymbols(f) <=> \E v \in ToSet(f.services) : s \in SymbolsOf(v)
    BY <2>2
  <2> QED
    BY <2>1, <2>3
<1> QED
  BY <1>1, <1>2 DEF Defines

LEMMA FileRegistered ==
    ASSUME NEW fds, NEW hand, NEW state, Indexed(fds, hand, state), NEW f \in Files
    PROVE  Indexed(Append(fds, f), hand, RegisterFile(state, f))
<1> DEFINE all == Append(fds, f)
           after == RegisterFile(state, f)
           new == ServiceSymbols(f) \cup TypeSymbols(f)
<1>1. fds \in Seq(Files) /\ all \in Seq(Files) /\ ToSet(all) = ToSet(fds) \cup {f}
  BY AppendIs DEF Indexed
<1>2. /\ after.names = state.names \o ServiceNames(f)
      /\ after.symbols = Inserted(state.symbols, new, f)
      /\ after.files = Inserted(state.files, {f.name}, f)
  BY DEF RegisterFile
<1>3. \A s : s \in new <=> Defines(f, s)
  BY SymbolIs
<1>4. \A name : /\ IsFiniteSet(Occurrences(all, name))
                /\ Cardinality(Occurrences(all, name)) =
                       Cardinality(Occurrences(fds, name)) + Count(ServiceNames(f), name)
  <2> TAKE name
  <2>1. PICK A : ServiceNames(f) \in Seq(A)
    BY FilesHaveServices
  <2>2. IsFiniteSet(Occurrences(fds, name))
    BY DEF Indexed, NamesAre
  <2> QED
    BY <1>1, <2>1, <2>2, OccurrencesAppended
<1> HIDE DEF all, after, new
<1>5. SymbolsAre(all, after.symbols)
  <2> DEFINE map == state.symbols
             map2 == Inserted(map, new, f)
  <2>1. SymbolsAre(fds, map)
    BY DEF Indexed
  <2> HIDE DEF map
  <2>2. DOMAIN map2 = DOMAIN map \cup new
    BY DEF Inserted
  <2>3. \A s \in new : map2[s] = f
    BY DEF Inserted
  <2>4. \A s \in DOMAIN map : s \notin new => map2[s] = map[s]
    BY DEF Inserted
  <2> HIDE DEF map2
  <2>5. SymbolsAre(all, map2)
    BY <1>1, <1>3, <2>1, <2>2, <2>3, <2>4 DEF SymbolsAre
  <2> QED
    BY <1>2, <2>5 DEF map, map2
<1>6. FilesAre(all, after.files)
  <2> DEFINE map == state.files
             map2 == Inserted(map, {f.name}, f)
  <2>1. FilesAre(fds, map)
    BY DEF Indexed
  <2> HIDE DEF map
  <2>2. DOMAIN map2 = DOMAIN map \cup {f.name}
    BY DEF Inserted
  <2>3. map2[f.name] = f
    BY DEF Inserted
  <2>4. \A n \in DOMAIN map : n # f.name => map2[n] = map[n]
    BY DEF Inserted
  <2> HIDE DEF map2
  <2>5. FilesAre(all, map2)
    BY <1>1, <2>1, <2>2, <2>3, <2>4 DEF FilesAre
  <2> QED
    BY <1>2, <2>5 DEF map, map2
<1>7. NamesAre(all, hand, after.names)
  <2> DEFINE names == state.names
             more == ServiceNames(f)
  <2>1. PICK A : names \in Seq(A)
    BY DEF Indexed, NamesAre
  <2>2. PICK B : more \in Seq(B)
    BY FilesHaveServices
  <2>3. PICK C : hand \in Seq(C)
    BY DEF Indexed
  <2>4. \A name : /\ Count(names, name) = Times(fds, hand, name)
                  /\ IsFiniteSet(Occurrences(fds, name))
    BY DEF Indexed, NamesAre
  <2> HIDE DEF names, more
  <2>5. \E D : names \o more \in Seq(D)
    BY <2>1, <2>2, JoinIs
  <2>6. \A name : Count(names \o more, name) = Times(all, hand, name)
    <3> TAKE name
    <3> DEFINE a == Count(hand, name)
               b == Cardinality(Occurrences(fds, name))
               c == Count(more, name)
    <3>1. a \in Nat /\ b \in Nat /\ c \in Nat
      BY <2>2, <2>3, <2>4, PlacesFinite, FS_CardinalityType
    <3>2. Count(names \o more, name) = Count(names, name) + c
      BY <2>1, <2>2, CountJoined
    <3>3. Count(names, name) = a + b
      BY <2>4 DEF Times
    <3>4. Times(all, hand, name) = a + (b + c)
      BY <1>4 DEF Times, more
    <3> HIDE DEF a, b, c
    <3> QED
      BY <3>1, <3>2, <3>3, <3>4
  <2> QED
    BY <1>2, <1>4, <2>5, <2>6 DEF NamesAre, names, more
<1> QED
  BY <1>1, <1>5, <1>6, <1>7 DEF Indexed, all, after

LEMMA SetRegistered ==
    ASSUME NEW fds, NEW hand, NEW state, Indexed(fds, hand, state), NEW more \in Seq(Files)
    PROVE  Indexed(fds \o more, hand, FoldLeft(RegisterFile, state, more))
<1> DEFINE n == Len(fds)
           L == Len(more)
           R == Rounds(state, more)
           At(k) == [i \in 1..n + k |-> IF i <= n THEN fds[i] ELSE more[i - n]]
           Done(k) == k <= L => Indexed(At(k), hand, R[1..k])
           T == { k \in Nat : Done(k) }
<1>1. /\ n \in Nat /\ L \in Nat /\ DOMAIN more = 1..L
      /\ fds \in Seq(Files) /\ DOMAIN fds = 1..n
      /\ \A k \in 1..L : more[k] \in Files
  BY DEF Indexed
<1>2. /\ R[1..0] = state
      /\ \A k \in 0..L - 1 : R[1..k + 1] = RegisterFile(R[1..k], more[k + 1])
  BY <1>1, RoundIs
<1>3. fds \o more = At(L)
  <2>1. fds \o more \in Seq(Files) /\ Len(fds \o more) = n + L
    BY <1>1
  <2>2. \A i \in 1..n + L : (fds \o more)[i] = IF i <= n THEN fds[i] ELSE more[i - n]
    BY <1>1
  <2> DEFINE c == fds \o more
  <2>3. c \in Seq(Files) /\ Len(c) = n + L
    BY <2>1
  <2>4. \A i \in 1..n + L : c[i] = At(L)[i]
    BY <2>2
  <2> HIDE DEF c
  <2>5. c = [i \in 1..n + L |-> c[i]]
    BY <2>3
  <2>6. c = At(L)
    BY <2>4, <2>5
  <2> QED
    BY <2>6 DEF c
<1>4. At(0) = fds
  <2>1. fds = [i \in 1..n |-> fds[i]]
    BY <1>1
  <2>2. \A i \in 1..n + 0 : i \in 1..n /\ i <= n
    BY <1>1
  <2>3. 1..n + 0 = 1..n
    BY <1>1
  <2> QED
    BY <2>1, <2>2, <2>3
<1>5. \A k \in 0..L - 1 : At(k + 1) = Append(At(k), more[k + 1])
  <2> TAKE k \in 0..L - 1
  <2>1. /\ k \in Nat /\ k + 1 \in 1..L /\ n + (k + 1) = (n + k) + 1
        /\ (n + k) + 1 - n = k + 1 /\ ~((n + k) + 1 <= n) /\ n + k \in Nat
    BY <1>1
  <2>2. At(k) \in Seq(Files) /\ Len(At(k)) = n + k
    <3>1. \A i \in 1..n + k : At(k)[i] \in Files
      BY <1>1, <2>1
    <3>2. At(k) = [i \in 1..n + k |-> At(k)[i]]
      OBVIOUS
    <3> DEFINE q == At(k)
               m == n + k
    <3> HIDE DEF q, m
    <3>3. m \in Nat /\ q = [i \in 1..m |-> q[i]] /\ \A i \in 1..m : q[i] \in Files
      BY <2>1, <3>1, <3>2 DEF q, m
    <3>4. q \in Seq(Files) /\ Len(q) = m
      BY <3>3
    <3> QED
      BY <3>4 DEF q, m
  <2> DEFINE q == At(k)
             m == n + k
             e == more[k + 1]
  <2>3. q = [i \in 1..m |-> At(k)[i]] /\ e \in Files
    BY <1>1, <2>1
  <2> HIDE DEF q, m, e
  <2>4. Append(q, e) = [i \in 1..m + 1 |-> IF i = m + 1 THEN e ELSE q[i]]
    BY <2>1, <2>2, <2>3 DEF q, m
  <2>5. \A i \in 1..m + 1 : (IF i = m + 1 THEN e ELSE q[i]) = At(k + 1)[i]
    BY <1>1, <2>1 DEF q, m, e
  <2>6. 1..n + (k + 1) = 1..m + 1
    BY <2>1 DEF m
  <2>7. At(k + 1) = [i \in 1..n + (k + 1) |-> At(k + 1)[i]]
    OBVIOUS
  <2>8. At(k + 1) = Append(q, e)
    BY <2>4, <2>5, <2>6, <2>7
  <2> QED
    BY <2>8 DEF q, e
<1> HIDE DEF n, L, R, At
<1>6. 0 \in T
  BY <1>2, <1>4
<1>7. ASSUME NEW k \in Nat, k \in T PROVE k + 1 \in T
  <2> SUFFICES ASSUME k + 1 <= L PROVE Indexed(At(k + 1), hand, R[1..k + 1])
    OBVIOUS
  <2>1. k \in 0..L - 1 /\ k + 1 \in 1..L /\ k <= L
    BY <1>1
  <2>2. Indexed(At(k), hand, R[1..k])
    BY <1>7, <2>1
  <2> DEFINE f == more[k + 1]
             done == At(k)
             after == R[1..k]
  <2>3. f \in Files /\ At(k + 1) = Append(done, f) /\ R[1..k + 1] = RegisterFile(after, f)
    BY <1>1, <1>2, <1>5, <2>1
  <2>4. Indexed(done, hand, after)
    BY <2>2
  <2> HIDE DEF f, done, after
  <2>5. Indexed(Append(done, f), hand, RegisterFile(after, f))
    BY <2>3, <2>4, FileRegistered
  <2> QED
    BY <2>3, <2>5
<1> HIDE DEF T
<1>8. Nat \subseteq T
  BY <1>6, <1>7, Induction
<1>9. Done(L)
  BY <1>1, <1>8 DEF T
<1>10. Indexed(At(L), hand, R[1..L])
  BY <1>1, <1>9
<1>11. FoldLeft(RegisterFile, state, more) = R[1..L]
  BY <1>1, FoldIs DEF R
<1> QED
  BY <1>3, <1>10, <1>11

(* The files that a compilation leaves.                                    *)
LEMMA ListOf ==
    ASSUME NEW S, IsFiniteSet(S)
    PROVE  SetToSeq(S) \in Seq(S)
<1> DEFINE n == Cardinality(S)
           f == SetToSeq(S)
<1>1. n \in Nat /\ ExistsBijection(1..n, S)
  BY FS_CardinalityType
<1>2. PICK g : g \in Bijection(1..n, S)
  BY <1>1 DEF ExistsBijection
<1>3. g \in [1..n -> S] /\ IsInjective(g)
  BY <1>2 DEF Bijection, Injection
<1>4. f \in [1..n -> S]
  BY <1>3 DEF SetToSeq
<1> HIDE DEF n, f
<1>5. f \in Seq(S)
  BY <1>1, <1>4
<1> QED
  BY <1>5 DEF f

LEMMA AnalyzeIs ==
    ASSUME NEW name \in DOMAIN Sources
    PROVE  Analyze(name) \in Seq(Files)
<1> DEFINE I == Sources[name].imports
           S == { Sources[i] : i \in I }
           g == [i \in I |-> Sources[i]]
<1>1. IsFiniteSet(I) /\ I \subseteq DOMAIN Sources
  BY FilesAssumption
<1>2. S \subseteq Files /\ Sources[name] \in Files
  BY <1>1 DEF Files
<1>3. g \in Surjection(I, S)
  BY DEF Surjection
<1> HIDE DEF g, I, S
<1>4. IsFiniteSet(S)
  BY <1>1, <1>3, FS_Surjection
<1>5. SetToSeq(S) \in Seq(S)
  BY <1>4, ListOf
<1> HIDE DEF Files
<1>6. SetToSeq(S) \in Seq(Files)
  BY <1>2, <1>5, Widen
<1>7. Append(SetToSeq(S), Sources[name]) \in Seq(Files)
  BY <1>2, <1>6
<1> QED
  BY <1>7 DEF Analyze, S, I

(* What is answered, wherever the answer is, comes from the index.         *)
Answer(q, names, from, named) ==
    CASE q.kind = "list" -> [services |-> names]
      [] q.kind = "symbol" -> Lookup(from, q.name)
      [] q.kind = "file" -> Lookup(named, q.name)
      [] q.kind = "extensions" -> [code |-> 12]
      [] OTHER -> [code |-> 3]
Answered(s, names, from, named) ==
    \A i \in DOMAIN s : s[i].response = Answer(s[i].original, names, from, named)

FullyNamed ==
    \A name : /\ IsFiniteSet(Occurrences(registered, name))
              /\ Count(serviceNames, name) =
                     IF stage = "serve" /\ name = Name /\ Times(registered, byHand, name) = 0 THEN 1
                     ELSE Times(registered, byHand, name)

IndexTypes ==
    /\ descriptorBin \in Seq(Files) /\ registered \in Seq(Files)
    /\ (\E A : byHand \in Seq(A)) /\ (\E A : serviceNames \in Seq(A))

FromIndex ==
    /\ Answered(answers, serviceNames, symbols, files)
    /\ Answered(channel, serviceNames, symbols, files)
    /\ Answered(held, serviceNames, symbols, files)

NoneBefore == stage # "serve" => answers = <<>> /\ channel = <<>> /\ held = <<>>

IndexInv ==
    /\ IndexTypes
    /\ SymbolsAre(registered, symbols) /\ FilesAre(registered, files)
    /\ FullyNamed
    /\ FromIndex
    /\ NoneBefore

LEMMA NothingAnswered ==
    \A names, from, named : Answered(<<>>, names, from, named)
BY DEF Answered

LEMMA EmptyIndex ==
    Init => IndexInv
<1> SUFFICES ASSUME Init PROVE IndexInv
  OBVIOUS
<1>1. /\ stage = "compile" /\ descriptorBin = <<>> /\ registered = <<>> /\ byHand = <<>>
      /\ serviceNames = <<>> /\ channel = <<>> /\ held = <<>> /\ answers = <<>>
      /\ symbols = [s \in {} |-> <<>>] /\ files = [f \in {} |-> <<>>]
  BY DEF Init
<1>2. IndexTypes
  <2>1. <<>> \in Seq(Files)
    OBVIOUS
  <2> QED
    BY <1>1, <2>1 DEF IndexTypes
<1>3. SymbolsAre(registered, symbols) /\ FilesAre(registered, files)
  BY <1>1 DEF SymbolsAre, FilesAre, ToSet
<1>4. FullyNamed
  <2> SUFFICES ASSUME NEW name
               PROVE  /\ IsFiniteSet(Occurrences(registered, name))
                      /\ Count(serviceNames, name) =
                             IF /\ stage = "serve" /\ name = Name
                                /\ Times(registered, byHand, name) = 0
                             THEN 1 ELSE Times(registered, byHand, name)
    BY DEF FullyNamed
  <2>1. Occurrences(<<>>, name) = {} /\ Places(<<>>, name) = {}
    BY DEF Occurrences, Places
  <2>2. IsFiniteSet({}) /\ Cardinality({}) = 0
    BY FS_EmptySet
  <2>3. Count(<<>>, name) = 0 /\ Times(<<>>, <<>>, name) = 0
    BY <2>1, <2>2 DEF Count, Times
  <2> QED
    BY <1>1, <2>1, <2>2, <2>3
<1>5. FromIndex /\ NoneBefore
  BY <1>1, NothingAnswered DEF FromIndex, NoneBefore
<1> QED
  BY <1>2, <1>3, <1>4, <1>5 DEF IndexInv

LEMMA CompileIndex ==
    ASSUME IndexInv, CompileProto \/ CompileDone
    PROVE  IndexInv'
<1>1. /\ stage # "serve" /\ stage' # "serve"
      /\ UNCHANGED <<registered, byHand, serviceNames, symbols, files, channel, held, answers>>
  BY DEF CompileProto, CompileDone, index, stream
<1>2. descriptorBin' \in Seq(Files)
  <2>1. CASE UNCHANGED descriptorBin
    BY <2>1 DEF IndexInv, IndexTypes
  <2>2. CASE \E name \in DOMAIN Sources : descriptorBin' = Analyze(name)
    BY <2>2, AnalyzeIs
  <2> QED
    BY <2>1, <2>2 DEF CompileProto, CompileDone, build, WriteDescriptors
<1>3. IndexTypes'
  BY <1>1, <1>2 DEF IndexInv, IndexTypes
<1>4. FullyNamed'
  BY <1>1 DEF IndexInv, FullyNamed
<1>5. FromIndex' /\ NoneBefore'
  BY <1>1 DEF IndexInv, FromIndex, NoneBefore
<1> QED
  BY <1>1, <1>3, <1>4, <1>5 DEF IndexInv

LEMMA RegisterSetIndex ==
    ASSUME IndexInv, RegisterSet
    PROVE  IndexInv'
<1>1. /\ stage = "register" /\ stage' # "serve"
      /\ UNCHANGED <<byHand, descriptorBin, channel, held, answers>>
  BY DEF RegisterSet, build, stream
<1>2. channel = <<>> /\ held = <<>> /\ answers = <<>>
  BY <1>1 DEF IndexInv, NoneBefore
<1>3. FromIndex' /\ NoneBefore'
  BY <1>1, <1>2, NothingAnswered DEF FromIndex, NoneBefore
<1>4. CASE UNCHANGED <<registered, serviceNames, symbols, files>>
  <2>1. IndexTypes'
    BY <1>1, <1>4 DEF IndexInv, IndexTypes
  <2>2. FullyNamed'
    BY <1>1, <1>4 DEF IndexInv, FullyNamed
  <2> QED
    BY <1>3, <1>4, <2>1, <2>2 DEF IndexInv
<1>5. CASE ~UNCHANGED <<registered, serviceNames, symbols, files>>
  <2> DEFINE state == [names |-> serviceNames, symbols |-> symbols, files |-> files]
  <2>1. PICK fds \in ForeignSets \cup {descriptorBin} :
            /\ fds # Corrupt /\ registered' = registered \o fds
            /\ serviceNames' = FoldLeft(RegisterFile, state, fds).names
            /\ symbols' = FoldLeft(RegisterFile, state, fds).symbols
            /\ files' = FoldLeft(RegisterFile, state, fds).files
    BY <1>5 DEF RegisterSet
  <2>2. fds \in Seq(Files)
    <3>1. CASE fds = descriptorBin
      BY <3>1 DEF IndexInv, IndexTypes
    <3>2. CASE fds \in ForeignSets
      <4>1. fds \in Seq(ToSet(fds)) /\ ToSet(fds) \subseteq Files
        BY <2>1, <3>2, FilesAssumption DEF Files
      <4> QED
        BY <4>1, Widen
    <3> QED
      BY <3>1, <3>2
  <2>3. /\ state.names = serviceNames /\ state.symbols = symbols /\ state.files = files
    OBVIOUS
  <2> DEFINE after == FoldLeft(RegisterFile, state, fds)
  <2> HIDE DEF state
  <2>4. Indexed(registered, byHand, state)
    BY <1>1, <2>3 DEF IndexInv, IndexTypes, FullyNamed, Indexed, NamesAre
  <2>5. Indexed(registered \o fds, byHand, after)
    BY <2>2, <2>4, SetRegistered
  <2> HIDE DEF after
  <2>6. /\ registered' = registered \o fds
        /\ serviceNames' = after.names /\ symbols' = after.symbols /\ files' = after.files
    BY <2>1 DEF after
  <2>7. /\ registered' \in Seq(Files)
        /\ SymbolsAre(registered', symbols') /\ FilesAre(registered', files')
        /\ NamesAre(registered', byHand, serviceNames')
    BY <2>5, <2>6 DEF Indexed
  <2>8. IndexTypes'
    BY <1>1, <2>7 DEF IndexInv, IndexTypes, NamesAre
  <2>9. FullyNamed'
    BY <1>1, <2>7 DEF FullyNamed, NamesAre
  <2> QED
    BY <1>3, <2>7, <2>8, <2>9 DEF IndexInv
<1> QED
  BY <1>4, <1>5

LEMMA NameAdded ==
    ASSUME NEW A, NEW names \in Seq(A), NEW added
    PROVE  /\ \E B : Append(names, added) \in Seq(B)
           /\ \A name : Count(Append(names, added), name) =
                            Count(names, name) + IF name = added THEN 1 ELSE 0
<1> DEFINE B == {added}
           one == << added >>
           C == A \cup B
<1>1. one \in Seq(B)
  OBVIOUS
<1>2. Append(names, added) = names \o one
  <2>1. names \in Seq(C) /\ added \in C
    <3>1. A \subseteq C
      OBVIOUS
    <3> HIDE DEF C
    <3>2. names \in Seq(C)
      BY <3>1, Widen
    <3> QED
      BY <3>2 DEF C
  <2> HIDE DEF C
  <2> QED
    BY <2>1
<1>3. \A name : Count(one, name) = IF name = added THEN 1 ELSE 0
  <2> TAKE name
  <2>1. Places(one, name) = IF name = added THEN {1} ELSE {}
    BY DEF Places
  <2>2. Cardinality({1}) = 1 /\ Cardinality({}) = 0
    BY FS_Singleton, FS_EmptySet
  <2> QED
    BY <2>1, <2>2 DEF Count
<1> HIDE DEF B, one, C
<1>4. names \o one \in Seq(A \cup B)
  BY <1>1, JoinIs
<1>5. \A name : Count(names \o one, name) = Count(names, name) + Count(one, name)
  BY <1>1, CountJoined
<1> QED
  BY <1>2, <1>3, <1>4, <1>5

LEMMA RegisterServiceIndex ==
    ASSUME IndexInv, RegisterService
    PROVE  IndexInv'
<1>1. /\ stage = "register" /\ stage' = stage
      /\ UNCHANGED <<registered, symbols, files, descriptorBin, channel, held, answers>>
  BY DEF RegisterService, build, stream
<1>2. channel = <<>> /\ held = <<>> /\ answers = <<>>
  BY <1>1 DEF IndexInv, NoneBefore
<1>3. FromIndex' /\ NoneBefore'
  BY <1>1, <1>2, NothingAnswered DEF FromIndex, NoneBefore
<1>4. PICK added : serviceNames' = Append(serviceNames, added) /\ byHand' = Append(byHand, added)
  BY DEF RegisterService
<1>5. PICK A, B : serviceNames \in Seq(A) /\ byHand \in Seq(B)
  BY DEF IndexInv, IndexTypes
<1>6. /\ \E C : serviceNames' \in Seq(C)
      /\ \E C : byHand' \in Seq(C)
  BY <1>4, <1>5, NameAdded
<1>7. IndexTypes'
  BY <1>1, <1>6 DEF IndexInv, IndexTypes
<1>8. FullyNamed'
  <2>1. ASSUME NEW name
        PROVE  Count(serviceNames', name) = Times(registered, byHand', name)
    <3> DEFINE a == Count(serviceNames, name)
               b == Count(byHand, name)
               c == Cardinality(Occurrences(registered, name))
               d == IF name = added THEN 1 ELSE 0
    <3>1. Count(serviceNames', name) = a + d
      BY <1>4, <1>5, NameAdded
    <3>2. Count(byHand', name) = b + d
      BY <1>4, <1>5, NameAdded
    <3>3. a = b + c
      BY <1>1 DEF IndexInv, FullyNamed, Times
    <3>4. a \in Nat /\ b \in Nat /\ c \in Nat /\ d \in Nat
      BY <1>5, PlacesFinite, FS_CardinalityType DEF IndexInv, FullyNamed
    <3>5. Times(registered, byHand', name) = (b + d) + c
      BY <3>2 DEF Times
    <3> HIDE DEF a, b, c, d
    <3> QED
      BY <3>1, <3>3, <3>4, <3>5
  <2>2. \A name : IsFiniteSet(Occurrences(registered, name))
    BY DEF IndexInv, FullyNamed
  <2> QED
    BY <1>1, <2>1, <2>2 DEF FullyNamed
<1>9. SymbolsAre(registered', symbols') /\ FilesAre(registered', files')
  BY <1>1 DEF IndexInv
<1> QED
  BY <1>3, <1>7, <1>8, <1>9 DEF IndexInv

LEMMA BuildIndex ==
    ASSUME IndexInv, Build
    PROVE  IndexInv'
<1>1. /\ stage = "register" /\ stage' = "serve"
      /\ UNCHANGED <<registered, byHand, symbols, files, descriptorBin, channel, held, answers>>
  BY DEF Build, build, stream
<1>2. channel = <<>> /\ held = <<>> /\ answers = <<>>
  BY <1>1 DEF IndexInv, NoneBefore
<1>3. FromIndex' /\ NoneBefore'
  BY <1>1, <1>2, NothingAnswered DEF FromIndex, NoneBefore
<1>4. PICK A : serviceNames \in Seq(A)
  BY DEF IndexInv, IndexTypes
<1>5. \A name : /\ IsFiniteSet(Occurrences(registered, name))
                /\ Count(serviceNames, name) = Times(registered, byHand, name)
  BY <1>1 DEF IndexInv, FullyNamed
<1>6. Name \notin ToSet(serviceNames) <=> Times(registered, byHand, Name) = 0
  BY <1>4, <1>5, PlacesFinite
<1>7. (\E B : serviceNames' \in Seq(B)) /\ FullyNamed'
  <2>1. CASE Name \in ToSet(serviceNames)
    <3>1. serviceNames' = serviceNames
      BY <2>1 DEF Build
    <3> QED
      BY <1>1, <1>4, <1>5, <1>6, <2>1, <3>1 DEF FullyNamed
  <2>2. CASE Name \notin ToSet(serviceNames)
    <3>1. serviceNames' = Append(serviceNames, Name)
      BY <2>2 DEF Build
    <3>2. /\ \E B : serviceNames' \in Seq(B)
          /\ \A name : Count(serviceNames', name) =
                           Count(serviceNames, name) + IF name = Name THEN 1 ELSE 0
      <4> DEFINE more == Append(serviceNames, Name)
      <4>1. /\ \E B : more \in Seq(B)
            /\ \A name : Count(more, name) =
                             Count(serviceNames, name) + IF name = Name THEN 1 ELSE 0
        BY <1>4, NameAdded
      <4> HIDE DEF more
      <4>2. serviceNames' = more
        BY <3>1 DEF more
      <4> QED
        BY <4>1, <4>2
    <3>3. \A name : Count(serviceNames, name) \in Nat
      BY <1>4, PlacesFinite
    <3>4. ASSUME NEW name
          PROVE  Count(serviceNames', name) =
                     IF name = Name /\ Times(registered, byHand, name) = 0 THEN 1
                     ELSE Times(registered, byHand, name)
      <4>1. CASE name = Name
        BY <1>5, <1>6, <2>2, <3>2, <4>1
      <4>2. CASE name # Name
        BY <1>5, <3>2, <3>3, <4>2
      <4> QED
        BY <4>1, <4>2
    <3> QED
      BY <1>1, <1>5, <3>2, <3>4 DEF FullyNamed
  <2> QED
    BY <2>1, <2>2
<1>8. IndexTypes'
  BY <1>1, <1>7 DEF IndexInv, IndexTypes
<1>9. SymbolsAre(registered', symbols') /\ FilesAre(registered', files')
  BY <1>1 DEF IndexInv
<1> QED
  BY <1>3, <1>7, <1>8, <1>9 DEF IndexInv

LEMMA AnsweredJoined ==
    ASSUME NEW S, NEW a \in Seq(S), NEW b \in Seq(S), NEW n, NEW f, NEW g,
           Answered(a, n, f, g), Answered(b, n, f, g)
    PROVE  Answered(a \o b, n, f, g)
<1> DEFINE c == a \o b
<1>1. /\ Len(a) \in Nat /\ Len(b) \in Nat
      /\ DOMAIN a = 1..Len(a) /\ DOMAIN b = 1..Len(b) /\ DOMAIN c = 1..Len(a) + Len(b)
      /\ \A k \in 1..Len(a) : c[k] = a[k]
      /\ \A k \in 1..Len(b) : c[Len(a) + k] = b[k]
  BY JoinIs
<1> HIDE DEF c
<1>2. ASSUME NEW i \in DOMAIN c PROVE c[i].response = Answer(c[i].original, n, f, g)
  <2>1. i \in 1..Len(a) + Len(b)
    BY <1>1
  <2>2. CASE i \in 1..Len(a)
    BY <1>1, <2>2 DEF Answered
  <2>3. CASE i \notin 1..Len(a)
    <3> DEFINE k == i - Len(a)
    <3>1. k \in 1..Len(b) /\ i = Len(a) + k
      BY <1>1, <2>1, <2>3
    <3> HIDE DEF k
    <3> QED
      BY <1>1, <3>1 DEF Answered
  <2> QED
    BY <2>2, <2>3
<1> QED
  BY <1>2 DEF Answered, c

LEMMA StreamIndex ==
    ASSUME IndexInv, IInv,
           Ask \/ CloseSide \/ Leave \/ Task \/ Receive \/ Finish
    PROVE  IndexInv'
<1> DEFINE n == serviceNames
           f == symbols
           g == files
<1>1. /\ stage = "serve" /\ stage' = "serve"
      /\ UNCHANGED <<registered, byHand, serviceNames, symbols, files, descriptorBin>>
  BY DEF Ask, CloseSide, Leave, Task, ReadRequest, StopReading, SendAnswer, SendFails, Receive,
         Finish, build, index
<1>2. IndexTypes' /\ NoneBefore'
  BY <1>1 DEF IndexInv, IndexTypes, NoneBefore
<1>3. FullyNamed'
  BY <1>1 DEF IndexInv, FullyNamed
<1>4. SymbolsAre(registered', symbols') /\ FilesAre(registered', files')
  BY <1>1 DEF IndexInv
<1>5. Answered(answers, n, f, g) /\ Answered(channel, n, f, g) /\ Answered(held, n, f, g)
  BY DEF IndexInv, FromIndex
<1>6. n' = n /\ f' = f /\ g' = g
  BY <1>1
<1>7. PICK S : answers \in Seq(S) /\ channel \in Seq(S) /\ held \in Seq(S)
  BY DEF IInv, StreamTypes
<1> HIDE DEF n, f, g
<1>8. Answered(answers', n, f, g) /\ Answered(channel', n, f, g) /\ Answered(held', n, f, g)
  <2>1. CASE Ask \/ CloseSide \/ StopReading \/ SendFails \/ Finish
    <3>1. answers' = answers /\ channel' = channel /\ held' = held
      BY <2>1 DEF Ask, CloseSide, StopReading, SendFails, Finish
    <3> QED
      BY <1>5, <3>1
  <2>2. CASE Leave
    <3>1. answers' = answers /\ channel' = <<>> /\ held' = held
      BY <2>2 DEF Leave
    <3> QED
      BY <1>5, <3>1, NothingAnswered
  <2>3. CASE ReadRequest
    <3> DEFINE q == Head(wire)
               a == [original |-> q, response |-> Response(q)]
    <3>1. answers' = answers /\ channel' = channel /\ held' = <<a>>
      BY <2>3 DEF ReadRequest
    <3>2. Response(q) = Answer(q, n, f, g)
      BY DEF Response, Answer, n, f, g
    <3>3. a.original = q /\ a.response = Answer(q, n, f, g)
      BY <3>2
    <3> HIDE DEF a, q
    <3>4. Answered(<<a>>, n, f, g)
      BY <3>3 DEF Answered
    <3> QED
      BY <1>5, <3>1, <3>4
  <2>4. CASE SendAnswer
    <3>1. answers' = answers /\ channel' = channel \o held /\ held' = <<>>
      BY <2>4 DEF SendAnswer
    <3>2. Answered(channel \o held, n, f, g)
      BY <1>5, <1>7, AnsweredJoined
    <3> QED
      BY <1>5, <3>1, <3>2, NothingAnswered
  <2>5. CASE Receive
    <3> DEFINE a == Head(channel)
               t == Tail(channel)
    <3>1. /\ answers' = Append(answers, a) /\ channel' = t /\ held' = held
          /\ channel # <<>>
      BY <2>5 DEF Receive
    <3>2. /\ 1 \in DOMAIN channel /\ a = channel[1] /\ a \in S
          /\ \A i \in DOMAIN t : i + 1 \in DOMAIN channel /\ t[i] = channel[i + 1]
      BY <1>7, <3>1
    <3>3. Append(answers, a) = answers \o << a >>
      BY <1>7, <3>2
    <3> HIDE DEF a, t
    <3>4. Answered(t, n, f, g)
      BY <1>5, <3>2 DEF Answered
    <3>5. a.response = Answer(a.original, n, f, g)
      BY <1>5, <3>2 DEF Answered
    <3>6. Answered(<< a >>, n, f, g) /\ << a >> \in Seq(S)
      BY <3>2, <3>5 DEF Answered
    <3>7. Answered(answers \o << a >>, n, f, g)
      BY <1>5, <1>7, <3>6, AnsweredJoined
    <3> QED
      BY <1>5, <3>1, <3>3, <3>4, <3>7
  <2> QED
    BY <2>1, <2>2, <2>3, <2>4, <2>5 DEF Task
<1>9. FromIndex'
  BY <1>6, <1>8 DEF FromIndex, n, f, g
<1> QED
  BY <1>2, <1>3, <1>4, <1>9 DEF IndexInv

LEMMA IndexStays ==
    ASSUME IndexInv, UNCHANGED vars
    PROVE  IndexInv'
<1>1. UNCHANGED <<stage, descriptorBin, registered, byHand, serviceNames, symbols, files,
                  answers, channel, held>>
  BY DEF vars, build, index, stream
<1>2. IndexTypes' /\ NoneBefore'
  BY <1>1 DEF IndexInv, IndexTypes, NoneBefore
<1>3. FullyNamed' /\ FromIndex'
  BY <1>1 DEF IndexInv, FullyNamed, FromIndex
<1>4. SymbolsAre(registered', symbols') /\ FilesAre(registered', files')
  BY <1>1 DEF IndexInv
<1> QED
  BY <1>2, <1>3, <1>4 DEF IndexInv

LEMMA NextIndex ==
    ASSUME IndexInv, IInv, [Next]_vars
    PROVE  IndexInv'
BY CompileIndex, RegisterSetIndex, RegisterServiceIndex, BuildIndex, StreamIndex, IndexStays
   DEF Next

LEMMA Resolves ==
    ASSUME IndexInv
    PROVE  SymbolsResolve
<1> SUFFICES ASSUME NEW i \in DOMAIN answers, NEW q, NEW r, NEW fits,
                    q = answers[i].original, r = answers[i].response,
                    q.kind \in {"symbol", "file"},
                    fits = IF q.kind = "symbol"
                           THEN { f \in ToSet(registered) : Defines(f, q.name) }
                           ELSE { f \in ToSet(registered) : f.name = q.name }
             PROVE  IF fits = {} THEN r = [code |-> 5] ELSE "file" \in DOMAIN r /\ r.file \in fits
  BY DEF SymbolsResolve
<1>1. r = Answer(q, serviceNames, symbols, files)
  BY DEF IndexInv, FromIndex, Answered
<1>2. SymbolsAre(registered, symbols) /\ FilesAre(registered, files)
  BY DEF IndexInv
<1>3. \A map, key : /\ key \in DOMAIN map => /\ "file" \in DOMAIN Lookup(map, key)
                                            /\ Lookup(map, key).file = map[key]
                    /\ key \notin DOMAIN map => Lookup(map, key) = [code |-> 5]
  BY DEF Lookup
<1>4. CASE q.kind = "symbol"
  <2>1. r = Lookup(symbols, q.name)
    BY <1>1, <1>4 DEF Answer
  <2>2. fits = {} <=> q.name \notin DOMAIN symbols
    BY <1>2, <1>4 DEF SymbolsAre
  <2>3. q.name \in DOMAIN symbols => symbols[q.name] \in fits
    BY <1>2, <1>4 DEF SymbolsAre
  <2> QED
    BY <1>3, <2>1, <2>2, <2>3
<1>5. CASE q.kind = "file"
  <2>1. r = Lookup(files, q.name)
    BY <1>1, <1>5 DEF Answer
  <2>2. fits = {} <=> q.name \notin DOMAIN files
    BY <1>2, <1>5 DEF FilesAre
  <2>3. q.name \in DOMAIN files => files[q.name] \in fits
    BY <1>2, <1>5 DEF FilesAre
  <2> QED
    BY <1>3, <2>1, <2>2, <2>3
<1> QED
  BY <1>4, <1>5

LEMMA Lists ==
    ASSUME IndexInv
    PROVE  ListIsComplete
<1> SUFFICES ASSUME NEW i \in DOMAIN answers, answers[i].original.kind = "list", NEW name
             PROVE  Count(answers[i].response.services, name) =
                        IF name = Name /\ Times(registered, byHand, name) = 0 THEN 1
                        ELSE Times(registered, byHand, name)
  BY DEF ListIsComplete, Times
<1> DEFINE q == answers[i].original
<1>1. answers[i].response = Answer(q, serviceNames, symbols, files)
  BY DEF IndexInv, FromIndex, Answered
<1>2. q.kind = "list"
  OBVIOUS
<1> HIDE DEF q
<1>3. Answer(q, serviceNames, symbols, files) = [services |-> serviceNames]
  BY <1>2 DEF Answer
<1>4. answers[i].response.services = serviceNames
  BY <1>1, <1>3
<1>5. stage = "serve"
  BY DEF IndexInv, NoneBefore
<1> QED
  BY <1>4, <1>5 DEF IndexInv, FullyNamed

(* The index: what clients are told of symbols, files and services is what *)
(* was registered, whatever files there are and however they come in       *)
(* (ReflectionServer::build, register_encoded_file_descriptor_set and      *)
(* handle_reflection_request).                                             *)
THEOREM IndexAnswers == Spec => []IndexIsComplete
<1>1. Init => IndexInv
  BY EmptyIndex
<1>2. IInv /\ IndexInv /\ [Next]_vars => IndexInv'
  BY NextIndex
<1>3. IndexInv => IndexIsComplete
  BY Resolves, Lists DEF IndexIsComplete
<1> QED
  BY <1>1, <1>2, <1>3, InvariantHolds, PTL DEF Spec
-----------------------------------------------------------------------------
(* The modules of the last set compiled have its stubs.                    *)
StubsAre(fds) ==
    fds # <<>> => \A package \in ModulesWritten(fds) : outDir[package] = ServicesIn(fds)

BuiltInv == StubsAre(descriptorBin)

LEMMA NothingBuilt ==
    Init => BuiltInv
BY DEF Init, BuiltInv, StubsAre

LEMMA NextBuilt ==
    ASSUME BuiltInv, [Next]_vars
    PROVE  BuiltInv'
<1>1. CASE UNCHANGED <<outDir, descriptorBin>>
  BY <1>1 DEF BuiltInv, StubsAre
<1>2. CASE ~UNCHANGED <<outDir, descriptorBin>>
  <2>1. CompileProto /\ ~UNCHANGED build
    BY <1>2 DEF Next, vars, build, CompileProto, CompileDone, RegisterSet, RegisterService, Build,
                Ask, CloseSide, Leave, Task, ReadRequest, StopReading, SendAnswer, SendFails,
                Receive, Finish
  <2>2. PICK fds : /\ outDir' = Inserted(outDir, ModulesWritten(fds), ServicesIn(fds))
                   /\ descriptorBin' = fds
    BY <2>1 DEF CompileProto, WriteDescriptors
  <2> DEFINE modules == ModulesWritten(fds)
             services == ServicesIn(fds)
  <2>3. outDir' = Inserted(outDir, modules, services)
    BY <2>2
  <2> HIDE DEF modules, services
  <2>4. \A package \in modules : outDir'[package] = services
    BY <2>3 DEF Inserted
  <2> QED
    BY <2>2, <2>4 DEF BuiltInv, StubsAre, modules, services
<1> QED
  BY <1>1, <1>2

LEMMA ServicesHaveSymbols ==
    ASSUME NEW fds, NEW map, SymbolsAre(fds, map), NEW some, ToSet(some) \subseteq ToSet(fds)
    PROVE  ServicesIn(some) \subseteq DOMAIN map
<1> SUFFICES ASSUME NEW symbol \in ServicesIn(some)
             PROVE  symbol \in DOMAIN map
  OBVIOUS
<1>1. PICK f \in ToSet(some) : symbol \in { f.package \o s.name : s \in ToSet(f.services) }
  BY DEF ServicesIn
<1>2. Defines(f, symbol)
  BY <1>1 DEF Defines
<1> QED
  BY <1>1, <1>2 DEF SymbolsAre

(* Whatever protos a build script compiles, a server that registers the    *)
(* last set written to descriptor.bin reflects all services that the       *)
(* modules of this set have stubs for (compile_protos of grpc-build and    *)
(* register_encoded_file_descriptor_set).                                  *)
THEOREM BuiltIsReflected == Spec => []ModulesReflected
<1>1. Init => IndexInv /\ BuiltInv
  BY EmptyIndex, NothingBuilt
<1>2. IInv /\ IndexInv /\ BuiltInv /\ [Next]_vars => IndexInv' /\ BuiltInv'
  BY NextIndex, NextBuilt
<1>3. IndexInv /\ BuiltInv => ModulesReflected
  <2> SUFFICES ASSUME IndexInv, BuiltInv, descriptorBin # <<>>,
                      ToSet(descriptorBin) \subseteq ToSet(registered),
                      NEW package \in ModulesWritten(descriptorBin)
               PROVE  outDir[package] \subseteq DOMAIN symbols
    BY DEF ModulesReflected
  <2>1. outDir[package] = ServicesIn(descriptorBin)
    BY DEF BuiltInv, StubsAre
  <2>2. ServicesIn(descriptorBin) \subseteq DOMAIN symbols
    BY ServicesHaveSymbols DEF IndexInv
  <2> QED
    BY <2>1, <2>2
<1> QED
  BY <1>1, <1>2, <1>3, InvariantHolds, PTL DEF Spec
=============================================================================
