---------------------------- MODULE Logger_proofs ----------------------------
(***************************************************************************)
(* Lines come out whole and in order, for any threads, statements, and     *)
(* sizes of the buffer, and a number of any size is written as what it is. *)
(* The recursive functions of Logger are unfolded first: Induction is over *)
(* the set of the numbers that have a property.                            *)
(***************************************************************************)
EXTENDS Logger, FixedBuffer_proofs, WellFoundedInduction, NaturalsInduction, TLAPS

\* A set with 0 and, with a number, the next one has all numbers: one that it
\* has not would have a least like it.
LEMMA Induction ==
    ASSUME NEW S, 0 \in S, \A n \in Nat : n \in S => n + 1 \in S
    PROVE  Nat \subseteq S
<1> DEFINE T == Nat \ S
           R == {ss \in Nat \X Nat : ss[1] < ss[2]}
<1> SUFFICES ASSUME T # {} PROVE FALSE
    OBVIOUS
<1>1. IsWellFoundedOn(R, Nat)
    BY NatLessThanWellFounded DEF OpToRel
<1>2. \A x \in Nat, y \in Nat : <<y, x>> \notin R => ~(y < x)
    OBVIOUS
<1>3. T \subseteq Nat
    OBVIOUS
<1> HIDE DEF T, R
<1>4. PICK m \in T : \A y \in T : <<y, m>> \notin R
    BY <1>1, <1>3, WFMin
<1>5. \A y \in T : ~(y < m)
    BY <1>2, <1>3, <1>4
<1> USE DEF T
<1>6. m \in Nat /\ m \notin S /\ m # 0
    BY <1>4
<1>7. m - 1 \in Nat /\ m - 1 < m /\ (m - 1) + 1 = m
    BY <1>6
<1>8. m - 1 \in S
    BY <1>5, <1>7
<1> QED
    BY <1>6, <1>7, <1>8

Alike(f, g, N) == \A n \in 0 .. N : f[n] = g[n]

GoAlike(f, g, N) ==
    f[0] = g[0] /\ \A n \in 1 .. N : f[n - 1] = g[n - 1] => f[n] = g[n]

\* Two functions that begin alike and go on alike are alike.
LEMMA Agree ==
    ASSUME NEW N \in Nat, NEW f, NEW g, GoAlike(f, g, N)
    PROVE  Alike(f, g, N)
<1> USE DEF Alike, GoAlike
<1> DEFINE S == {n \in Nat : n <= N => f[n] = g[n]}
<1>1. 0 \in S
    OBVIOUS
<1>2. ASSUME NEW n \in Nat, n \in S PROVE n + 1 \in S
    <2>1. CASE n + 1 <= N
        <3>1. n + 1 \in 1 .. N /\ (n + 1) - 1 = n /\ f[n] = g[n]
            BY <1>2, <2>1
        <3>2. f[n + 1] = g[n + 1]
            BY <3>1
        <3> QED
            BY <3>2
    <2> QED
        BY <2>1
<1> HIDE DEF S
<1>3. Nat \subseteq S
    BY <1>1, <1>2, Induction
<1> QED
    BY <1>3 DEF S

Steps(G, N, X) == G \in [1 .. N -> [X -> X]]

Goes(f, x, G, N) == f[0] = x /\ \A n \in 1 .. N : f[n] = G[n][f[n - 1]]

\* There is a function that begins with x and goes on by G.
LEMMA Recursion ==
    ASSUME NEW X, NEW x \in X, NEW N \in Nat, NEW G, Steps(G, N, X)
    PROVE  \E f : f \in [0 .. N -> X] /\ Goes(f, x, G, N)
<1> USE DEF Steps, Goes
<1> DEFINE To(f, m) == f \in [0 .. m -> X] /\ Goes(f, x, G, m)
           S == {m \in Nat : m <= N => \E f : To(f, m)}
<1>1. 0 \in S
    <2>1. To([n \in 0 .. 0 |-> x], 0)
        OBVIOUS
    <2> QED
        BY <2>1
<1>2. ASSUME NEW m \in Nat, m \in S PROVE m + 1 \in S
    <2> SUFFICES ASSUME m + 1 <= N PROVE \E f : To(f, m + 1)
        OBVIOUS
    <2>1. PICK f : To(f, m)
        BY <1>2
    <2> DEFINE g == [n \in 0 .. (m + 1) |-> IF n = m + 1 THEN G[n][f[m]] ELSE f[n]]
    <2>2. m \in 0 .. m /\ m + 1 \in 1 .. N /\ f[m] \in X /\ G[m + 1] \in [X -> X]
        BY <2>1
    <2>3. G[m + 1][f[m]] \in X
        BY <2>2
    <2>4. g \in [0 .. (m + 1) -> X] /\ g[0] = x
        BY <2>1, <2>3
    <2>5. ASSUME NEW n \in 1 .. (m + 1) PROVE g[n] = G[n][g[n - 1]]
        <3>1. n - 1 \in 0 .. m /\ g[n - 1] = f[n - 1]
            OBVIOUS
        <3>2. CASE n = m + 1
            BY <3>1, <3>2
        <3>3. CASE n # m + 1
            BY <2>1, <3>1, <3>3
        <3> QED
            BY <3>2, <3>3
    <2> QED
        BY <2>4, <2>5
<1> HIDE DEF S
<1>3. Nat \subseteq S
    BY <1>1, <1>2, Induction
<1> QED
    BY <1>3 DEF S


-----------------------------------------------------------------------------
(* Sequences that are put together piece by piece.                         *)

\* The way of FlattenSeq from piece to piece.
Flattening(f, ss, N, C) ==
    /\ f \in [0 .. N -> Seq(C)]
    /\ f[0] = <<>>
    /\ \A n \in 1 .. N : f[n] = f[n - 1] \o ss[n]
    /\ FlattenSeq(ss) = f[N]

\* There is such a way.
LEMMA FlattenGoes ==
    ASSUME NEW C, NEW ss \in Seq(Seq(C)), NEW N, N = Len(ss)
    PROVE  \E f : Flattening(f, ss, N, C)
<1> USE DEF Flattening
<1> DEFINE G == [n \in 1 .. N |-> [s \in Seq(C) |-> s \o ss[n]]]
           Unfolds(h) == h = [i \in 1 .. N |-> IF i = 1 THEN ss[i] ELSE h[i - 1] \o ss[i]]
<1>1. N \in Nat /\ <<>> \in Seq(C) /\ \A n \in 1 .. N : ss[n] \in Seq(C)
    OBVIOUS
<1>2. Steps(G, N, Seq(C))
    BY <1>1 DEF Steps
<1>3. \A n \in 1 .. N, s \in Seq(C) : G[n][s] = s \o ss[n]
    OBVIOUS
<1> HIDE DEF G
<1>A. PICK f : f \in [0 .. N -> Seq(C)] /\ Goes(f, <<>>, G, N)
    BY <1>1, <1>2, Recursion
<1>4. /\ f \in [0 .. N -> Seq(C)] /\ f[0] = <<>>
      /\ \A n \in 1 .. N : f[n] = G[n][f[n - 1]]
    BY <1>A DEF Goes
<1>5. ASSUME NEW n \in 1 .. N
      PROVE  n - 1 \in 0 .. N /\ f[n - 1] \in Seq(C) /\ f[n] = f[n - 1] \o ss[n]
    <2>1. n - 1 \in 0 .. N
        BY <1>1
    <2> QED
        BY <1>3, <1>4, <2>1
<1>6. N # 0 => 1 \in 1 .. N /\ f[1] = ss[1]
    <2> SUFFICES ASSUME N # 0 PROVE 1 \in 1 .. N /\ f[1] = ss[1]
        OBVIOUS
    <2>1. 1 \in 1 .. N /\ 1 - 1 = 0
        BY <1>1
    <2>2. f[1] = <<>> \o ss[1] /\ ss[1] \in Seq(C)
        BY <1>1, <1>4, <1>5, <2>1
    <2> QED
        BY <2>1, <2>2
<1>7. CASE ss = <<>>
    <2>1. N = 0 /\ FlattenSeq(ss) = <<>>
        BY <1>7 DEF FlattenSeq
    <2>2. \A n \in 1 .. N : FALSE
        BY <2>1
    <2> QED
        BY <1>4, <2>1, <2>2
<1>8. CASE ss # <<>>
    <2> DEFINE g == [i \in 1 .. N |-> f[i]]
               h == CHOOSE e : Unfolds(e)
    <2>1. N # 0
        BY <1>1, <1>8
    <2>2. Unfolds(g)
        <3> SUFFICES ASSUME NEW i \in 1 .. N
                     PROVE  g[i] = IF i = 1 THEN ss[i] ELSE g[i - 1] \o ss[i]
            BY Zenon
        <3>1. CASE i = 1
            BY <1>6, <2>1, <3>1
        <3>2. CASE i # 1
            <4>1. i - 1 \in 1 .. N
                BY <1>1, <3>2
            <4> QED
                BY <1>5, <3>2, <4>1
        <3> QED
            BY <3>1, <3>2
    <2>3. Unfolds(h)
        BY <2>2, Zenon
    <2>4. FlattenSeq(ss) = h[N]
        BY <2>1 DEF FlattenSeq
    <2> HIDE DEF h
    <2>5. ASSUME NEW i \in 1 .. N PROVE h[i] = IF i = 1 THEN ss[i] ELSE h[i - 1] \o ss[i]
        BY <2>3
    <2> DEFINE e == [i \in 0 .. N |-> IF i = 0 THEN <<>> ELSE h[i]]
    <2>6. e[0] = f[0] /\ e[N] = h[N] /\ \A n \in 1 .. N : e[n] = h[n]
        BY <1>1, <1>4, <2>1
    <2> HIDE DEF e
    <2>7. ASSUME NEW n \in 1 .. N, e[n - 1] = f[n - 1] PROVE e[n] = f[n]
        <3>1. CASE n = 1
            BY <1>6, <2>1, <2>5, <2>6, <3>1
        <3>2. CASE n # 1
            <4>1. n - 1 \in 1 .. N
                BY <1>1, <3>2
            <4>2. h[n - 1] = f[n - 1]
                BY <2>6, <2>7, <4>1
            <4>3. h[n] = h[n - 1] \o ss[n] /\ f[n] = f[n - 1] \o ss[n]
                BY <1>5, <2>5, <3>2
            <4> QED
                BY <2>6, <4>2, <4>3
        <3> QED
            BY <3>1, <3>2
    <2>8. GoAlike(e, f, N)
        BY <2>6, <2>7 DEF GoAlike
    <2>9. Alike(e, f, N)
        BY <1>1, <2>8, Agree
    <2>10. h[N] = f[N]
        BY <1>1, <2>6, <2>9 DEF Alike
    <2> QED
        BY <1>4, <1>5, <2>4, <2>10
<1> QED
    BY <1>7, <1>8

\* FlattenSeq, taken one piece further.
LEMMA FlattenLast ==
    ASSUME NEW C, NEW ss \in Seq(Seq(C)), NEW s \in Seq(C)
    PROVE  /\ FlattenSeq(ss) \in Seq(C)
           /\ FlattenSeq(Append(ss, s)) = FlattenSeq(ss) \o s
<1> DEFINE tt == Append(ss, s)
           N == Len(ss)
           M == N + 1
<1>1. /\ N \in Nat /\ M \in Nat
      /\ tt \in Seq(Seq(C)) /\ Len(tt) = M /\ tt[M] = s
      /\ \A n \in 1 .. N : tt[n] = ss[n] /\ n \in 1 .. M /\ n - 1 \in 0 .. N
      /\ M \in 1 .. M /\ M - 1 = N
    OBVIOUS
<1>2. N = Len(ss)
    OBVIOUS
<1> HIDE DEF tt, N, M
<1>3. PICK f : Flattening(f, ss, N, C)
    BY <1>2, FlattenGoes
<1>4. PICK g : Flattening(g, tt, M, C)
    BY <1>1, FlattenGoes
<1> USE DEF Flattening
<1>5. GoAlike(f, g, N)
    <2>1. f[0] = g[0]
        BY <1>3, <1>4
    <2>2. ASSUME NEW n \in 1 .. N, f[n - 1] = g[n - 1] PROVE f[n] = g[n]
        <3>1. f[n] = f[n - 1] \o ss[n]
            BY <1>3
        <3>2. n \in 1 .. M /\ tt[n] = ss[n]
            BY <1>1
        <3>3. g[n] = g[n - 1] \o ss[n]
            BY <1>4, <3>2
        <3> QED
            BY <2>2, <3>1, <3>3, Zenon
    <2> QED
        BY <2>1, <2>2, Zenon DEF GoAlike
<1>6. Alike(f, g, N)
    BY <1>1, <1>5, Agree
<1>7. N \in 0 .. N
    BY <1>1
<1>8. g[M] = f[N] \o s
    BY <1>1, <1>4, <1>6, <1>7 DEF Alike
<1> QED
    BY <1>3, <1>4, <1>7, <1>8 DEF tt

\* The way of Length from operand to operand.
Adding(f, parts, N) ==
    /\ f \in [0 .. N -> Nat]
    /\ f[0] = 0
    /\ \A n \in 1 .. N : f[n] = f[n - 1] + Len(Formatted(parts[n].op))
    /\ Length(parts) = f[N]

\* There is such a way.
LEMMA LengthGoes ==
    ASSUME NEW parts, NEW N \in Nat, N = Len(parts),
           \A n \in 1 .. N : Len(Formatted(parts[n].op)) \in Nat
    PROVE  \E f : Adding(f, parts, N)
<1> USE DEF Adding
<1> DEFINE L == [n \in 1 .. N |-> Len(Formatted(parts[n].op))]
           G == [n \in 1 .. N |-> [s \in Nat |-> s + L[n]]]
           Sums(h) == h = [n \in 0 .. N |->
                              IF n = 0 THEN 0 ELSE h[n - 1] + Len(Formatted(parts[n].op))]
<1>1. Steps(G, N, Nat) /\ 0 \in Nat
    BY DEF Steps
<1>2. \A n \in 1 .. N, s \in Nat : G[n][s] = s + L[n]
    OBVIOUS
<1> HIDE DEF G
<1>A. PICK f : f \in [0 .. N -> Nat] /\ Goes(f, 0, G, N)
    BY <1>1, Recursion
<1>3. f \in [0 .. N -> Nat] /\ f[0] = 0 /\ \A n \in 1 .. N : f[n] = G[n][f[n - 1]]
    BY <1>A DEF Goes
<1>4. \A n \in 1 .. N : n - 1 \in 0 .. N /\ n \in 0 .. N
    OBVIOUS
<1>5. ASSUME NEW n \in 1 .. N
      PROVE  f[n] = f[n - 1] + L[n] /\ L[n] = Len(Formatted(parts[n].op))
    BY <1>2, <1>3, <1>4
<1> DEFINE h == CHOOSE e : Sums(e)
<1>6. Sums(f)
    <2>1. ASSUME NEW n \in 0 .. N
          PROVE  f[n] = IF n = 0 THEN 0 ELSE f[n - 1] + Len(Formatted(parts[n].op))
        <3>1. n # 0 => n \in 1 .. N
            OBVIOUS
        <3> QED
            BY <1>3, <1>5, <3>1, Zenon
    <2> QED
        BY <1>3, <2>1
<1>7. Sums(h)
    BY <1>6, Zenon
<1>8. Length(parts) = h[N]
    BY DEF Length
<1> HIDE DEF h
<1>9. ASSUME NEW n \in 0 .. N
      PROVE  h[n] = IF n = 0 THEN 0 ELSE h[n - 1] + Len(Formatted(parts[n].op))
    BY <1>7, Zenon
<1>10. h[0] = f[0]
    BY <1>3, <1>9
<1>11. ASSUME NEW n \in 1 .. N, h[n - 1] = f[n - 1] PROVE h[n] = f[n]
    <2>1. h[n] = h[n - 1] + Len(Formatted(parts[n].op))
        BY <1>9
    <2> QED
        BY <1>5, <1>11, <2>1
<1>12. GoAlike(h, f, N)
    BY <1>10, <1>11 DEF GoAlike
<1>13. Alike(h, f, N)
    BY <1>12, Agree
<1>14. N \in 0 .. N /\ Length(parts) = f[N]
    BY <1>8, <1>13 DEF Alike
<1>15. \A n \in 1 .. N : f[n] = f[n - 1] + Len(Formatted(parts[n].op))
    BY <1>5
<1> QED
    BY <1>3, <1>14, <1>15

\* The length of one operand more.
LEMMA LengthLast ==
    ASSUME NEW P, NEW parts \in Seq(P), NEW p \in P,
           \A q \in P : Len(Formatted(q.op)) \in Nat
    PROVE  /\ Length(parts) \in Nat
           /\ Length(Append(parts, p)) = Length(parts) + Len(Formatted(p.op))
<1> DEFINE tt == Append(parts, p)
           N == Len(parts)
           M == N + 1
<1>1. /\ N \in Nat /\ M \in Nat
      /\ tt \in Seq(P) /\ Len(tt) = M /\ tt[M] = p
      /\ \A n \in 1 .. N : tt[n] = parts[n] /\ n \in 1 .. M /\ n - 1 \in 0 .. N
      /\ M \in 1 .. M /\ M - 1 = N
    OBVIOUS
<1>2. N = Len(parts)
    OBVIOUS
<1> HIDE DEF tt, N, M
<1>3. PICK f : Adding(f, parts, N)
    BY <1>1, <1>2, LengthGoes
<1>4. PICK g : Adding(g, tt, M)
    BY <1>1, LengthGoes
<1> USE DEF Adding
<1>5. GoAlike(f, g, N)
    <2>1. f[0] = g[0]
        BY <1>3, <1>4
    <2>2. ASSUME NEW n \in 1 .. N, f[n - 1] = g[n - 1] PROVE f[n] = g[n]
        <3>1. f[n] = f[n - 1] + Len(Formatted(parts[n].op))
            BY <1>3
        <3>2. n \in 1 .. M /\ tt[n] = parts[n]
            BY <1>1
        <3>3. g[n] = g[n - 1] + Len(Formatted(parts[n].op))
            BY <1>4, <3>2
        <3> QED
            BY <2>2, <3>1, <3>3, Zenon
    <2> QED
        BY <2>1, <2>2, Zenon DEF GoAlike
<1>6. Alike(f, g, N)
    BY <1>1, <1>5, Agree
<1>7. N \in 0 .. N
    BY <1>1
<1>8. g[M] = f[N] + Len(Formatted(p.op))
    BY <1>1, <1>4, <1>6, <1>7 DEF Alike
<1> QED
    BY <1>3, <1>4, <1>7, <1>8 DEF tt

\* The length of nothing.
LEMMA LengthNone == Length(<<>>) = 0
<1> DEFINE nothing == <<>>
<1>1. 0 = Len(nothing) /\ 0 \in Nat /\ \A n \in 1 .. 0 : FALSE
    OBVIOUS
<1> HIDE DEF nothing
<1>2. PICK f : Adding(f, nothing, 0)
    BY <1>1, LengthGoes
<1> QED
    BY <1>2 DEF nothing, Adding


-----------------------------------------------------------------------------
(* Digits and the numbers they make.                                       *)

\* What Digit makes of a digit.
LEMMA DigitOf ==
    ASSUME NEW k \in 0 .. 15
    PROVE  digitsHex[k + 1] \in DOMAIN Digit /\ Digit[digitsHex[k + 1]] = k
<1>1. /\ DOMAIN digitsHex = 1 .. 16 /\ Len(digitsHex) = 16
      /\ \A i, j \in 1 .. 16 : digitsHex[i] = digitsHex[j] => i = j
    BY DEF digitsHex
<1> DEFINE d == digitsHex[k + 1]
           I == {i \in 1 .. Len(digitsHex) : digitsHex[i] = d}
<1>2. I = {k + 1}
    BY <1>1
<1>3. Min(I) = k + 1
    <2>1. \A x : x \in I <=> x = k + 1
        BY <1>2
    <2> HIDE DEF I
    <2>2. \A x : (x \in I /\ \A y \in I : x <= y) => x = k + 1
        BY <2>1
    <2>3. k + 1 \in I /\ \A y \in I : k + 1 <= y
        BY <2>1
    <2> QED
        BY <2>2, <2>3 DEF Min
<1>4. SelectInSeq(digitsHex, LAMBDA e : e = d) = k + 1
    <2> HIDE DEF d
    <2> QED
        BY <1>2, <1>3 DEF SelectInSeq
<1>5. d \in Range(digitsHex)
    BY <1>1 DEF Range
<1>6. Digit[d] = SelectInSeq(digitsHex, LAMBDA e : e = d) - 1
    BY <1>5 DEF Digit
<1> QED
    BY <1>4, <1>5, <1>6 DEF Digit

Abs(i) == IF i < 0 THEN -i ELSE i

\* zero looks a digit up without its sign.
LEMMA ZeroOf ==
    ASSUME NEW r \in (-9) .. 9
    PROVE  zero(r) = digitsHex[Abs(r) + 1]
<1>1. CASE r \in 0 .. 9
    <2>1. Abs(r) = r
        BY <1>1 DEF Abs
    <2> QED
        BY <1>1, <2>1 DEF zero, digits, digitsHex
<1>2. CASE -r \in 1 .. 9
    <2>1. PICK n \in 1 .. 9 : n = -r
        BY <1>2
    <2>2. Abs(r) = n /\ r = -n
        BY <1>2, <2>1 DEF Abs
    <2> QED
        BY <2>2 DEF digitsHex, zero, digits
<1> QED
    BY <1>1, <1>2


\* A digit is one of the sixteen.
LEMMA DigitIs ==
    ASSUME NEW d \in DOMAIN Digit
    PROVE  Digit[d] \in 0 .. 15 /\ d = digitsHex[Digit[d] + 1]
<1>1. DOMAIN digitsHex = 1 .. 16
    BY DEF digitsHex
<1>2. PICK i \in 1 .. 16 : d = digitsHex[i]
    BY <1>1 DEF Digit, Range
<1>3. i - 1 \in 0 .. 15 /\ (i - 1) + 1 = i
    OBVIOUS
<1>4. Digit[digitsHex[(i - 1) + 1]] = i - 1
    BY <1>3, DigitOf
<1> QED
    BY <1>2, <1>3, <1>4

\* The way of Horner from digit to digit.
Scoring(f, base, s, N) ==
    /\ f \in [0 .. N -> Nat]
    /\ f[0] = 0
    /\ \A n \in 1 .. N : f[n] = base * f[n - 1] + Digit[s[n]]
    /\ Horner(base, s) = f[N]

\* There is such a way.
LEMMA HornerGoes ==
    ASSUME NEW base \in Nat, NEW s, NEW N \in Nat, N = Len(s),
           \A n \in 1 .. N : Digit[s[n]] \in Nat
    PROVE  \E f : Scoring(f, base, s, N)
<1> USE DEF Scoring
<1> DEFINE G == [n \in 1 .. N |-> [x \in Nat |-> base * x + Digit[s[n]]]]
           Scores(h) == h = [n \in 0 .. N |->
                                IF n = 0 THEN 0 ELSE base * h[n - 1] + Digit[s[n]]]
<1>1. Steps(G, N, Nat) /\ 0 \in Nat
    <2>1. ASSUME NEW n \in 1 .. N, NEW x \in Nat PROVE base * x + Digit[s[n]] \in Nat
        <3>1. base * x \in Nat /\ Digit[s[n]] \in Nat
            OBVIOUS
        <3> QED
            BY <3>1
    <2> QED
        BY <2>1, Zenon DEF Steps
<1>2. \A n \in 1 .. N, x \in Nat : G[n][x] = base * x + Digit[s[n]]
    OBVIOUS
<1> HIDE DEF G
<1>3. PICK f : f \in [0 .. N -> Nat] /\ Goes(f, 0, G, N)
    BY <1>1, Recursion
<1>4. f \in [0 .. N -> Nat] /\ f[0] = 0 /\ \A n \in 1 .. N : f[n] = G[n][f[n - 1]]
    BY <1>3 DEF Goes
<1>5. \A n \in 1 .. N : n - 1 \in 0 .. N /\ n \in 0 .. N
    OBVIOUS
<1>6. ASSUME NEW n \in 1 .. N PROVE f[n] = base * f[n - 1] + Digit[s[n]]
    BY <1>2, <1>4, <1>5
<1> DEFINE h == CHOOSE e : Scores(e)
<1>7. Scores(f)
    <2>1. ASSUME NEW n \in 0 .. N
          PROVE  f[n] = IF n = 0 THEN 0 ELSE base * f[n - 1] + Digit[s[n]]
        <3>1. n # 0 => n \in 1 .. N
            OBVIOUS
        <3> QED
            BY <1>4, <1>6, <3>1, Zenon
    <2> QED
        BY <1>4, <2>1
<1>8. Scores(h)
    BY <1>7, Zenon
<1>9. Horner(base, s) = h[N]
    BY DEF Horner
<1> HIDE DEF h
<1>10. ASSUME NEW n \in 0 .. N
       PROVE  h[n] = IF n = 0 THEN 0 ELSE base * h[n - 1] + Digit[s[n]]
    BY <1>8, Zenon
<1>11. h[0] = f[0]
    BY <1>4, <1>10
<1>12. ASSUME NEW n \in 1 .. N, h[n - 1] = f[n - 1] PROVE h[n] = f[n]
    <2>1. h[n] = base * h[n - 1] + Digit[s[n]]
        BY <1>10
    <2> QED
        BY <1>6, <1>12, <2>1
<1>13. GoAlike(h, f, N)
    BY <1>11, <1>12 DEF GoAlike
<1>14. Alike(h, f, N)
    BY <1>13, Agree
<1>15. N \in 0 .. N /\ Horner(base, s) = f[N]
    BY <1>9, <1>14 DEF Alike
<1>16. \A n \in 1 .. N : f[n] = base * f[n - 1] + Digit[s[n]]
    BY <1>6
<1> QED
    BY <1>4, <1>15, <1>16

\* The number of a text with one digit more, and of one digit.
LEMMA HornerLast ==
    ASSUME NEW base \in Nat, NEW s \in Seq(DOMAIN Digit), NEW d \in DOMAIN Digit
    PROVE  /\ Horner(base, s) \in Nat
           /\ Horner(base, Append(s, d)) = base * Horner(base, s) + Digit[d]
<1> DEFINE tt == Append(s, d)
           N == Len(s)
           M == N + 1
<1>1. /\ N \in Nat /\ M \in Nat
      /\ tt \in Seq(DOMAIN Digit) /\ Len(tt) = M /\ tt[M] = d
      /\ \A n \in 1 .. N : tt[n] = s[n] /\ n \in 1 .. M /\ n - 1 \in 0 .. N
      /\ \A n \in 1 .. N : s[n] \in DOMAIN Digit
      /\ \A n \in 1 .. M : tt[n] \in DOMAIN Digit
      /\ M \in 1 .. M /\ M - 1 = N
    OBVIOUS
<1>2. N = Len(s)
    OBVIOUS
<1> HIDE DEF tt, N, M
<1>3. \A e \in DOMAIN Digit : Digit[e] \in Nat
    BY DigitIs
<1>4. PICK f : Scoring(f, base, s, N)
    BY <1>1, <1>2, <1>3, HornerGoes
<1>5. PICK g : Scoring(g, base, tt, M)
    BY <1>1, <1>3, HornerGoes
<1> USE DEF Scoring
<1>6. GoAlike(f, g, N)
    <2>1. f[0] = g[0]
        BY <1>4, <1>5
    <2>2. ASSUME NEW n \in 1 .. N, f[n - 1] = g[n - 1] PROVE f[n] = g[n]
        <3>1. f[n] = base * f[n - 1] + Digit[s[n]]
            BY <1>4
        <3>2. n \in 1 .. M /\ tt[n] = s[n]
            BY <1>1
        <3>3. g[n] = base * g[n - 1] + Digit[s[n]]
            BY <1>5, <3>2
        <3> QED
            BY <2>2, <3>1, <3>3, Zenon
    <2> QED
        BY <2>1, <2>2, Zenon DEF GoAlike
<1>7. Alike(f, g, N)
    BY <1>1, <1>6, Agree
<1>8. N \in 0 .. N
    BY <1>1
<1>9. g[M] = base * f[N] + Digit[d]
    BY <1>1, <1>5, <1>7, <1>8 DEF Alike
<1> QED
    BY <1>4, <1>5, <1>8, <1>9 DEF tt

\* The number of nothing.
LEMMA HornerNone ==
    ASSUME NEW base \in Nat
    PROVE  Horner(base, <<>>) = 0
<1> DEFINE nothing == <<>>
<1>1. 0 = Len(nothing) /\ 0 \in Nat /\ \A n \in 1 .. 0 : FALSE
    OBVIOUS
<1> HIDE DEF nothing
<1>2. PICK f : Scoring(f, base, nothing, 0)
    BY <1>1, HornerGoes
<1> QED
    BY <1>2 DEF nothing, Scoring

\* Reversed, the first is the last.
LEMMA ReverseFirst ==
    ASSUME NEW C, NEW d \in C, NEW s \in Seq(C)
    PROVE  /\ Reverse(s) \in Seq(C) /\ Len(Reverse(s)) = Len(s)
           /\ Reverse(<<d>> \o s) = Append(Reverse(s), d)
           /\ Reverse(s \o <<d>>) = <<d>> \o Reverse(s)
<1>1. Reverse(s) \in Seq(C) /\ Len(Reverse(s)) = Len(s)
    BY DEF Reverse
<1>2. Reverse(<<d>> \o s) = Append(Reverse(s), d)
    BY DEF Reverse
<1>3. Reverse(s \o <<d>>) = <<d>> \o Reverse(s)
    BY DEF Reverse
<1> QED
    BY <1>1, <1>2, <1>3

\* One is as it was.
LEMMA ReverseOne ==
    ASSUME NEW d
    PROVE  Reverse(<<d>>) = <<d>>
BY DEF Reverse


-----------------------------------------------------------------------------
(* Recursion that ends because something gets smaller.                     *)

\* Where it has not stopped, the next place is smaller.
Shrinks(D, size, stop, next) ==
    /\ size \in [D -> Nat]
    /\ \A i \in D : i \notin stop => next[i] \in D /\ size[next[i]] < size[i]

\* The function that puts g[i] before its value at the next place.
Unwinds(F, D, Y, g, stop, next) ==
    /\ F \in [D -> Seq(Y)]
    /\ \A i \in D : F[i] = <<g[i]>> \o (IF i \in stop THEN <<>> ELSE F[next[i]])

\* There is one.
LEMMA Unwinding ==
    ASSUME NEW D, NEW Y, NEW size, NEW stop, NEW next, NEW g \in [D -> Y],
           Shrinks(D, size, stop, next)
    PROVE  \E F : Unwinds(F, D, Y, g, stop, next)
<1> USE DEF Shrinks
<1> DEFINE Below(n) == {i \in D : size[i] < n}
           To(f, n) == /\ f \in [Below(n) -> Seq(Y)]
                       /\ \A i \in Below(n) :
                             f[i] = <<g[i]>> \o (IF i \in stop THEN <<>> ELSE f[next[i]])
<1>1. ASSUME NEW i \in D PROVE size[i] \in Nat /\ <<g[i]>> \in Seq(Y)
    OBVIOUS
<1>2. ASSUME NEW n \in Nat, NEW i \in Below(n + 1), i \notin stop
      PROVE  next[i] \in D /\ next[i] \in Below(n)
    <2>1. next[i] \in D /\ size[next[i]] \in Nat /\ size[i] \in Nat
        BY <1>2
    <2>2. size[next[i]] < size[i] /\ size[i] < n + 1
        BY <1>2
    <2> QED
        BY <2>1, <2>2
<1>3. \A n \in Nat : \E f : To(f, n)
    <2> DEFINE S == {n \in Nat : \E f : To(f, n)}
    <2>1. 0 \in S
        <3>1. Below(0) = {}
            BY <1>1
        <3>2. To([i \in Below(0) |-> <<>>], 0)
            BY <3>1
        <3> QED
            BY <3>2
    <2>2. ASSUME NEW n \in Nat, n \in S PROVE n + 1 \in S
        <3>1. PICK f : To(f, n)
            BY <2>2
        <3> DEFINE h == [i \in Below(n + 1) |->
                            <<g[i]>> \o (IF i \in stop THEN <<>> ELSE f[next[i]])]
        <3>2. ASSUME NEW i \in Below(n + 1), i \notin stop
              PROVE  f[next[i]] \in Seq(Y) /\ h[next[i]] = f[next[i]]
            <4>1. next[i] \in Below(n) /\ next[i] \in Below(n + 1)
                <5>1. next[i] \in Below(n)
                    BY <1>2, <3>2
                <5> QED
                    BY <1>1, <5>1
            <4>2. f[next[i]] = <<g[next[i]]>> \o
                                  (IF next[i] \in stop THEN <<>> ELSE f[next[next[i]]])
                BY <3>1, <4>1
            <4> QED
                BY <3>1, <4>1, <4>2
        <3>3. h \in [Below(n + 1) -> Seq(Y)]
            <4>1. ASSUME NEW i \in Below(n + 1)
                  PROVE  <<g[i]>> \o (IF i \in stop THEN <<>> ELSE f[next[i]]) \in Seq(Y)
                <5>1. CASE i \in stop
                    BY <1>1, <5>1
                <5>2. CASE i \notin stop
                    <6>1. <<g[i]>> \in Seq(Y) /\ f[next[i]] \in Seq(Y)
                        BY <1>1, <3>2, <5>2
                    <6>2. <<g[i]>> \o f[next[i]] \in Seq(Y)
                        BY <6>1
                    <6> QED
                        BY <5>2, <6>2
                <5> QED
                    BY <5>1, <5>2
            <4> QED
                BY <4>1, Zenon
        <3>4. ASSUME NEW i \in Below(n + 1)
              PROVE  h[i] = <<g[i]>> \o (IF i \in stop THEN <<>> ELSE h[next[i]])
            <4>1. h[i] = <<g[i]>> \o (IF i \in stop THEN <<>> ELSE f[next[i]])
                OBVIOUS
            <4> HIDE DEF h
            <4> QED
                BY <3>2, <4>1
        <3>5. To(h, n + 1)
            BY <3>3, <3>4, Zenon
        <3>6. \E e : To(e, n + 1)
            BY <3>5, Zenon
        <3> HIDE DEF To
        <3> QED
            BY <3>6
    <2> HIDE DEF S
    <2>3. Nat \subseteq S
        BY <2>1, <2>2, Induction
    <2> QED
        BY <2>3 DEF S
<1>4. ASSUME NEW m \in Nat, NEW k \in Nat, NEW f, NEW h, To(f, m), To(h, k)
      PROVE  \A i \in D : i \in Below(m) /\ i \in Below(k) => f[i] = h[i]
    <2> DEFINE S == {n \in Nat : \A i \in D :
                        i \in Below(n) /\ i \in Below(m) /\ i \in Below(k) => f[i] = h[i]}
    <2>1. 0 \in S
        BY <1>1
    <2>2. ASSUME NEW n \in Nat, n \in S PROVE n + 1 \in S
        <3> SUFFICES ASSUME NEW i \in D, i \in Below(n + 1), i \in Below(m), i \in Below(k)
                     PROVE  f[i] = h[i]
            OBVIOUS
        <3>1. /\ f[i] = <<g[i]>> \o (IF i \in stop THEN <<>> ELSE f[next[i]])
              /\ h[i] = <<g[i]>> \o (IF i \in stop THEN <<>> ELSE h[next[i]])
            BY <1>4
        <3>2. CASE i \in stop
            BY <3>1, <3>2
        <3>3. CASE i \notin stop
            <4>1. next[i] \in D /\ next[i] \in Below(n)
                BY <1>2, <3>3
            <4>2. size[next[i]] < size[i] /\ size[i] < m /\ size[i] < k
                BY <3>3
            <4>3. next[i] \in Below(m) /\ next[i] \in Below(k)
                BY <1>1, <4>1, <4>2
            <4>4. f[next[i]] = h[next[i]]
                BY <2>2, <4>1, <4>3
            <4> QED
                BY <3>1, <3>3, <4>4
        <3> QED
            BY <3>2, <3>3
    <2> HIDE DEF S
    <2>3. Nat \subseteq S
        BY <2>1, <2>2, Induction
    <2>4. m \in S
        BY <2>3
    <2> QED
        BY <2>4 DEF S
<1> DEFINE G(n) == CHOOSE f : To(f, n)
           F == [i \in D |-> G(size[i] + 1)[i]]
<1>5. ASSUME NEW n \in Nat PROVE To(G(n), n)
    BY <1>3, Zenon
<1> HIDE DEF G
<1>6. ASSUME NEW i \in D
      PROVE  F[i] \in Seq(Y) /\ F[i] = <<g[i]>> \o (IF i \in stop THEN <<>> ELSE F[next[i]])
    <2>1. size[i] + 1 \in Nat /\ i \in Below(size[i] + 1)
        BY <1>1
    <2>2. To(G(size[i] + 1), size[i] + 1)
        BY <1>5, <2>1
    <2>3. /\ F[i] \in Seq(Y)
          /\ F[i] = <<g[i]>> \o (IF i \in stop THEN <<>> ELSE G(size[i] + 1)[next[i]])
        BY <2>1, <2>2
    <2>4. ASSUME i \notin stop PROVE F[next[i]] = G(size[i] + 1)[next[i]]
        <3>1. next[i] \in D /\ size[next[i]] < size[i]
            BY <2>4
        <3>2. size[next[i]] + 1 \in Nat /\ next[i] \in Below(size[next[i]] + 1)
              /\ next[i] \in Below(size[i] + 1)
            BY <1>1, <3>1
        <3>3. To(G(size[next[i]] + 1), size[next[i]] + 1)
            BY <1>5, <3>2
        <3>4. G(size[next[i]] + 1)[next[i]] = G(size[i] + 1)[next[i]]
            <4> HIDE DEF To, Below
            <4> QED
                BY <1>4, <2>1, <2>2, <3>1, <3>2, <3>3
        <3> QED
            BY <3>1, <3>4
    <2> HIDE DEF F
    <2> QED
        BY <2>3, <2>4
<1>7. Unwinds(F, D, Y, g, stop, next)
    <2>1. F \in [D -> Seq(Y)]
        BY <1>6
    <2> HIDE DEF F
    <2> QED
        BY <1>6, <2>1 DEF Unwinds
<1> QED
    BY <1>7, Zenon


-----------------------------------------------------------------------------
(* Numbers come out as what they are.                                      *)

\* Division by ten, rounding to zero, on both sides of zero.
LEMMA Division ==
    ASSUME NEW i \in Int
    PROVE  /\ Abs(i) \in Nat /\ Quot(i, 10) \in Int /\ Rem(i, 10) \in (-9) .. 9
           /\ Abs(i) = 10 * Abs(Quot(i, 10)) + Abs(Rem(i, 10))
           /\ Quot(i, 10) # 0 => Abs(Quot(i, 10)) < Abs(i)
           /\ Quot(i, 10) = 0 => Abs(i) = Abs(Rem(i, 10))
<1>1. CASE i >= 0
    <2> DEFINE q == i \div 10
    <2>1. q \in Nat /\ i - 10 * q \in 0 .. 9
        BY <1>1
    <2>2. Quot(i, 10) = q /\ Rem(i, 10) = i - 10 * q
        BY <1>1 DEF Quot, Rem
    <2> HIDE DEF q
    <2>3. Abs(i) = i /\ Abs(q) = q /\ Abs(i - 10 * q) = i - 10 * q
        BY <1>1, <2>1 DEF Abs
    <2> QED
        BY <1>1, <2>1, <2>2, <2>3
<1>2. CASE i < 0
    <2> DEFINE q == (-i) \div 10
    <2>1. q \in Nat /\ (-i) - 10 * q \in 0 .. 9
        BY <1>2
    <2>2. Quot(i, 10) = -q /\ Rem(i, 10) = i + 10 * q
        BY <1>2, <2>1 DEF Quot, Rem
    <2> HIDE DEF q
    <2>3. Abs(i) = -i /\ Abs(-q) = q /\ Abs(i + 10 * q) = (-i) - 10 * q
        BY <1>2, <2>1 DEF Abs
    <2> QED
        BY <1>2, <2>1, <2>2, <2>3
<1> QED
    BY <1>1, <1>2

\* The loop of convert ends, and gives this digit before those of the rest.
LEMMA LowFirstGoes ==
    ASSUME NEW i \in Int
    PROVE  /\ LowFirst[i] \in Seq(DOMAIN Digit)
           /\ LowFirst[i] = <<zero(Rem(i, 10))>> \o
                               (IF Quot(i, 10) # 0 THEN LowFirst[Quot(i, 10)] ELSE <<>>)
<1> DEFINE size == [n \in Int |-> Abs(n)]
           stop == {n \in Int : Quot(n, 10) = 0}
           next == [n \in Int |-> Quot(n, 10)]
           g == [n \in Int |-> zero(Rem(n, 10))]
           Is(f) == f = [n \in Int |->
                           <<zero(Rem(n, 10))>> \o
                              (IF Quot(n, 10) # 0 THEN f[Quot(n, 10)] ELSE <<>>)]
<1>1. Shrinks(Int, size, stop, next)
    <2>1. size \in [Int -> Nat]
        BY Division
    <2>2. ASSUME NEW n \in Int, n \notin stop PROVE next[n] \in Int /\ size[next[n]] < size[n]
        <3>1. Quot(n, 10) \in Int /\ Quot(n, 10) # 0 /\ Abs(Quot(n, 10)) < Abs(n)
            BY <2>2, Division
        <3> QED
            BY <3>1
    <2> HIDE DEF size, stop, next
    <2> QED
        BY <2>1, <2>2 DEF Shrinks
<1>2. g \in [Int -> DOMAIN Digit]
    <2>1. ASSUME NEW n \in Int PROVE zero(Rem(n, 10)) \in DOMAIN Digit
        <3>1. Rem(n, 10) \in (-9) .. 9
            BY Division
        <3>2. Abs(Rem(n, 10)) \in 0 .. 15
            BY <3>1 DEF Abs
        <3> QED
            BY <3>1, <3>2, ZeroOf, DigitOf
    <2> QED
        BY <2>1
<1>3. PICK F : Unwinds(F, Int, DOMAIN Digit, g, stop, next)
    <2> HIDE DEF size, stop, next, g
    <2> QED
        BY <1>1, <1>2, Unwinding
<1>4. ASSUME NEW n \in Int
      PROVE  F[n] = <<zero(Rem(n, 10))>> \o (IF Quot(n, 10) # 0 THEN F[Quot(n, 10)] ELSE <<>>)
    <2>1. F[n] = <<g[n]>> \o (IF n \in stop THEN <<>> ELSE F[next[n]])
        BY <1>3 DEF Unwinds
    <2>2. g[n] = zero(Rem(n, 10)) /\ next[n] = Quot(n, 10) /\ (n \in stop <=> Quot(n, 10) = 0)
        OBVIOUS
    <2> HIDE DEF g, stop, next
    <2> QED
        BY <2>1, <2>2
<1>5. Is(F)
    <2>1. F \in [Int -> Seq(DOMAIN Digit)]
        BY <1>3 DEF Unwinds
    <2> QED
        BY <1>4, <2>1
<1>6. Is(LowFirst)
    BY <1>5, Zenon DEF LowFirst
<1>7. ASSUME NEW n \in Int
      PROVE  LowFirst[n] = <<zero(Rem(n, 10))>> \o
                              (IF Quot(n, 10) # 0 THEN LowFirst[Quot(n, 10)] ELSE <<>>)
    BY <1>6, Zenon
<1>8. \A n \in Int : LowFirst[n] \in Seq(DOMAIN Digit)
    <2> DEFINE S == {n \in Nat : \A k \in Int : Abs(k) < n => LowFirst[k] \in Seq(DOMAIN Digit)}
    <2>1. 0 \in S
        BY Division
    <2>2. ASSUME NEW n \in Nat, n \in S PROVE n + 1 \in S
        <3> SUFFICES ASSUME NEW k \in Int, Abs(k) < n + 1
                     PROVE  LowFirst[k] \in Seq(DOMAIN Digit)
            OBVIOUS
        <3>1. <<zero(Rem(k, 10))>> \in Seq(DOMAIN Digit)
            BY <1>2
        <3>2. CASE Quot(k, 10) = 0
            <4>1. LowFirst[k] = <<zero(Rem(k, 10))>> \o <<>>
                BY <1>7, <3>2
            <4> QED
                BY <3>1, <4>1
        <3>3. CASE Quot(k, 10) # 0
            <4>1. /\ Quot(k, 10) \in Int /\ Abs(Quot(k, 10)) < Abs(k)
                  /\ Abs(k) \in Nat /\ Abs(Quot(k, 10)) \in Nat
                BY <3>3, Division
            <4>2. LowFirst[Quot(k, 10)] \in Seq(DOMAIN Digit)
                BY <2>2, <4>1
            <4>3. LowFirst[k] = <<zero(Rem(k, 10))>> \o LowFirst[Quot(k, 10)]
                BY <1>7, <3>3
            <4> QED
                BY <3>1, <4>2, <4>3
        <3> QED
            BY <3>2, <3>3
    <2> HIDE DEF S
    <2>3. Nat \subseteq S
        BY <2>1, <2>2, Induction
    <2> SUFFICES ASSUME NEW n \in Int PROVE LowFirst[n] \in Seq(DOMAIN Digit)
        OBVIOUS
    <2>4. Abs(n) + 1 \in S /\ Abs(n) < Abs(n) + 1
        BY <2>3, Division
    <2> QED
        BY <2>4 DEF S
<1> QED
    BY <1>7, <1>8


\* One digit is a numeral.
LEMMA NumeralOne ==
    ASSUME NEW base \in Nat, NEW d \in DOMAIN Digit, Digit[d] < base
    PROVE  Numeral(base, <<d>>, Digit[d])
<1>1. <<>> \in Seq(DOMAIN Digit) /\ Append(<<>>, d) = <<d>>
    OBVIOUS
<1>2. Digit[d] \in Nat
    BY DigitIs
<1>3. Horner(base, <<d>>) = base * Horner(base, <<>>) + Digit[d]
    BY <1>1, HornerLast
<1>4. Horner(base, <<d>>) = Digit[d]
    BY <1>2, <1>3, HornerNone
<1> QED
    BY <1>4 DEF Numeral

\* A digit behind a numeral that is not zero makes a numeral.
LEMMA NumeralLast ==
    ASSUME NEW base \in Nat, NEW s \in Seq(DOMAIN Digit), NEW q \in Nat \ {0},
           Numeral(base, s, q), NEW d \in DOMAIN Digit, Digit[d] < base
    PROVE  Numeral(base, Append(s, d), base * q + Digit[d])
<1>1. /\ s # <<>>
      /\ s[1] = "0" => Len(s) = 1
      /\ \A i \in DOMAIN s : s[i] \in DOMAIN Digit /\ Digit[s[i]] < base
      /\ Horner(base, s) = q
    BY Zenon DEF Numeral
<1>2. Horner(base, Append(s, d)) = base * q + Digit[d]
    BY <1>1, HornerLast
<1>3. s[1] # "0"
    <2> SUFFICES ASSUME s[1] = "0" PROVE FALSE
        OBVIOUS
    <2>1. Len(s) = 1
        BY <1>1
    <2>2. digitsHex[0 + 1] = "0" /\ 0 \in 0 .. 15
        BY DEF digitsHex
    <2>3. Digit[s[1]] = 0 /\ s[1] \in DOMAIN Digit
        BY <2>2, DigitOf
    <2> DEFINE e == s[1]
    <2>4. e \in DOMAIN Digit /\ Digit[e] = 0
        BY <2>3
    <2>5. s = Append(<<>>, e) /\ <<>> \in Seq(DOMAIN Digit)
        BY <2>1
    <2> HIDE DEF e
    <2>6. Horner(base, s) = base * Horner(base, <<>>) + Digit[e]
        BY <2>4, <2>5, HornerLast
    <2>7. base * 0 + 0 = 0
        OBVIOUS
    <2> QED
        BY <1>1, <2>4, <2>6, <2>7, HornerNone
<1> DEFINE t == Append(s, d)
<1>4. t # <<>> /\ t[1] = s[1]
    <2>1. Len(s) \in Nat \ {0} /\ Len(t) = Len(s) + 1
        BY <1>1
    <2> QED
        BY <1>1, <2>1
<1>5. ASSUME NEW i \in DOMAIN t PROVE t[i] \in DOMAIN Digit /\ Digit[t[i]] < base
    <2>1. t[i] = d \/ (i \in DOMAIN s /\ t[i] = s[i])
        OBVIOUS
    <2> HIDE DEF t
    <2> QED
        BY <1>1, <2>1
<1> HIDE DEF t
<1>6. Numeral(base, t, base * q + Digit[d])
    <2>1. Horner(base, t) = base * q + Digit[d]
        BY <1>2 DEF t
    <2> QED
        BY <1>3, <1>4, <1>5, <2>1, Zenon DEF Numeral
<1> QED
    BY <1>6 DEF t

\* The digits of an integer from the first to the last, without its sign.
LEMMA DecimalNumeral ==
    ASSUME NEW v \in Int
    PROVE  /\ Reverse(LowFirst[v]) \in Seq(DOMAIN Digit)
           /\ Numeral(10, Reverse(LowFirst[v]), Abs(v))
<1> DEFINE Good(k) == Numeral(10, Reverse(LowFirst[k]), Abs(k))
           S == {n \in Nat : \A k \in Int : Abs(k) < n => Good(k)}
<1>1. ASSUME NEW k \in Int PROVE Reverse(LowFirst[k]) \in Seq(DOMAIN Digit)
    <2>1. LowFirst[k] \in Seq(DOMAIN Digit)
        BY LowFirstGoes
    <2> QED
        BY <2>1 DEF Reverse
<1>2. ASSUME NEW k \in Int
      PROVE  /\ zero(Rem(k, 10)) \in DOMAIN Digit
             /\ Digit[zero(Rem(k, 10))] = Abs(Rem(k, 10)) /\ Abs(Rem(k, 10)) < 10
    <2>1. Rem(k, 10) \in (-9) .. 9
        BY Division
    <2>2. Abs(Rem(k, 10)) \in 0 .. 15 /\ Abs(Rem(k, 10)) < 10
        BY <2>1 DEF Abs
    <2> QED
        BY <2>1, <2>2, ZeroOf, DigitOf
<1>3. 0 \in S
    BY Division
<1>4. ASSUME NEW n \in Nat, n \in S PROVE n + 1 \in S
    <2> SUFFICES ASSUME NEW k \in Int, Abs(k) < n + 1 PROVE Good(k)
        OBVIOUS
    <2> DEFINE d == zero(Rem(k, 10))
               q == Quot(k, 10)
    <2>1. d \in DOMAIN Digit /\ Digit[d] = Abs(Rem(k, 10)) /\ Digit[d] < 10
        BY <1>2
    <2>2. CASE q = 0
        <3>1. LowFirst[k] = <<d>>
            <4>1. LowFirst[k] = <<d>> \o <<>>
                BY <2>2, LowFirstGoes
            <4> HIDE DEF d
            <4> QED
                BY <4>1
        <3>2. Reverse(<<d>>) = <<d>>
            BY ReverseOne
        <3>3. Numeral(10, <<d>>, Digit[d])
            BY <2>1, NumeralOne
        <3> QED
            BY <2>1, <2>2, <3>1, <3>2, <3>3, Division
    <2>3. CASE q # 0
        <3>1. /\ q \in Int /\ Abs(q) \in Nat /\ Abs(k) \in Nat /\ Abs(q) < Abs(k)
              /\ Abs(k) = 10 * Abs(q) + Digit[d]
            BY <2>1, <2>3, Division
        <3>2. Abs(q) \in Nat \ {0}
            BY <2>3, <3>1 DEF Abs
        <3>3. Good(q)
            BY <1>4, <3>1
        <3>4. LowFirst[k] = <<d>> \o LowFirst[q] /\ LowFirst[q] \in Seq(DOMAIN Digit)
            BY <2>3, <3>1, LowFirstGoes
        <3>5. Reverse(LowFirst[k]) = Append(Reverse(LowFirst[q]), d)
            BY <2>1, <3>4, ReverseFirst
        <3>6. Numeral(10, Append(Reverse(LowFirst[q]), d), 10 * Abs(q) + Digit[d])
            BY <1>1, <2>1, <3>1, <3>2, <3>3, NumeralLast
        <3> QED
            BY <3>1, <3>5, <3>6
    <2> QED
        BY <2>2, <2>3
<1> HIDE DEF S
<1>5. Nat \subseteq S
    BY <1>3, <1>4, Induction
<1>6. Abs(v) + 1 \in S /\ Abs(v) < Abs(v) + 1
    BY <1>5, Division
<1> QED
    BY <1>1, <1>6 DEF S


\* The loop of convertHex ends, and gives this digit before those of the rest.
LEMMA LowFirstHexGoes ==
    ASSUME NEW i \in Nat
    PROVE  /\ LowFirstHex[i] \in Seq(DOMAIN Digit)
           /\ LowFirstHex[i] = <<digitsHex[(i % 16) + 1]>> \o
                               (IF i \div 16 # 0 THEN LowFirstHex[i \div 16] ELSE <<>>)
<1> DEFINE size == [n \in Nat |-> n]
           stop == {n \in Nat : n \div 16 = 0}
           next == [n \in Nat |-> n \div 16]
           g == [n \in Nat |-> digitsHex[(n % 16) + 1]]
           Is(f) == f = [n \in Nat |->
                           <<digitsHex[(n % 16) + 1]>> \o
                              (IF n \div 16 # 0 THEN f[n \div 16] ELSE <<>>)]
<1>0. ASSUME NEW n \in Nat
      PROVE n % 16 \in 0 .. 15 /\ n \div 16 \in Nat /\ (n \div 16 # 0 => n \div 16 < n)
    OBVIOUS
<1>1. Shrinks(Nat, size, stop, next)
    <2>1. size \in [Nat -> Nat]
        OBVIOUS
    <2>2. ASSUME NEW n \in Nat, n \notin stop PROVE next[n] \in Nat /\ size[next[n]] < size[n]
        <3>1. n \div 16 \in Nat /\ n \div 16 # 0 /\ n \div 16 < n
            BY <1>0, <2>2
        <3> QED
            BY <3>1
    <2> HIDE DEF size, stop, next
    <2> QED
        BY <2>1, <2>2 DEF Shrinks
<1>2. g \in [Nat -> DOMAIN Digit]
    <2>1. ASSUME NEW n \in Nat PROVE digitsHex[(n % 16) + 1] \in DOMAIN Digit
        BY <1>0, DigitOf
    <2> QED
        BY <2>1
<1>3. PICK F : Unwinds(F, Nat, DOMAIN Digit, g, stop, next)
    <2> HIDE DEF size, stop, next, g
    <2> QED
        BY <1>1, <1>2, Unwinding
<1>4. ASSUME NEW n \in Nat
      PROVE  F[n] = <<digitsHex[(n % 16) + 1]>> \o (IF n \div 16 # 0 THEN F[n \div 16] ELSE <<>>)
    <2>1. F[n] = <<g[n]>> \o (IF n \in stop THEN <<>> ELSE F[next[n]])
        BY <1>3 DEF Unwinds
    <2>2. g[n] = digitsHex[(n % 16) + 1] /\ next[n] = n \div 16 /\ (n \in stop <=> n \div 16 = 0)
        OBVIOUS
    <2> HIDE DEF g, stop, next
    <2> QED
        BY <2>1, <2>2
<1>5. Is(F)
    <2>1. F \in [Nat -> Seq(DOMAIN Digit)]
        BY <1>3 DEF Unwinds
    <2> QED
        BY <1>4, <2>1
<1>6. Is(LowFirstHex)
    BY <1>5, Zenon DEF LowFirstHex
<1>7. ASSUME NEW n \in Nat
      PROVE  LowFirstHex[n] = <<digitsHex[(n % 16) + 1]>> \o
                              (IF n \div 16 # 0 THEN LowFirstHex[n \div 16] ELSE <<>>)
    BY <1>6, Zenon
<1>8. \A n \in Nat : LowFirstHex[n] \in Seq(DOMAIN Digit)
    <2> DEFINE S == {n \in Nat : \A k \in Nat : k < n => LowFirstHex[k] \in Seq(DOMAIN Digit)}
    <2>1. 0 \in S
        OBVIOUS
    <2>2. ASSUME NEW n \in Nat, n \in S PROVE n + 1 \in S
        <3> SUFFICES ASSUME NEW k \in Nat, k < n + 1
                     PROVE  LowFirstHex[k] \in Seq(DOMAIN Digit)
            OBVIOUS
        <3>1. <<digitsHex[(k % 16) + 1]>> \in Seq(DOMAIN Digit)
            BY <1>2
        <3>2. CASE k \div 16 = 0
            <4>1. LowFirstHex[k] = <<digitsHex[(k % 16) + 1]>> \o <<>>
                BY <1>7, <3>2
            <4> QED
                BY <3>1, <4>1
        <3>3. CASE k \div 16 # 0
            <4>1. k \div 16 \in Nat /\ k \div 16 < k
                BY <1>0, <3>3
            <4>2. LowFirstHex[k \div 16] \in Seq(DOMAIN Digit)
                BY <2>2, <4>1
            <4>3. LowFirstHex[k] = <<digitsHex[(k % 16) + 1]>> \o LowFirstHex[k \div 16]
                BY <1>7, <3>3
            <4> QED
                BY <3>1, <4>2, <4>3
        <3> QED
            BY <3>2, <3>3
    <2> HIDE DEF S
    <2>3. Nat \subseteq S
        BY <2>1, <2>2, Induction
    <2>4. i + 1 \in S /\ i < i + 1
        BY <2>3
    <2> SUFFICES ASSUME NEW n \in Nat PROVE LowFirstHex[n] \in Seq(DOMAIN Digit)
        OBVIOUS
    <2>5. n + 1 \in S /\ n < n + 1
        BY <2>3
    <2> QED
        BY <2>5 DEF S
<1> QED
    BY <1>7, <1>8

\* The digits of a pointer from the first to the last.
LEMMA HexNumeral ==
    ASSUME NEW v \in Nat
    PROVE  /\ convertHex(v) \in Seq(DOMAIN Digit)
           /\ Numeral(16, convertHex(v), v)
<1> DEFINE Good(k) == Numeral(16, Reverse(LowFirstHex[k]), k)
           S == {n \in Nat : \A k \in Nat : k < n => Good(k)}
<1>1. ASSUME NEW k \in Nat PROVE Reverse(LowFirstHex[k]) \in Seq(DOMAIN Digit)
    <2>1. LowFirstHex[k] \in Seq(DOMAIN Digit)
        BY LowFirstHexGoes
    <2> QED
        BY <2>1 DEF Reverse
<1>2. ASSUME NEW k \in Nat
      PROVE  /\ digitsHex[(k % 16) + 1] \in DOMAIN Digit
             /\ Digit[digitsHex[(k % 16) + 1]] = k % 16 /\ k % 16 \in Nat /\ k % 16 < 16
    <2>1. k % 16 \in 0 .. 15
        OBVIOUS
    <2> QED
        BY <2>1, DigitOf
<1>3. 0 \in S
    OBVIOUS
<1>4. ASSUME NEW n \in Nat, n \in S PROVE n + 1 \in S
    <2> SUFFICES ASSUME NEW k \in Nat, k < n + 1 PROVE Good(k)
        OBVIOUS
    <2> DEFINE d == digitsHex[(k % 16) + 1]
               q == k \div 16
    <2>1. d \in DOMAIN Digit /\ Digit[d] = k % 16 /\ Digit[d] < 16
        BY <1>2
    <2>2. q \in Nat /\ k = 16 * q + (k % 16) /\ (q # 0 => q < k) /\ k % 16 \in Nat
        OBVIOUS
    <2>3. CASE q = 0
        <3>1. LowFirstHex[k] = <<d>>
            <4>1. LowFirstHex[k] = <<d>> \o <<>>
                BY <2>3, LowFirstHexGoes
            <4> HIDE DEF d
            <4> QED
                BY <4>1
        <3>2. Reverse(<<d>>) = <<d>>
            BY ReverseOne
        <3>3. Numeral(16, <<d>>, Digit[d])
            BY <2>1, NumeralOne
        <3>4. Digit[d] = k
            BY <2>1, <2>2, <2>3
        <3> QED
            BY <3>1, <3>2, <3>3, <3>4
    <2>4. CASE q # 0
        <3>1. q \in Nat \ {0} /\ q < n
            BY <2>2, <2>4
        <3>2. Good(q)
            BY <1>4, <3>1
        <3>3. LowFirstHex[k] = <<d>> \o LowFirstHex[q] /\ LowFirstHex[q] \in Seq(DOMAIN Digit)
            BY <2>4, <3>1, LowFirstHexGoes
        <3>4. Reverse(LowFirstHex[k]) = Append(Reverse(LowFirstHex[q]), d)
            BY <2>1, <3>3, ReverseFirst
        <3>5. Numeral(16, Append(Reverse(LowFirstHex[q]), d), 16 * q + Digit[d])
            BY <1>1, <2>1, <3>1, <3>2, NumeralLast
        <3>6. 16 * q + Digit[d] = k
            BY <2>1, <2>2
        <3> QED
            BY <3>4, <3>5, <3>6
    <2> QED
        BY <2>3, <2>4
<1> HIDE DEF S
<1>5. Nat \subseteq S
    BY <1>3, <1>4, Induction
<1>6. v + 1 \in S /\ v < v + 1
    BY <1>5
<1> QED
    BY <1>1, <1>6 DEF S, convertHex

\* The rest of a sequence behind its first two.
LEMMA Behind ==
    ASSUME NEW C, NEW s \in Seq(C), NEW a \in C, NEW b \in C
    PROVE  /\ <<a, b>> \o s \in Seq(C)
           /\ SubSeq(<<a, b>> \o s, 3, Len(<<a, b>> \o s)) = s
<1>1. <<a, b>> \in Seq(C) /\ Len(<<a, b>>) = 2
    OBVIOUS
<1> QED
    BY <1>1

\* What << writes of an integer of any size and sign, the least one too, is
\* its usual text (LogStream.cpp:129-151): it reads as that number, and begins
\* with no digit too many.
THEOREM IntegersReadRight ==
    ASSUME NEW v \in Int
    PROVE  /\ convert(v) \in Seq(DOMAIN Digit \cup {"-"})
           /\ Reads(convert(v), v)
<1> DEFINE L == LowFirst[v]
           C == DOMAIN Digit \cup {"-"}
<1>1. L \in Seq(DOMAIN Digit) /\ L \in Seq(C)
    <2>1. L \in Seq(DOMAIN Digit)
        BY LowFirstGoes
    <2> HIDE DEF L
    <2> QED
        BY <2>1
<1>2. Reverse(L) \in Seq(DOMAIN Digit) /\ Reverse(L) \in Seq(C) /\ Numeral(10, Reverse(L), Abs(v))
    BY DecimalNumeral
<1> HIDE DEF L
<1>3. CASE v >= 0
    <2>1. convert(v) = Reverse(L)
        <3>1. L \o <<>> = L
            BY <1>1
        <3>2. ~(v < 0)
            BY <1>3
        <3>3. convert(v) = Reverse(L \o <<>>)
            BY <3>2, Zenon DEF convert, L
        <3> QED
            BY <3>1, <3>3
    <2>2. Abs(v) = v
        BY <1>3 DEF Abs
    <2> QED
        BY <1>2, <1>3, <2>1, <2>2 DEF Reads
<1>4. CASE v < 0
    <2> DEFINE minus == "-"
    <2>1. minus \in C
        OBVIOUS
    <2>2. convert(v) = Reverse(L \o <<minus>>)
        BY <1>4 DEF convert, L
    <2> HIDE DEF minus, C
    <2>3. convert(v) = <<minus>> \o Reverse(L)
        BY <1>1, <2>1, <2>2, ReverseFirst
    <2>4. /\ convert(v) \in Seq(C) /\ convert(v) # <<>>
          /\ convert(v)[1] = minus /\ Tail(convert(v)) = Reverse(L)
        BY <1>2, <2>1, <2>3
    <2>5. Abs(v) = -v
        BY <1>4 DEF Abs
    <2>6. ~(v >= 0) /\ Numeral(10, Tail(convert(v)), -v)
        <3>1. ~(v >= 0)
            BY <1>4
        <3>2. Numeral(10, Tail(convert(v)), -v)
            BY <1>2, <2>4, <2>5, Zenon
        <3> QED
            BY <3>1, <3>2
    <2>7. Reads(convert(v), v)
        BY <2>4, <2>6, Zenon DEF Reads, minus
    <2> QED
        BY <2>4, <2>7 DEF C
<1> QED
    BY <1>3, <1>4

\* What << writes of a pointer is 0x and its hexadecimal digits
\* (LogStream.cpp:153-169).
THEOREM PointersReadRight ==
    ASSUME NEW v \in Nat
    PROVE  /\ <<"0", "x">> \o convertHex(v) \in Seq(DOMAIN Digit \cup {"0", "x"})
           /\ ReadsHex(<<"0", "x">> \o convertHex(v), v)
<1> DEFINE h == convertHex(v)
           C == DOMAIN Digit \cup {"0", "x"}
           z == "0"
           x == "x"
<1>1. h \in Seq(C) /\ Numeral(16, h, v) /\ z \in C /\ x \in C
    BY HexNumeral
<1> HIDE DEF h, C, z, x
<1>2. <<z, x>> \o h \in Seq(C) /\ SubSeq(<<z, x>> \o h, 3, Len(<<z, x>> \o h)) = h
    BY <1>1, Behind
<1>3. ReadsHex(<<z, x>> \o h, v)
    BY <1>1, <1>2, Zenon DEF ReadsHex, z, x
<1> QED
    BY <1>2, <1>3 DEF h, C, z, x



-----------------------------------------------------------------------------
(* Numbers of 64 bits fit.                                                 *)

\* Below m in size, n digits are enough.
Fits(n, m) == \A i \in Int : Abs(i) < m => Len(LowFirst[i]) <= n
FitsHex(n, m) == \A i \in Nat : i < m => Len(LowFirstHex[i]) <= n

\* Below ten times as much one digit more is.
LEMMA FitsMore ==
    ASSUME NEW n \in Nat, NEW m \in Nat, Fits(n, m), n # 0
    PROVE  Fits(n + 1, 10 * m)
<1> SUFFICES ASSUME NEW i \in Int, Abs(i) < 10 * m PROVE Len(LowFirst[i]) <= n + 1
    BY DEF Fits
<1> DEFINE q == Quot(i, 10)
           e == zero(Rem(i, 10))
           L == LowFirst[q]
<1>1. /\ q \in Int /\ Abs(q) \in Nat /\ Abs(i) = 10 * Abs(q) + Abs(Rem(i, 10))
      /\ Rem(i, 10) \in (-9) .. 9
    BY Division
<1>2. Abs(q) < m
    <2>1. Abs(Rem(i, 10)) \in Nat
        BY <1>1 DEF Abs
    <2> HIDE DEF q
    <2> QED
        BY <1>1, <2>1
<1>3. L \in Seq(DOMAIN Digit) /\ Len(L) <= n
    BY <1>1, <1>2, LowFirstGoes DEF Fits
<1>4. LowFirst[i] = <<e>> \o (IF q # 0 THEN L ELSE <<>>)
    BY LowFirstGoes
<1> HIDE DEF q, e, L
<1>5. CASE q = 0
    <2>1. LowFirst[i] = <<e>> \o <<>>
        BY <1>4, <1>5
    <2>2. Len(LowFirst[i]) = 1
        BY <2>1
    <2> QED
        BY <2>2
<1>6. CASE q # 0
    <2>1. LowFirst[i] = <<e>> \o L
        BY <1>4, <1>6
    <2>2. Len(LowFirst[i]) = 1 + Len(L)
        BY <1>3, <2>1
    <2> QED
        BY <1>3, <2>2
<1> QED
    BY <1>5, <1>6

\* And the same in base 16.
LEMMA FitsHexMore ==
    ASSUME NEW n \in Nat, NEW m \in Nat, FitsHex(n, m), n # 0
    PROVE  FitsHex(n + 1, 16 * m)
<1> SUFFICES ASSUME NEW i \in Nat, i < 16 * m PROVE Len(LowFirstHex[i]) <= n + 1
    BY DEF FitsHex
<1> DEFINE q == i \div 16
           e == digitsHex[(i % 16) + 1]
           L == LowFirstHex[q]
<1>1. q \in Nat /\ q < m
    OBVIOUS
<1>2. L \in Seq(DOMAIN Digit) /\ Len(L) <= n
    BY <1>1, LowFirstHexGoes DEF FitsHex
<1>3. LowFirstHex[i] = <<e>> \o (IF q # 0 THEN L ELSE <<>>)
    BY LowFirstHexGoes
<1> HIDE DEF q, e, L
<1>4. CASE q = 0
    <2>1. LowFirstHex[i] = <<e>> \o <<>>
        BY <1>3, <1>4
    <2>2. Len(LowFirstHex[i]) = 1
        BY <2>1
    <2> QED
        BY <2>2
<1>5. CASE q # 0
    <2>1. LowFirstHex[i] = <<e>> \o L
        BY <1>3, <1>5
    <2>2. Len(LowFirstHex[i]) = 1 + Len(L)
        BY <1>2, <2>1
    <2> QED
        BY <1>2, <2>2
<1> QED
    BY <1>4, <1>5

\* Four digits at once.
LEMMA FitsFour ==
    ASSUME NEW n \in Nat, NEW m \in Nat, n # 0, Fits(n, m)
    PROVE  Fits(n + 4, 10000 * m)
<1>1. Fits(n + 1, 10 * m)
    BY FitsMore
<1>2. Fits(n + 2, 100 * m)
    <2>1. Fits((n + 1) + 1, 10 * (10 * m))
        BY <1>1, FitsMore
    <2> QED
        BY <2>1
<1>3. Fits(n + 3, 1000 * m)
    <2>1. Fits((n + 2) + 1, 10 * (100 * m))
        BY <1>2, FitsMore
    <2> QED
        BY <2>1
<1>4. Fits((n + 3) + 1, 10 * (1000 * m))
    BY <1>3, FitsMore
<1> QED
    BY <1>4

\* And in base 16.
LEMMA FitsHexFour ==
    ASSUME NEW n \in Nat, NEW m \in Nat, n # 0, FitsHex(n, m)
    PROVE  FitsHex(n + 4, 65536 * m)
<1>1. FitsHex(n + 1, 16 * m)
    BY FitsHexMore
<1>2. FitsHex(n + 2, 256 * m)
    <2>1. FitsHex((n + 1) + 1, 16 * (16 * m))
        BY <1>1, FitsHexMore
    <2> QED
        BY <2>1
<1>3. FitsHex(n + 3, 4096 * m)
    <2>1. FitsHex((n + 2) + 1, 16 * (256 * m))
        BY <1>2, FitsHexMore
    <2> QED
        BY <2>1
<1>4. FitsHex((n + 3) + 1, 16 * (4096 * m))
    BY <1>3, FitsHexMore
<1> QED
    BY <1>4

\* 2^32: the numbers of 64 bits are below its square.
Wide == 4294967296

\* What a 64-bit integer or pointer takes is less than the 32 bytes that
\* kMaxNumericSize is in the code (LogStream.h:79), which is what
\* NumericAssumption says of the numbers that are logged.
THEOREM NumbersFit ==
    /\ \A v \in (-Wide * Wide) .. (Wide * Wide - 1) : Len(convert(v)) < 32
    /\ \A v \in 0 .. (Wide * Wide - 1) : Len(<<"0", "x">> \o convertHex(v)) < 32
<1>1. Fits(1, 10)
    <2> SUFFICES ASSUME NEW i \in Int, Abs(i) < 10 PROVE Len(LowFirst[i]) <= 1
        BY DEF Fits
    <2> DEFINE e == zero(Rem(i, 10))
    <2>1. Quot(i, 10) = 0
        BY DEF Quot, Abs
    <2>2. LowFirst[i] = <<e>> \o <<>>
        BY <2>1, LowFirstGoes
    <2> HIDE DEF e
    <2> QED
        BY <2>2
<1>2. FitsHex(1, 16)
    <2> SUFFICES ASSUME NEW i \in Nat, i < 16 PROVE Len(LowFirstHex[i]) <= 1
        BY DEF FitsHex
    <2> DEFINE e == digitsHex[(i % 16) + 1]
    <2>1. i \div 16 = 0
        OBVIOUS
    <2>2. LowFirstHex[i] = <<e>> \o <<>>
        BY <2>1, LowFirstHexGoes
    <2> HIDE DEF e
    <2> QED
        BY <2>2
<1>3. Fits(21, 10000 * 100000000000000000)
    <2> DEFINE a == 10
               b == 10000 * a
               c == 10000 * b
               d == 10000 * c
               e == 10000 * d
    <2>1. a \in Nat /\ b \in Nat /\ c \in Nat /\ d \in Nat /\ e \in Nat
        OBVIOUS
    <2>2. e = 100000000000000000 /\ Fits(1, a)
        BY <1>1
    <2> HIDE DEF a
    <2>3. Fits(1 + 4, b)
        BY <2>1, <2>2, FitsFour
    <2> HIDE DEF b
    <2>4. Fits(5 + 4, c)
        BY <2>1, <2>3, FitsFour
    <2> HIDE DEF c
    <2>5. Fits(9 + 4, d)
        BY <2>1, <2>4, FitsFour
    <2> HIDE DEF d
    <2>6. Fits(13 + 4, e)
        BY <2>1, <2>5, FitsFour
    <2> HIDE DEF e
    <2>7. Fits(17 + 4, 10000 * e)
        BY <2>1, <2>6, FitsFour
    <2> QED
        BY <2>2, <2>7
<1>4. FitsHex(17, 65536 * 4503599627370496)
    <2> DEFINE a == 16
               b == 65536 * a
               c == 65536 * b
               d == 65536 * c
    <2>1. a \in Nat /\ b \in Nat /\ c \in Nat /\ d \in Nat
        OBVIOUS
    <2>2. d = 4503599627370496 /\ FitsHex(1, a)
        BY <1>2
    <2> HIDE DEF a
    <2>3. FitsHex(1 + 4, b)
        BY <2>1, <2>2, FitsHexFour
    <2> HIDE DEF b
    <2>4. FitsHex(5 + 4, c)
        BY <2>1, <2>3, FitsHexFour
    <2> HIDE DEF c
    <2>5. FitsHex(9 + 4, d)
        BY <2>1, <2>4, FitsHexFour
    <2> HIDE DEF d
    <2>6. FitsHex(13 + 4, 65536 * d)
        BY <2>1, <2>5, FitsHexFour
    <2> QED
        BY <2>2, <2>6
<1>5. ASSUME NEW v \in (-Wide * Wide) .. (Wide * Wide - 1)
      PROVE  Len(convert(v)) < 32
    <2> DEFINE L == LowFirst[v]
               sign == IF v < 0 THEN <<"-">> ELSE <<>>
    <2>0. v \in Int
        BY DEF Wide
    <2>1. Abs(v) < 10000 * 100000000000000000
        BY DEF Abs, Wide
    <2>2. Len(L) <= 21 /\ L \in Seq(DOMAIN Digit \cup {"-"})
        <3> HIDE DEF Wide
        <3>1. LowFirst[v] \in Seq(DOMAIN Digit)
            BY <2>0, LowFirstGoes
        <3>2. Len(LowFirst[v]) <= 21
            BY <1>3, <2>0, <2>1 DEF Fits
        <3> QED
            BY <3>1, <3>2
    <2>3. sign \in Seq(DOMAIN Digit \cup {"-"}) /\ Len(sign) <= 1
        <3>1. <<"-">> \in Seq(DOMAIN Digit \cup {"-"}) /\ Len(<<"-">>) = 1
            OBVIOUS
        <3>2. <<>> \in Seq(DOMAIN Digit \cup {"-"}) /\ Len(<<>>) = 0
            OBVIOUS
        <3>3. sign = <<"-">> \/ sign = <<>>
            BY Zenon
        <3>4. CASE sign = <<"-">>
            <4> HIDE DEF sign
            <4> QED
                BY <3>1, <3>4
        <3>5. CASE sign = <<>>
            <4> HIDE DEF sign
            <4> QED
                BY <3>2, <3>5
        <3> HIDE DEF sign
        <3> QED
            BY <3>3, <3>4, <3>5
    <2>4. convert(v) = Reverse(L \o sign)
        BY DEF convert
    <2> HIDE DEF L, sign
    <2>5. Len(L \o sign) <= 22 /\ Len(Reverse(L \o sign)) = Len(L \o sign)
        BY <2>2, <2>3 DEF Reverse
    <2> QED
        BY <2>4, <2>5
<1>6. ASSUME NEW v \in 0 .. (Wide * Wide - 1)
      PROVE  Len(<<"0", "x">> \o convertHex(v)) < 32
    <2> DEFINE h == convertHex(v)
               p == <<"0", "x">>
    <2>0. v \in Nat
        BY DEF Wide
    <2>1. h \in Seq(DOMAIN Digit) /\ LowFirstHex[v] \in Seq(DOMAIN Digit)
        <3> HIDE DEF Wide
        <3> QED
            BY <2>0, HexNumeral, LowFirstHexGoes
    <2>2. Len(LowFirstHex[v]) <= 17
        BY <1>4, <2>0 DEF FitsHex, Wide
    <2>3. Len(h) = Len(LowFirstHex[v])
        BY <2>1 DEF convertHex, Reverse
    <2>4. Len(p) = 2 /\ p \in Seq({"0", "x"})
        OBVIOUS
    <2> HIDE DEF h, p
    <2>5. \E C : p \in Seq(C) /\ h \in Seq(C)
        <3> DEFINE C == {"0", "x"} \cup DOMAIN Digit
        <3>1. p \in Seq(C) /\ h \in Seq(C)
            BY <2>1, <2>4
        <3> QED
            BY <3>1
    <2>6. Len(p \o h) = Len(p) + Len(h)
        BY <2>5
    <2>7. Len(h) \in Nat
        BY <2>1
    <2> QED
        BY <2>2, <2>3, <2>4, <2>6, <2>7 DEF h, p
<1> QED
    BY <1>5, <1>6

-----------------------------------------------------------------------------
(* What one operand does to the buffer.                                    *)

\* A sequence is one of whatever set has its elements.
LEMMA SeqWithin ==
    ASSUME NEW X, NEW s \in Seq(X), NEW C, Range(s) \subseteq C
    PROVE  s \in Seq(C)
<1>1. \A i \in 1 .. Len(s) : s[i] \in C
    BY DEF Range
<1> QED
    BY <1>1

\* What is written of an operand is a text of cells, and shows what it is.
LEMMA FormattedIs ==
    ASSUME NEW op \in Operands
    PROVE  /\ Formatted(op) \in Seq(Cells) /\ Len(Formatted(op)) \in Nat
           /\ Shown([op |-> op, cells |-> Formatted(op)])
<1> DEFINE p == [op |-> op, cells |-> Formatted(op)]
<1>1. p.op = op /\ p.cells = Formatted(op)
    OBVIOUS
<1> HIDE DEF p
<1>2. Range(Formatted(op)) \subseteq Cells
    BY DEF Cells
<1>3. \/ op.kind = "text" /\ (op.of = Null \/ op.of \in Seq(Range(op.of)))
      \/ op.kind = "integer" /\ op.of \in Int
      \/ op.kind = "pointer" /\ op.of \in Nat
      \/ op.kind = "double" /\ op.of \in Seq(Range(op.of))
    BY OperandsAssumption
<1>4. CASE op.kind = "text" /\ (op.of = Null \/ op.of \in Seq(Range(op.of)))
    <2>1. Formatted(op) = IF op.of = Null THEN <<"(", "n", "u", "l", "l", ")">> ELSE op.of
        BY <1>4 DEF Formatted
    <2>2. \E X : Formatted(op) \in Seq(X)
        <3>1. CASE op.of = Null
            <4>1. <<"(", "n", "u", "l", "l", ")">> \in Seq({"(", "n", "u", "l", ")"})
                OBVIOUS
            <4> QED
                BY <2>1, <3>1, <4>1
        <3> QED
            BY <1>4, <2>1, <3>1
    <2>3. Shown(p)
        BY <1>1, <1>4 DEF Shown
    <2> QED
        BY <1>2, <2>2, <2>3, SeqWithin DEF p
<1>5. CASE op.kind = "integer" /\ op.of \in Int
    <2>1. Formatted(op) = convert(op.of)
        BY <1>5 DEF Formatted
    <2>2. Shown(p)
        BY <1>1, <1>5, <2>1, IntegersReadRight DEF Shown
    <2> QED
        BY <1>2, <1>5, <2>1, <2>2, IntegersReadRight, SeqWithin DEF p
<1>6. CASE op.kind = "pointer" /\ op.of \in Nat
    <2>1. Formatted(op) = <<"0", "x">> \o convertHex(op.of)
        BY <1>6 DEF Formatted
    <2>2. Shown(p)
        BY <1>1, <1>6, <2>1, PointersReadRight DEF Shown
    <2>3. Formatted(op) \in Seq(DOMAIN Digit \cup {"0", "x"})
        BY <1>6, <2>1, PointersReadRight
    <2> QED
        BY <1>2, <2>2, <2>3, SeqWithin DEF p
<1>7. CASE op.kind = "double" /\ op.of \in Seq(Range(op.of))
    <2>1. Formatted(op) = op.of
        BY <1>7 DEF Formatted
    <2>2. Shown(p)
        BY <1>1, <1>7 DEF Shown
    <2> QED
        BY <1>2, <1>7, <2>1, <2>2, SeqWithin DEF p
<1> QED
    BY <1>3, <1>4, <1>5, <1>6, <1>7

\* An operand is added whole or not at all, whole if it leaves room for one
\* number more, and never past the end of the buffer.
LEMMA PutAdds ==
    ASSUME NEW b \in Buffers(Cells), InBounds(b), b.at = 0,
           NEW op \in Operands, NEW c, c = put(b, op)
    PROVE  /\ c \in Buffers(Cells) /\ InBounds(c) /\ c.at = 0
           /\ Added(b, c) \in Seq(Cells) /\ c.data = b.data \o Added(b, c)
           /\ Added(b, c) = <<>> \/ Added(b, c) = Formatted(op)
           /\ Len(b.data) + Len(Formatted(op)) + kMaxNumericSize <= kBufferSize =>
                 Added(b, c) = Formatted(op)
           /\ ~Overruns(b, op)
<1> DEFINE s == Formatted(op)
<1>1. s \in Seq(Cells) /\ Len(s) \in Nat
    BY FormattedIs
<1>2. /\ kBufferSize \in Nat /\ kMaxNumericSize \in Nat /\ Len(b.data) \in Nat
      /\ b.data \in Seq(Cells) /\ Len(b.data) <= kBufferSize
      /\ b = [data |-> b.data, at |-> 0]
    BY SizeAssumption, NumericAssumption DEF Buffers, InBounds
<1>3. Numeric(op) => Len(s) < kMaxNumericSize
    BY NumericAssumption
<1>4. \/ c = b /\ (~Numeric(op) => Len(s) > avail(b)) /\ (Numeric(op) => ~Room(b))
      \/ c = [data |-> b.data \o s, at |-> 0] /\ Len(s) <= avail(b)
    <2>1. CASE ~Numeric(op)
        <3>1. c = append(b, s)
            BY <2>1 DEF put
        <3> HIDE DEF s
        <3> QED
            BY <1>1, <1>2, <2>1, <3>1 DEF append, avail, Tailroom
    <2>2. CASE Numeric(op) /\ Room(b)
        <3>1. c = add(b, s)
            BY <2>2 DEF put
        <3>2. Len(s) <= avail(b)
            BY <1>1, <1>2, <1>3, <2>2 DEF Room, avail
        <3> HIDE DEF s
        <3>3. ~(Len(s) > avail(b))
            BY <1>1, <1>2, <3>2 DEF avail
        <3>4. c = [b EXCEPT !.data = @ \o s]
            BY <3>1, <3>3 DEF add
        <3>5. c = [data |-> b.data \o s, at |-> 0]
            BY <1>2, <3>4
        <3> QED
            BY <3>2, <3>5
    <2>3. CASE Numeric(op) /\ ~Room(b)
        BY <2>3 DEF put
    <2> QED
        BY <2>1, <2>2, <2>3
<1> HIDE DEF s
<1>5. ~Overruns(b, op)
    BY <1>1, <1>2, <1>3 DEF Overruns, Room, Tailroom, avail, s
<1>6. CASE c = b /\ (~Numeric(op) => Len(s) > avail(b)) /\ (Numeric(op) => ~Room(b))
    <2>1. Added(b, c) = <<>>
        BY <1>2, <1>6 DEF Added
    <2>2. ~(Len(b.data) + Len(s) + kMaxNumericSize <= kBufferSize)
        BY <1>1, <1>2, <1>6 DEF avail, Room
    <2>3. c.data = b.data \o <<>> /\ <<>> \in Seq(Cells)
        BY <1>2, <1>6
    <2> QED
        BY <1>5, <1>6, <2>1, <2>2, <2>3 DEF s
<1>7. CASE c = [data |-> b.data \o s, at |-> 0] /\ Len(s) <= avail(b)
    <2>1. b.data \o s \in Seq(Cells) /\ Len(b.data \o s) = Len(b.data) + Len(s)
        BY <1>1, <1>2
    <2>2. c \in Buffers(Cells) /\ InBounds(c) /\ c.at = 0
        BY <1>1, <1>2, <1>7, <2>1 DEF Buffers, InBounds, avail
    <2>3. c.data = b.data \o s
        BY <1>7
    <2>4. Added(b, c) = s
        BY <1>1, <1>2, <2>3 DEF Added
    <2> QED
        BY <1>1, <1>5, <2>2, <2>3, <2>4 DEF s
<1> QED
    BY <1>4, <1>6, <1>7



-----------------------------------------------------------------------------
(* What one operand does to its line.                                      *)

\* Operands, with one more.
LEMMA OpsLast ==
    ASSUME NEW parts \in Seq(Part), NEW p \in Part
    PROVE  /\ Ops(parts) \in Seq(Operands)
           /\ Ops(Append(parts, p)) = Append(Ops(parts), p.op)
<1>1. p.op \in Operands /\ \A q \in Part : q.op \in Operands
    BY DEF Part
<1>2. Ops(parts) \in Seq(Operands) /\ Len(Ops(parts)) = Len(parts)
    BY <1>1 DEF Ops
<1> DEFINE tt == Append(parts, p)
<1>3. /\ tt \in Seq(Part) /\ Len(tt) = Len(parts) + 1 /\ tt[Len(parts) + 1] = p
      /\ \A i \in 1 .. Len(parts) : tt[i] = parts[i]
    OBVIOUS
<1> HIDE DEF tt
<1>4. Ops(tt) = Append(Ops(parts), p.op)
    <2>1. Ops(tt) = [i \in 1 .. Len(tt) |-> tt[i].op]
        BY <1>3 DEF Ops
    <2>2. Append(Ops(parts), p.op) =
              [i \in 1 .. (Len(parts) + 1) |-> IF i <= Len(parts) THEN Ops(parts)[i] ELSE p.op]
        BY <1>1, <1>2
    <2>3. \A i \in 1 .. Len(parts) : Ops(parts)[i] = parts[i].op
        BY DEF Ops
    <2> QED
        BY <1>3, <2>1, <2>2, <2>3
<1> QED
    BY <1>2, <1>4 DEF tt

\* Their cells, with those of one more.
LEMMA CellsLast ==
    ASSUME NEW parts \in Seq(Part), NEW p \in Part
    PROVE  /\ AllCells(parts) \in Seq(Cells)
           /\ AllCells(Append(parts, p)) = AllCells(parts) \o p.cells
<1> DEFINE CellsOf(ps) == [i \in DOMAIN ps |-> ps[i].cells]
           tt == Append(parts, p)
<1>1. p.cells \in Seq(Cells) /\ \A q \in Part : q.cells \in Seq(Cells)
    BY DEF Part
<1>2. CellsOf(parts) \in Seq(Seq(Cells)) /\ Len(CellsOf(parts)) = Len(parts)
    BY <1>1
<1>3. /\ tt \in Seq(Part) /\ Len(tt) = Len(parts) + 1 /\ tt[Len(parts) + 1] = p
      /\ \A i \in 1 .. Len(parts) : tt[i] = parts[i]
    OBVIOUS
<1> HIDE DEF tt
<1>4. CellsOf(tt) = Append(CellsOf(parts), p.cells)
    <2>1. CellsOf(tt) = [i \in 1 .. Len(tt) |-> tt[i].cells]
        BY <1>3
    <2>2. \A i \in 1 .. Len(parts) : CellsOf(parts)[i] = parts[i].cells
        OBVIOUS
    <2> HIDE DEF CellsOf
    <2>3. Append(CellsOf(parts), p.cells) =
              [i \in 1 .. (Len(parts) + 1) |->
                  IF i <= Len(parts) THEN CellsOf(parts)[i] ELSE p.cells]
        BY <1>1, <1>2
    <2> QED
        BY <1>3, <2>1, <2>2, <2>3
<1>5. AllCells(parts) = FlattenSeq(CellsOf(parts)) /\ AllCells(tt) = FlattenSeq(CellsOf(tt))
    BY DEF AllCells
<1> HIDE DEF CellsOf
<1>6. /\ FlattenSeq(CellsOf(parts)) \in Seq(Cells)
      /\ FlattenSeq(Append(CellsOf(parts), p.cells)) = FlattenSeq(CellsOf(parts)) \o p.cells
    BY <1>1, <1>2, FlattenLast
<1> QED
    BY <1>4, <1>5, <1>6 DEF tt

\* A line stays whole with an operand that is added whole if there is room, or
\* not at all.
LEMMA WholeLast ==
    ASSUME NEW parts \in Seq(Part), Whole(parts), NEW p \in Part,
           p.cells = <<>> \/ Shown(p),
           Length(parts) + Len(Formatted(p.op)) + kMaxNumericSize <= kBufferSize => Shown(p)
    PROVE  /\ Whole(Append(parts, p))
           /\ Length(parts) \in Nat
           /\ Length(Append(parts, p)) = Length(parts) + Len(Formatted(p.op))
<1> DEFINE tt == Append(parts, p)
<1>1. /\ \A i \in DOMAIN tt : tt[i] = p \/ (i \in DOMAIN parts /\ tt[i] = parts[i])
    OBVIOUS
<1>2. \A q \in Part : Len(Formatted(q.op)) \in Nat
    BY FormattedIs DEF Part
<1>3. Length(parts) \in Nat /\ Length(tt) = Length(parts) + Len(Formatted(p.op))
    BY <1>2, LengthLast
<1> HIDE DEF tt
<1>4. ASSUME NEW i \in DOMAIN tt PROVE tt[i].cells = <<>> \/ Shown(tt[i])
    BY <1>1 DEF Whole
<1>5. ASSUME Length(tt) + kMaxNumericSize <= kBufferSize, NEW i \in DOMAIN tt
      PROVE  Shown(tt[i])
    <2>1. kMaxNumericSize \in Nat /\ kBufferSize \in Nat /\ Len(Formatted(p.op)) \in Nat
        BY <1>2, SizeAssumption, NumericAssumption
    <2>2. /\ Length(parts) + Len(Formatted(p.op)) + kMaxNumericSize <= kBufferSize
          /\ Length(parts) + kMaxNumericSize <= kBufferSize
        BY <1>3, <1>5, <2>1
    <2> QED
        BY <1>1, <1>5, <2>2 DEF Whole
<1> QED
    BY <1>3, <1>4, <1>5 DEF Whole, tt

\* No operands.
LEMMA NoParts == Ops(<<>>) = <<>> /\ AllCells(<<>>) = <<>> /\ Whole(<<>>) /\ Length(<<>>) = 0
<1>1. Ops(<<>>) = <<>>
    BY DEF Ops
<1>2. AllCells(<<>>) = <<>>
    <2>1. [i \in DOMAIN <<>> |-> <<>>[i].cells] = <<>>
        OBVIOUS
    <2>2. FlattenSeq(<<>>) = <<>>
        BY DEF FlattenSeq
    <2> QED
        BY <2>1, <2>2 DEF AllCells
<1>3. Whole(<<>>)
    BY DEF Whole
<1> QED
    BY <1>1, <1>2, <1>3, LengthNone

\* The buffer holds what has been added of a line.
Holds(b, parts) ==
    /\ b \in Buffers(Cells) /\ b.at = 0 /\ InBounds(b)
    /\ b.data = AllCells(parts) /\ Whole(parts)
    /\ Len(b.data) <= Length(parts)

\* And does so when an operand is put there.
LEMMA PutHolds ==
    ASSUME NEW b, NEW parts \in Seq(Part), Holds(b, parts), NEW op \in Operands,
           NEW c, c = put(b, op), NEW p, p = [op |-> op, cells |-> Added(b, c)]
    PROVE  p \in Part /\ Holds(c, Append(parts, p)) /\ ~Overruns(b, op)
<1> USE DEF Holds
<1>1. /\ c \in Buffers(Cells) /\ InBounds(c) /\ c.at = 0
      /\ Added(b, c) \in Seq(Cells) /\ c.data = b.data \o Added(b, c)
      /\ Added(b, c) = <<>> \/ Added(b, c) = Formatted(op)
      /\ Len(b.data) + Len(Formatted(op)) + kMaxNumericSize <= kBufferSize =>
            Added(b, c) = Formatted(op)
      /\ ~Overruns(b, op)
    BY PutAdds
<1>2. p \in Part /\ p.op = op /\ p.cells = Added(b, c)
    BY <1>1 DEF Part
<1>3. Formatted(op) \in Seq(Cells) /\ Len(Formatted(op)) \in Nat
    BY FormattedIs
<1>4. p.cells = Formatted(op) => Shown(p)
    <2>1. Shown([op |-> op, cells |-> Formatted(op)])
        BY FormattedIs
    <2> QED
        BY <1>2, <2>1
<1>5. \A q \in Part : Len(Formatted(q.op)) \in Nat
    BY FormattedIs DEF Part
<1>6. Length(parts) \in Nat
    BY <1>2, <1>5, LengthLast
<1>7. Len(b.data) \in Nat /\ kMaxNumericSize \in Nat /\ kBufferSize \in Nat
    BY SizeAssumption, NumericAssumption DEF Buffers
<1>8. Length(parts) + Len(Formatted(op)) + kMaxNumericSize <= kBufferSize => Shown(p)
    BY <1>1, <1>2, <1>3, <1>4, <1>6, <1>7
<1>9. /\ Whole(Append(parts, p))
      /\ Length(Append(parts, p)) = Length(parts) + Len(Formatted(op))
    BY <1>1, <1>2, <1>4, <1>8, WholeLast
<1>10. c.data = AllCells(Append(parts, p))
    BY <1>1, <1>2, CellsLast
<1>11. Len(c.data) <= Length(Append(parts, p))
    <2>1. Len(c.data) = Len(b.data) + Len(Added(b, c)) /\ b.data \in Seq(Cells)
        BY <1>1 DEF Buffers
    <2>2. Len(Added(b, c)) <= Len(Formatted(op)) /\ Len(Added(b, c)) \in Nat
        BY <1>1, <1>3
    <2> QED
        BY <1>3, <1>6, <1>7, <1>9, <2>1, <2>2
<1> QED
    BY <1>1, <1>2, <1>9, <1>10, <1>11



-----------------------------------------------------------------------------
(* Levels and heads of lines.                                              *)

\* What Rank makes of a level.
LEMMA RankOf ==
    ASSUME NEW k \in 1 .. 5
    PROVE  Rank(Levels[k]) = k
<1>1. /\ DOMAIN Levels = 1 .. 5 /\ Len(Levels) = 5
      /\ \A i, j \in 1 .. 5 : Levels[i] = Levels[j] => i = j
    BY DEF Levels
<1> DEFINE l == Levels[k]
           I == {i \in 1 .. Len(Levels) : Levels[i] = l}
<1>2. I = {k}
    BY <1>1
<1>3. Min(I) = k
    <2>1. \A x : x \in I <=> x = k
        BY <1>2
    <2> HIDE DEF I
    <2>2. \A x : (x \in I /\ \A y \in I : x <= y) => x = k
        BY <2>1
    <2>3. k \in I /\ \A y \in I : k <= y
        BY <2>1
    <2> QED
        BY <2>2, <2>3 DEF Min
<1>4. SelectInSeq(Levels, LAMBDA m : m = l) = k
    <2> HIDE DEF l
    <2> QED
        BY <1>2, <1>3 DEF SelectInSeq
<1> QED
    BY <1>4 DEF Rank

\* The macros let through what has the rank.
LEMMA EnabledIs ==
    ASSUME gLogLevel \in {"TRACE", "DEBUG", "INFO"}, NEW st \in Statements
    PROVE  Enabled(st.level) <=> Rank(gLogLevel) <= Rank(st.level)
<1>1. /\ Levels[1] = "TRACE" /\ Levels[2] = "DEBUG" /\ Levels[3] = "INFO"
      /\ Levels[4] = "WARN" /\ Levels[5] = "ERROR" /\ DOMAIN Levels = 1 .. 5
    BY DEF Levels
<1>2. /\ Rank("TRACE") = 1 /\ Rank("DEBUG") = 2 /\ Rank("INFO") = 3
      /\ Rank("WARN") = 4 /\ Rank("ERROR") = 5
    <2>1. \A k \in 1 .. 5 : Rank(Levels[k]) = k
        BY RankOf
    <2> QED
        BY <1>1, <2>1
<1>3. st.level \in {"TRACE", "DEBUG", "INFO", "WARN", "ERROR"}
    <2>1. PICK k \in 1 .. 5 : st.level = Levels[k]
        BY <1>1, StatementsAssumption DEF Range
    <2> QED
        BY <1>1, <2>1
<1> QED
    BY <1>2, <1>3 DEF Enabled

\* The operands of a statement, its head included.
LEMMA OperandsOfIs ==
    ASSUME NEW st \in Statements
    PROVE  OperandsOf(st) \in Seq(Operands) /\ OperandsOf(st) # Null
<1> DEFINE H == Range(LineHead(st))
<1>1. LineHead(st) \in Seq(H) /\ st.operands \in Seq(Operands)
    <2>1. st.operands \in Seq(Operands)
        BY StatementsAssumption
    <2> DEFINE a == Text(<<"time">>)
               b == Text(<<st.level>>)
               c == Text(get(st.file))
               d == Integer(st.line)
               e == Text(<<" ">>)
    <2>2. LineHead(st) = <<a, b, c, d, e>>
        BY DEF LineHead
    <2> HIDE DEF a, b, c, d, e
    <2>3. <<a, b, c, d, e>> \in Seq({a, b, c, d, e})
        OBVIOUS
    <2>4. LineHead(st) \in Seq({a, b, c, d, e})
        BY <2>2, <2>3
    <2>5. LineHead(st) \in Seq(H)
        BY <2>4, SeqWithin
    <2> QED
        BY <2>1, <2>5
<1>2. OperandsOf(st) \in Seq(H \cup Operands)
    <2> HIDE DEF H
    <2> QED
        BY <1>1 DEF OperandsOf
<1>3. Range(OperandsOf(st)) \subseteq Operands
    BY DEF Operands
<1>4. OperandsOf(st) \in Seq(Operands)
    BY <1>2, <1>3, SeqWithin
<1> QED
    BY <1>4, NullAssumption

-----------------------------------------------------------------------------
(* The inductive invariant.                                                *)

\* It holds at first.
LEMMA InitHolds == Init => IInv
<1> SUFFICES ASSUME Init PROVE IInv
    OBVIOUS
<1> USE DEF Init
<1>1. NewBuffer \in Buffers(Cells) /\ InBounds(NewBuffer) /\ NewBuffer.at = 0 /\ NewBuffer.data = <<>>
    BY SizeAssumption DEF NewBuffer, Buffers, InBounds
<1>2. TypeOK
    <2>1. mBuffer \in [Threads -> Buffers(Cells)] /\ todo \in [Threads -> Seq(Operands) \cup {Null}]
        BY <1>1
    <2>2. added \in [Threads -> Seq(Part)] /\ begun \in [Threads -> Seq(Statements)]
        OBVIOUS
    <2>3. stdout \in Seq(Cells) /\ lines \in Seq([thread : Threads, nth : 1 .. MaxLines, added : Seq(Part)])
        OBVIOUS
    <2>4. \A t \in Threads : Len(begun[t]) <= MaxLines
        BY BoundAssumption
    <2> QED
        BY <2>1, <2>2, <2>3, <2>4 DEF TypeOK
<1>3. LineInv
    BY <1>1, NoParts, SizeAssumption DEF LineInv, InLine
<1>4. LinesAreWhole
    BY DEF LinesAreWhole
<1>5. OutputInOrder
    <2>1. [n \in DOMAIN lines |-> AllCells(lines[n].added)] = <<>>
        OBVIOUS
    <2>2. FlattenSeq(<<>>) = <<>>
        BY DEF FlattenSeq
    <2> QED
        BY <2>1, <2>2 DEF OutputInOrder
<1> QED
    BY <1>2, <1>3, <1>4, <1>5 DEF IInv

\* What LineInv says of one thread.
LineInvOf(t) ==
    /\ Holds(mBuffer[t], added[t])
    /\ IF InLine(t)
       THEN /\ begun[t] # <<>> /\ Enabled(Last(begun[t]).level)
            /\ Ops(added[t]) \o todo[t] = OperandsOf(Last(begun[t]))
       ELSE added[t] = <<>>

\* It is said of all.
LEMMA LineInvIs ==
    ASSUME TypeOK
    PROVE  LineInv <=> \A t \in Threads : LineInvOf(t)
<1>1. \A t \in Threads : mBuffer[t] \in Buffers(Cells)
    BY DEF TypeOK
<1> QED
    BY <1>1, Zenon DEF LineInv, LineInvOf, Holds

\* And after a step.
LEMMA LineInvNext ==
    ASSUME TypeOK', \A t \in Threads : LineInvOf(t)'
    PROVE  LineInv'
<1>1. \A t \in Threads : mBuffer'[t] \in Buffers(Cells)
    BY DEF TypeOK
<1> QED
    BY <1>1, Zenon DEF LineInv, LineInvOf, Holds

\* What OutputInOrder says of one statement of one thread.
Comes(t, k) ==
    (\E n \in DOMAIN lines : lines[n].thread = t /\ lines[n].nth = k) <=>
       /\ k \in DOMAIN begun[t] /\ Rank(gLogLevel) <= Rank(begun[t][k].level)
       /\ k = Len(begun[t]) => ~InLine(t)

\* What the type of lines says of one.
LEMMA LineIs ==
    ASSUME TypeOK, NEW n \in DOMAIN lines
    PROVE  /\ lines[n].thread \in Threads /\ lines[n].nth \in 1 .. MaxLines
           /\ lines[n].added \in Seq(Part)
<1> DEFINE L == [thread : Threads, nth : 1 .. MaxLines, added : Seq(Part)]
<1>1. lines \in Seq(L)
    BY DEF TypeOK
<1> HIDE DEF L
<1>2. lines[n] \in L
    BY <1>1
<1> QED
    BY <1>2 DEF L

\* The first element of the rest goes to the end of what is done.
LEMMA AppendCat ==
    ASSUME NEW X, NEW s \in Seq(X), NEW e \in X, NEW rest \in Seq(X)
    PROVE  Append(s, e) \o rest = s \o (<<e>> \o rest)
OBVIOUS

\* To begin a line keeps the invariant.
LEMMA BeginLineHolds ==
    ASSUME IInv, NEW t \in Threads, NEW st \in Statements, BeginLine(t, st)
    PROVE  IInv'
<1> USE DEF IInv
<1>1. /\ todo[t] = Null /\ Len(begun[t]) < MaxLines
      /\ begun' = [begun EXCEPT ![t] = Append(@, st)]
      /\ todo' = IF Enabled(st.level) THEN [todo EXCEPT ![t] = OperandsOf(st)] ELSE todo
      /\ UNCHANGED <<gLogLevel, mBuffer, stdout, added, lines, overrun>>
    BY Zenon DEF BeginLine
<1>2. OperandsOf(st) \in Seq(Operands) /\ OperandsOf(st) # Null
    BY OperandsOfIs
<1>3. /\ todo \in [Threads -> Seq(Operands) \cup {Null}]
      /\ begun \in [Threads -> Seq(Statements)]
      /\ \A u \in Threads : Len(begun[u]) <= MaxLines
      /\ MaxLines \in Nat
    BY BoundAssumption DEF TypeOK
<1> DEFINE mine == Append(begun[t], st)
<1>4. /\ mine \in Seq(Statements) /\ Len(mine) = Len(begun[t]) + 1
      /\ Len(begun[t]) \in Nat /\ mine[Len(begun[t]) + 1] = st
      /\ \A i \in DOMAIN begun[t] : mine[i] = begun[t][i]
      /\ DOMAIN begun[t] = 1 .. Len(begun[t]) /\ DOMAIN mine = 1 .. (Len(begun[t]) + 1)
      /\ mine # <<>> /\ Last(mine) = st
    BY <1>3 DEF Last
<1>5. /\ begun'[t] = mine
      /\ todo'[t] = IF Enabled(st.level) THEN OperandsOf(st) ELSE Null
      /\ \A u \in Threads \ {t} : begun'[u] = begun[u] /\ todo'[u] = todo[u]
    BY <1>1, <1>3
<1> HIDE DEF mine
<1>6. TypeOK'
    <2>1. todo' \in [Threads -> Seq(Operands) \cup {Null}]
        BY <1>1, <1>2, <1>3
    <2>2. begun' \in [Threads -> Seq(Statements)]
        BY <1>1, <1>3, <1>4 DEF mine
    <2>3. \A u \in Threads : Len(begun'[u]) <= MaxLines
        BY <1>1, <1>3, <1>4, <1>5
    <2> QED
        BY <1>1, <2>1, <2>2, <2>3 DEF TypeOK
<1>7. ASSUME NEW u \in Threads PROVE LineInvOf(u)'
    <2>1. LineInvOf(u)
        BY <1>7, LineInvIs
    <2>2. Holds(mBuffer[u], added[u])'
        BY <1>1, <2>1 DEF LineInvOf
    <2>3. CASE u # t
        BY <1>1, <1>5, <2>1, <2>3 DEF LineInvOf, InLine, Enabled
    <2>4. CASE u = t
        <3>1. added[t] = <<>> /\ added'[t] = <<>>
            BY <1>1, <2>1, <2>4 DEF LineInvOf, InLine
        <3>2. CASE Enabled(st.level)
            <4>1. Ops(<<>>) \o OperandsOf(st) = OperandsOf(st)
                BY <1>2, NoParts
            <4>2. Enabled(st.level)'
                BY <1>1, <3>2 DEF Enabled
            <4> QED
                BY <1>4, <1>5, <2>2, <2>4, <3>1, <3>2, <4>1, <4>2 DEF LineInvOf
        <3>3. CASE ~Enabled(st.level)
            BY <1>5, <2>2, <2>4, <3>1, <3>3 DEF LineInvOf, InLine
        <3> QED
            BY <3>2, <3>3
    <2> QED
        BY <2>3, <2>4
<1>8. LineInv'
    BY <1>6, <1>7, LineInvNext
<1>9. \A n \in DOMAIN lines :
          /\ lines[n].thread \in Threads /\ lines[n].nth \in 1 .. MaxLines
          /\ lines[n].nth \in DOMAIN begun[lines[n].thread]
          /\ begun'[lines[n].thread][lines[n].nth] = begun[lines[n].thread][lines[n].nth]
    <2> SUFFICES ASSUME NEW n \in DOMAIN lines
                 PROVE  /\ lines[n].thread \in Threads /\ lines[n].nth \in 1 .. MaxLines
                        /\ lines[n].nth \in DOMAIN begun[lines[n].thread]
                        /\ begun'[lines[n].thread][lines[n].nth] =
                               begun[lines[n].thread][lines[n].nth]
        OBVIOUS
    <2>1. lines[n].thread \in Threads /\ lines[n].nth \in 1 .. MaxLines
        BY LineIs
    <2>2. Comes(lines[n].thread, lines[n].nth)
        BY <2>1 DEF OutputInOrder, Comes
    <2>3. lines[n].nth \in DOMAIN begun[lines[n].thread]
        BY <2>2 DEF Comes
    <2> QED
        BY <1>4, <1>5, <2>1, <2>3
<1>10. LinesAreWhole'
    <2>1. lines' = lines /\ overrun' = overrun
        BY <1>1
    <2> QED
        BY <1>9, <2>1, Zenon DEF LinesAreWhole
<1>11. ASSUME NEW u \in Threads, NEW k \in 1 .. MaxLines PROVE Comes(u, k)'
    <2>1. Comes(u, k)
        BY DEF OutputInOrder, Comes
    <2>2. lines' = lines /\ gLogLevel' = gLogLevel
        BY <1>1
    <2>3. CASE u # t
        BY <1>5, <2>1, <2>2, <2>3 DEF Comes, InLine
    <2>4. CASE u = t /\ k # Len(begun[t]) + 1
        <3>1. /\ k \in DOMAIN begun'[t] <=> k \in DOMAIN begun[t]
              /\ k \in DOMAIN begun[t] => begun'[t][k] = begun[t][k]
              /\ k # Len(begun'[t])
            BY <1>4, <1>5, <2>4
        <3>2. ~InLine(t)
            BY <1>1 DEF InLine
        <3> QED
            BY <2>1, <2>2, <2>4, <3>1, <3>2 DEF Comes
    <2>5. CASE u = t /\ k = Len(begun[t]) + 1
        <3>1. k \notin DOMAIN begun[t] /\ begun'[t][k] = st /\ k = Len(begun'[t])
            BY <1>4, <1>5, <2>5
        <3>2. ~\E n \in DOMAIN lines' : lines'[n].thread = t /\ lines'[n].nth = k
            BY <2>1, <2>2, <2>5, <3>1 DEF Comes
        <3>3. CASE Enabled(st.level)
            <4>1. InLine(t)'
                BY <1>2, <1>5, <3>3 DEF InLine
            <4> QED
                BY <2>5, <3>1, <3>2, <4>1 DEF Comes
        <3>4. CASE ~Enabled(st.level)
            <4>1. gLogLevel \in {"TRACE", "DEBUG", "INFO"}
                BY DEF TypeOK
            <4>2. ~(Rank(gLogLevel) <= Rank(st.level))
                BY <3>4, <4>1, EnabledIs
            <4> QED
                BY <2>2, <2>5, <3>1, <3>2, <4>2 DEF Comes
        <3> QED
            BY <3>3, <3>4
    <2> QED
        BY <2>3, <2>4, <2>5
<1>12. OutputInOrder'
    <2>1. lines' = lines /\ stdout' = stdout
        BY <1>1
    <2> QED
        BY <1>11, <2>1, Zenon DEF OutputInOrder, Comes
<1> QED
    BY <1>6, <1>8, <1>10, <1>12


\* To write an operand keeps the invariant.
LEMMA PutKeeps ==
    ASSUME IInv, NEW t \in Threads, Put(t)
    PROVE  IInv'
<1> USE DEF IInv
<1> DEFINE op == todo[t][1]
           c == put(mBuffer[t], op)
           p == [op |-> op, cells |-> Added(mBuffer[t], c)]
<1>1. /\ todo[t] # Null /\ todo[t] # <<>>
      /\ mBuffer' = [mBuffer EXCEPT ![t] = c]
      /\ added' = [added EXCEPT ![t] = Append(@, p)]
      /\ overrun' = (overrun \/ Overruns(mBuffer[t], op))
      /\ todo' = [todo EXCEPT ![t] = Tail(@)]
      /\ UNCHANGED <<gLogLevel, stdout, lines, begun>>
    BY DEF Put, InLine
<1>2. /\ todo \in [Threads -> Seq(Operands) \cup {Null}]
      /\ mBuffer \in [Threads -> Buffers(Cells)]
      /\ added \in [Threads -> Seq(Part)]
    BY DEF TypeOK
<1>3. /\ todo[t] \in Seq(Operands) /\ op \in Operands
      /\ Tail(todo[t]) \in Seq(Operands) /\ todo[t] = <<op>> \o Tail(todo[t])
    BY <1>1, <1>2
<1>4. Tail(todo[t]) # Null
    BY <1>3, NullAssumption
<1>5. LineInvOf(t)
    BY LineInvIs
<1>6. /\ p \in Part /\ Holds(c, Append(added[t], p)) /\ ~Overruns(mBuffer[t], op)
    <2>1. Holds(mBuffer[t], added[t]) /\ added[t] \in Seq(Part)
        BY <1>2, <1>5 DEF LineInvOf
    <2> HIDE DEF op
    <2> QED
        BY <1>3, <2>1, PutHolds
<1>7. p.op = op
    OBVIOUS
<1> HIDE DEF p, c, op
<1>8. /\ mBuffer'[t] = c /\ added'[t] = Append(added[t], p) /\ todo'[t] = Tail(todo[t])
      /\ \A u \in Threads \ {t} :
            mBuffer'[u] = mBuffer[u] /\ added'[u] = added[u] /\ todo'[u] = todo[u]
    BY <1>1, <1>2
<1>9. overrun' = FALSE
    BY <1>1, <1>6 DEF LinesAreWhole
<1>10. TypeOK'
    <2>1. c \in Buffers(Cells)
        BY <1>6 DEF Holds
    <2>2. Append(added[t], p) \in Seq(Part)
        BY <1>2, <1>6
    <2>3. mBuffer' \in [Threads -> Buffers(Cells)] /\ added' \in [Threads -> Seq(Part)]
        BY <1>1, <1>2, <2>1, <2>2
    <2>4. todo' \in [Threads -> Seq(Operands) \cup {Null}]
        BY <1>1, <1>2, <1>3
    <2> QED
        BY <1>1, <1>9, <2>3, <2>4 DEF TypeOK
<1>11. ASSUME NEW u \in Threads PROVE LineInvOf(u)'
    <2>1. LineInvOf(u)
        BY <1>11, LineInvIs
    <2>2. CASE u # t
        BY <1>1, <1>8, <2>1, <2>2 DEF LineInvOf, InLine, Enabled, Holds
    <2>3. CASE u = t
        <3>1. Holds(mBuffer[t], added[t])'
            BY <1>6, <1>8 DEF Holds
        <3>2. /\ InLine(t) /\ InLine(t)'
              /\ begun'[t] = begun[t] /\ Enabled(Last(begun[t]).level)'
            BY <1>1, <1>4, <1>5, <1>8 DEF LineInvOf, InLine, Enabled
        <3>3. Ops(added'[t]) \o todo'[t] = OperandsOf(Last(begun[t]))
            <4>1. Ops(added[t]) \in Seq(Operands) /\ Ops(added'[t]) = Append(Ops(added[t]), op)
                BY <1>2, <1>6, <1>7, <1>8, OpsLast
            <4>2. Ops(added[t]) \o todo[t] = OperandsOf(Last(begun[t]))
                BY <1>5, <3>2 DEF LineInvOf
            <4> DEFINE done == Ops(added[t])
                       rest == Tail(todo[t])
            <4>3. done \in Seq(Operands) /\ rest \in Seq(Operands) /\ todo[t] = <<op>> \o rest
                BY <1>3, <4>1
            <4> HIDE DEF done, rest
            <4>4. Append(done, op) \o rest = done \o (<<op>> \o rest)
                BY <1>3, <4>3, AppendCat
            <4> QED
                BY <1>8, <4>1, <4>2, <4>3, <4>4 DEF done, rest
        <3>4. begun[t] # <<>>
            BY <1>5, <3>2 DEF LineInvOf
        <3> QED
            BY <2>3, <3>1, <3>2, <3>3, <3>4 DEF LineInvOf
    <2> QED
        BY <2>2, <2>3
<1>12. LineInv'
    BY <1>10, <1>11, LineInvNext
<1>13. LinesAreWhole'
    <2>1. lines' = lines /\ begun' = begun
        BY <1>1
    <2> QED
        BY <1>9, <2>1, Zenon DEF LinesAreWhole
<1>14. ASSUME NEW u \in Threads PROVE InLine(u)' <=> InLine(u)
    BY <1>1, <1>4, <1>8 DEF InLine
<1>15. ASSUME NEW u \in Threads, NEW k \in 1 .. MaxLines PROVE Comes(u, k)'
    <2>1. Comes(u, k)
        BY DEF OutputInOrder, Comes
    <2>2. lines' = lines /\ gLogLevel' = gLogLevel /\ begun' = begun
        BY <1>1
    <2> QED
        BY <1>14, <2>1, <2>2, Zenon DEF Comes
<1>16. OutputInOrder'
    <2>1. lines' = lines /\ stdout' = stdout
        BY <1>1
    <2> QED
        BY <1>15, <2>1, Zenon DEF OutputInOrder, Comes
<1> QED
    BY <1>10, <1>12, <1>13, <1>16

\* A sequence with one element more.
LEMMA AppendIs ==
    ASSUME NEW X, NEW s \in Seq(X), NEW e \in X
    PROVE  Append(s, e) = [n \in 1 .. (Len(s) + 1) |-> IF n <= Len(s) THEN s[n] ELSE e]
<1> DEFINE t == Append(s, e)
<1>1. /\ t \in Seq(X) /\ Len(t) = Len(s) + 1 /\ Len(s) \in Nat /\ t[Len(s) + 1] = e
      /\ \A n \in 1 .. Len(s) : t[n] = s[n]
    OBVIOUS
<1> HIDE DEF t
<1>2. t = [n \in 1 .. (Len(s) + 1) |-> t[n]]
    BY <1>1
<1>3. \A n \in 1 .. (Len(s) + 1) : t[n] = IF n <= Len(s) THEN s[n] ELSE e
    BY <1>1
<1> QED
    BY <1>2, <1>3 DEF t

\* What stdout is made of, with one line more.
LEMMA LinesLast ==
    ASSUME TypeOK, NEW line, line.added \in Seq(Part)
    PROVE  FlattenSeq([n \in DOMAIN Append(lines, line) |->
                          AllCells(Append(lines, line)[n].added)]) =
           FlattenSeq([n \in DOMAIN lines |-> AllCells(lines[n].added)]) \o AllCells(line.added)
<1> DEFINE Of(ls) == [n \in DOMAIN ls |-> AllCells(ls[n].added)]
           tt == Append(lines, line)
           x == AllCells(line.added)
<1>1. \A parts \in Seq(Part) : AllCells(parts) \in Seq(Cells)
    <2>1. ASSUME NEW parts \in Seq(Part) PROVE AllCells(parts) \in Seq(Cells)
        <3>1. CASE parts = <<>>
            <4>1. <<>> \in Seq(Cells)
                OBVIOUS
            <4> QED
                BY <3>1, <4>1, NoParts
        <3>2. CASE parts # <<>>
            <4>1. parts[1] \in Part
                BY <3>2
            <4> QED
                BY <4>1, CellsLast
        <3> QED
            BY <3>1, <3>2
    <2> QED
        BY <2>1
<1>2. x \in Seq(Cells)
    BY <1>1
<1>3. \A n \in DOMAIN lines : AllCells(lines[n].added) \in Seq(Cells)
    BY <1>1, LineIs
<1>4. lines \in Seq([thread : Threads, nth : 1 .. MaxLines, added : Seq(Part)])
    BY DEF TypeOK
<1> HIDE DEF x
<1>5. Of(lines) \in Seq(Seq(Cells)) /\ Len(Of(lines)) = Len(lines) /\ Len(lines) \in Nat
    <2>1. Len(lines) \in Nat /\ DOMAIN lines = 1 .. Len(lines)
        BY <1>4
    <2>2. Of(lines) \in [1 .. Len(lines) -> Seq(Cells)]
        BY <1>3, <2>1
    <2> HIDE DEF Of
    <2> QED
        BY <2>1, <2>2
<1>6. /\ DOMAIN tt = 1 .. (Len(lines) + 1) /\ tt[Len(lines) + 1] = line
      /\ \A i \in 1 .. Len(lines) : tt[i] = lines[i]
    BY <1>4
<1>7. \A i \in 1 .. Len(lines) : Of(lines)[i] = AllCells(lines[i].added)
    BY <1>4
<1> HIDE DEF tt
<1>8. Of(tt) = Append(Of(lines), x)
    <2>1. Of(tt) = [n \in 1 .. (Len(lines) + 1) |-> AllCells(tt[n].added)]
        BY <1>6
    <2> HIDE DEF Of
    <2>2. Append(Of(lines), x) =
              [n \in 1 .. (Len(lines) + 1) |-> IF n <= Len(lines) THEN Of(lines)[n] ELSE x]
        BY <1>2, <1>5, AppendIs
    <2>3. \A n \in 1 .. (Len(lines) + 1) :
              AllCells(tt[n].added) = IF n <= Len(lines) THEN Of(lines)[n] ELSE x
        BY <1>4, <1>6, <1>7 DEF x
    <2> QED
        BY <2>1, <2>2, <2>3
<1> HIDE DEF Of
<1>9. FlattenSeq(Append(Of(lines), x)) = FlattenSeq(Of(lines)) \o x
    BY <1>2, <1>5, FlattenLast
<1> QED
    BY <1>8, <1>9 DEF Of, tt, x


\* To end a line keeps the invariant.
LEMMA EndLineKeeps ==
    ASSUME IInv, NEW t \in Threads, EndLine(t)
    PROVE  IInv'
<1> USE DEF IInv
<1> DEFINE b == put(mBuffer[t], Newline)
           p == [op |-> Newline, cells |-> Added(mBuffer[t], b)]
           line == [thread |-> t, nth |-> Len(begun[t]), added |-> Append(added[t], p)]
           N == Len(lines) + 1
           K == Len(begun[t])
<1>1. /\ todo[t] # Null /\ todo[t] = <<>>
      /\ stdout' = stdout \o b.data
      /\ lines' = Append(lines, line)
      /\ mBuffer' = [mBuffer EXCEPT ![t] = NewBuffer]
      /\ added' = [added EXCEPT ![t] = <<>>]
      /\ todo' = [todo EXCEPT ![t] = Null]
      /\ UNCHANGED <<gLogLevel, begun, overrun>>
    BY DEF EndLine, InLine, Output
<1>2. /\ todo \in [Threads -> Seq(Operands) \cup {Null}]
      /\ mBuffer \in [Threads -> Buffers(Cells)]
      /\ added \in [Threads -> Seq(Part)]
      /\ begun \in [Threads -> Seq(Statements)]
      /\ lines \in Seq([thread : Threads, nth : 1 .. MaxLines, added : Seq(Part)])
      /\ stdout \in Seq(Cells)
      /\ Len(begun[t]) <= MaxLines
    BY DEF TypeOK
<1>3. LineInvOf(t) /\ InLine(t)
    BY <1>1, LineInvIs DEF InLine
<1>4. Newline \in Operands
    BY DEF Operands
<1>5. p \in Part /\ p.op = Newline /\ Holds(b, Append(added[t], p))
    <2>1. Holds(mBuffer[t], added[t]) /\ added[t] \in Seq(Part)
        BY <1>2, <1>3 DEF LineInvOf
    <2>2. p.op = Newline
        OBVIOUS
    <2> QED
        BY <1>4, <2>1, <2>2, PutHolds
<1>6. Append(added[t], p) \in Seq(Part) /\ added[t] \in Seq(Part)
    BY <1>2, <1>5
<1>7. /\ line.thread = t /\ line.nth = K /\ line.added = Append(added[t], p)
    OBVIOUS
<1>8. begun[t] # <<>> /\ K \in 1 .. MaxLines /\ DOMAIN begun[t] = 1 .. K /\ Last(begun[t]) = begun[t][K]
    <2>1. begun[t] # <<>> /\ begun[t] \in Seq(Statements)
        BY <1>2, <1>3 DEF LineInvOf
    <2> QED
        BY <1>2, <2>1, BoundAssumption DEF Last
<1> HIDE DEF b, p
<1>9. line \in [thread : Threads, nth : 1 .. MaxLines, added : Seq(Part)]
    BY <1>6, <1>8
<1> HIDE DEF line
<1>10. /\ DOMAIN lines' = 1 .. N /\ lines'[N] = line /\ N \in 1 .. N
       /\ \A n \in DOMAIN lines : lines'[n] = lines[n] /\ n \in 1 .. N /\ n < N
       /\ \A n \in 1 .. N : n \in DOMAIN lines \/ n = N
       /\ DOMAIN lines = 1 .. Len(lines) /\ N \in Nat
    <2> DEFINE L == [thread : Threads, nth : 1 .. MaxLines, added : Seq(Part)]
    <2>1. lines' = Append(lines, line) /\ lines \in Seq(L) /\ line \in L
        BY <1>1, <1>2, <1>9
    <2> HIDE DEF L
    <2> QED
        BY <2>1
<1> HIDE DEF K, N
<1>11. /\ mBuffer'[t] = NewBuffer /\ added'[t] = <<>> /\ todo'[t] = Null
       /\ \A u \in Threads \ {t} :
             mBuffer'[u] = mBuffer[u] /\ added'[u] = added[u] /\ todo'[u] = todo[u]
    BY <1>1, <1>2
<1>12. NewBuffer \in Buffers(Cells) /\ Holds(NewBuffer, <<>>)
    BY SizeAssumption, NoParts DEF NewBuffer, Buffers, InBounds, Holds
<1>13. TypeOK'
    <2>1. mBuffer' \in [Threads -> Buffers(Cells)]
        BY <1>1, <1>2, <1>12
    <2>2. <<>> \in Seq(Part)
        OBVIOUS
    <2>3. added' \in [Threads -> Seq(Part)]
        BY <1>1, <1>2, <2>2
    <2>4. todo' \in [Threads -> Seq(Operands) \cup {Null}]
        BY <1>1, <1>2
    <2>5. stdout' \in Seq(Cells)
        BY <1>1, <1>2, <1>5 DEF Holds, Buffers
    <2>6. lines' \in Seq([thread : Threads, nth : 1 .. MaxLines, added : Seq(Part)])
        BY <1>1, <1>2, <1>9
    <2> QED
        BY <1>1, <2>1, <2>3, <2>4, <2>5, <2>6 DEF TypeOK
<1>14. ASSUME NEW u \in Threads PROVE LineInvOf(u)'
    <2>1. LineInvOf(u)
        BY <1>14, LineInvIs
    <2>2. CASE u # t
        BY <1>1, <1>11, <2>1, <2>2 DEF LineInvOf, InLine, Enabled, Holds
    <2>3. CASE u = t
        <3>1. Holds(mBuffer[t], added[t])'
            BY <1>11, <1>12 DEF Holds
        <3> QED
            BY <1>11, <2>3, <3>1 DEF LineInvOf, InLine
    <2> QED
        BY <2>2, <2>3
<1>15. LineInv'
    BY <1>13, <1>14, LineInvNext
<1>16. LinesAreWhole'
    <2>1. Whole(line.added)
        BY <1>5, <1>7 DEF Holds
    <2>2. Ops(line.added) = OperandsOf(begun[t][K]) \o <<Newline>>
        <3>1. Ops(added[t]) \in Seq(Operands) /\ Ops(line.added) = Append(Ops(added[t]), Newline)
            BY <1>2, <1>5, <1>7, OpsLast
        <3>2. Ops(added[t]) \o <<>> = OperandsOf(begun[t][K])
            BY <1>1, <1>3, <1>8 DEF LineInvOf
        <3>3. Ops(added[t]) = OperandsOf(begun[t][K])
            BY <3>1, <3>2
        <3> DEFINE done == Ops(added[t])
                   e == Newline
        <3>4. done \in Seq(Operands) /\ e \in Operands
            BY <1>4, <3>1
        <3> HIDE DEF done, e
        <3>5. Append(done, e) = done \o <<e>>
            BY <3>4
        <3> QED
            BY <3>1, <3>3, <3>5 DEF done, e
    <2>3. ~overrun' /\ begun' = begun
        BY <1>1 DEF LinesAreWhole
    <2>4. ASSUME NEW n \in DOMAIN lines'
          PROVE  /\ Whole(lines'[n].added)
                 /\ Ops(lines'[n].added) =
                       OperandsOf(begun'[lines'[n].thread][lines'[n].nth]) \o <<Newline>>
        <3>1. CASE n \in DOMAIN lines
            BY <1>10, <2>3, <3>1 DEF LinesAreWhole
        <3>2. CASE n = N
            BY <1>7, <1>10, <2>1, <2>2, <2>3, <3>2
        <3> QED
            BY <1>10, <3>1, <3>2
    <2> QED
        BY <2>3, <2>4, Zenon DEF LinesAreWhole
<1>17. \A u \in Threads, k \in 1 .. MaxLines : Comes(u, k)
    BY DEF OutputInOrder, Comes
<1>18. ASSUME NEW n \in DOMAIN lines, lines[n].thread = t PROVE lines[n].nth < K
    <2>1. lines[n].nth \in 1 .. MaxLines
        BY <1>18, LineIs
    <2>2. Comes(t, lines[n].nth)
        BY <1>17, <2>1
    <2>3. lines[n].nth \in DOMAIN begun[t] /\ (lines[n].nth = K => ~InLine(t))
        BY <1>18, <2>2 DEF Comes, K
    <2> QED
        BY <1>3, <1>8, <2>1, <2>3
<1>19. ASSUME NEW m \in DOMAIN lines', NEW n \in DOMAIN lines',
              m < n, lines'[m].thread = lines'[n].thread
       PROVE  lines'[m].nth < lines'[n].nth
    <2>1. m \in DOMAIN lines /\ lines'[m] = lines[m]
        BY <1>10, <1>19
    <2>2. CASE n \in DOMAIN lines
        BY <1>10, <1>19, <2>1, <2>2 DEF OutputInOrder
    <2>3. CASE n = N
        BY <1>7, <1>10, <1>18, <1>19, <2>1, <2>3
    <2> QED
        BY <1>10, <2>2, <2>3
<1>20. ASSUME NEW u \in Threads, NEW k \in 1 .. MaxLines PROVE Comes(u, k)'
    <2>1. Comes(u, k)
        BY <1>17
    <2>2. begun' = begun /\ gLogLevel' = gLogLevel
        BY <1>1
    <2>3. CASE u # t
        <3>1. (\E n \in DOMAIN lines' : lines'[n].thread = u /\ lines'[n].nth = k) <=>
              (\E n \in DOMAIN lines : lines[n].thread = u /\ lines[n].nth = k)
            BY <1>7, <1>10, <2>3
        <3>2. InLine(u)' <=> InLine(u)
            BY <1>11, <2>3 DEF InLine
        <3> QED
            BY <2>1, <2>2, <3>1, <3>2, Zenon DEF Comes
    <2>4. CASE u = t /\ k # K
        <3>1. (\E n \in DOMAIN lines' : lines'[n].thread = u /\ lines'[n].nth = k) <=>
              (\E n \in DOMAIN lines : lines[n].thread = u /\ lines[n].nth = k)
            BY <1>7, <1>10, <2>4
        <3> QED
            BY <2>1, <2>2, <2>4, <3>1, Zenon DEF Comes, K
    <2>5. CASE u = t /\ k = K
        <3>1. \E n \in DOMAIN lines' : lines'[n].thread = u /\ lines'[n].nth = k
            BY <1>7, <1>10, <2>5
        <3>2. ~InLine(t)'
            BY <1>11 DEF InLine
        <3>3. K \in DOMAIN begun[t] /\ Rank(gLogLevel) <= Rank(begun[t][K].level)
            <4>1. begun[t][K] \in Statements /\ K \in DOMAIN begun[t]
                BY <1>2, <1>8
            <4>2. Enabled(begun[t][K].level)
                BY <1>3, <1>8 DEF LineInvOf
            <4>3. gLogLevel \in {"TRACE", "DEBUG", "INFO"}
                BY DEF TypeOK
            <4> QED
                BY <4>1, <4>2, <4>3, EnabledIs
        <3> QED
            BY <2>2, <2>5, <3>1, <3>2, <3>3, Zenon DEF Comes
    <2> QED
        BY <2>3, <2>4, <2>5
<1>21. stdout' = FlattenSeq([n \in DOMAIN lines' |-> AllCells(lines'[n].added)])
    <2>1. stdout = FlattenSeq([n \in DOMAIN lines |-> AllCells(lines[n].added)])
        BY Zenon DEF OutputInOrder
    <2>2. b.data = AllCells(line.added)
        BY <1>5, <1>7 DEF Holds
    <2>3. line.added \in Seq(Part)
        BY <1>6, <1>7
    <2>4. FlattenSeq([n \in DOMAIN Append(lines, line) |->
                          AllCells(Append(lines, line)[n].added)]) =
          FlattenSeq([n \in DOMAIN lines |-> AllCells(lines[n].added)]) \o AllCells(line.added)
        BY <2>3, LinesLast
    <2> QED
        BY <1>1, <2>1, <2>2, <2>4, Zenon
<1>22. OutputInOrder'
    BY <1>19, <1>20, <1>21, Zenon DEF OutputInOrder, Comes
<1> QED
    BY <1>13, <1>15, <1>16, <1>22

\* Every step keeps the invariant.
LEMMA NextHolds == IInv /\ [Next]_vars => IInv'
<1> SUFFICES ASSUME IInv, [Next]_vars PROVE IInv'
    OBVIOUS
<1>1. ASSUME NEW t \in Threads, Put(t) PROVE IInv'
    BY <1>1, PutKeeps
<1>2. ASSUME NEW t \in Threads, EndLine(t) PROVE IInv'
    BY <1>2, EndLineKeeps
<1>3. ASSUME NEW t \in Threads, NEW st \in Statements, BeginLine(t, st) PROVE IInv'
    BY <1>3, BeginLineHolds
<1>4. CASE UNCHANGED vars
    <2>1. TypeOK'
        BY <1>4 DEF vars, IInv, TypeOK
    <2>2. LineInv'
        BY <1>4 DEF vars, IInv, LineInv, InLine, Enabled
    <2>3. LinesAreWhole'
        BY <1>4 DEF vars, IInv, LinesAreWhole
    <2>4. OutputInOrder'
        BY <1>4 DEF vars, IInv, OutputInOrder, InLine
    <2> QED
        BY <2>1, <2>2, <2>3, <2>4 DEF IInv
<1> QED
    BY <1>1, <1>2, <1>3, <1>4 DEF Next

-----------------------------------------------------------------------------
(* The theorems.                                                           *)

\* The inductive invariant: the buffer of every thread is what has been added
\* of its line, and the rest of the line is still to come.
THEOREM InductiveInv == Spec => []IInv
<1>1. Init => IInv
    BY InitHolds
<1>2. IInv /\ [Next]_vars => IInv'
    BY NextHolds
<1> QED
    BY <1>1, <1>2, PTL DEF Spec

\* Each line has the operands of its statement in order, each whole or not at
\* all, all of them if there is room, numbers read as what they are, and no
\* number is written past the end of the buffer (LogStream.cpp:38-45): for any
\* number of threads, any statements and any size of the buffer.
THEOREM LinesComeOutWhole == Spec => []LinesAreWhole
<1>1. IInv => LinesAreWhole
    BY DEF IInv
<1> QED
    BY <1>1, InductiveInv, PTL

\* stdout has the lines one after the other, unmixed, those of a thread in its
\* order, of exactly the statements the level lets through (Logger.h:13-19).
THEOREM LinesComeOutInOrder == Spec => []OutputInOrder
<1>1. IInv => OutputInOrder
    BY DEF IInv
<1> QED
    BY <1>1, InductiveInv, PTL
=============================================================================
