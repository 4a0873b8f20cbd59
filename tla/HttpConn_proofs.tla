--------------------------- MODULE HttpConn_proofs ---------------------------
(***************************************************************************)
(* Proofs about HttpConn, for any streams, replies, sizes of the buffer    *)
(* and of the socket: the bytes of both directions stay intact, the parser *)
(* agrees with the flat definition of a request wherever the stream is cut *)
(* into reads, answers are due, and nothing is cut short.                  *)
(***************************************************************************)
EXTENDS HttpConn, FixedBuffer_proofs, SequenceTheorems, WellFoundedInduction, TLAPS

\* A non-empty set of naturals has a least element.
LEMMA LeastOfSet ==
    ASSUME NEW S \in SUBSET Nat, S # {}
    PROVE Min(S) \in S /\ \A n \in S : Min(S) <= n
<1> DEFINE R == {ss \in Nat \X Nat : ss[1] < ss[2]}
<1>1. IsWellFoundedOn(R, Nat) BY NatLessThanWellFounded DEF OpToRel
<1>2. \A x \in Nat, y \in Nat : <<y, x>> \notin R => x <= y OBVIOUS
<1> HIDE DEF R
<1>3. PICK x \in S : \A y \in S : <<y, x>> \notin R BY <1>1, WFMin
<1>4. \A y \in S : x <= y BY <1>2, <1>3
<1> QED BY <1>4 DEF Min

\* A non-empty bounded set of naturals has a greatest element.
LEMMA GreatestOfSet ==
    ASSUME NEW n \in Nat, NEW S \in SUBSET (0 .. n), S # {}
    PROVE Max(S) \in S /\ \A x \in S : x <= Max(S)
<1> DEFINE T == {n - x : x \in S}
<1>1. T \in SUBSET Nat /\ T # {}
  <2>1. \A x \in S : x \in 0 .. n OBVIOUS
  <2>2. \A x \in S : n - x \in Nat BY <2>1
  <2> QED BY <2>2
<1>2. Min(T) \in T /\ \A y \in T : Min(T) <= y
  <2> HIDE DEF T
  <2> QED BY <1>1, LeastOfSet
<1>3. PICK m \in S : Min(T) = n - m BY <1>2
<1>4. \A x \in S : x <= m
  <2> TAKE x \in S
  <2>1. n - m <= n - x BY <1>2, <1>3
  <2> QED BY <2>1
<1>5. \A x \in S : m >= x BY <1>4
<1> HIDE DEF T
<1> QED BY <1>4, <1>5 DEF Max

-----------------------------------------------------------------------------
(* The text.  What LineEnds, LineBefore and the rest say of the first n    *)
(* cells of s, in terms of s and n.                                        *)

\* The line ends among the first n cells, and the line that ends at e.
Ends(s, n) == {i \in 2 .. n : s[i - 1] = "cr" /\ s[i] = "lf"}
LineOf(s, e) == SubSeq(s, Max(Ends(s, e - 1) \cup {0}) + 1, e - 2)
Prefix(s, n) == SubSeq(s, 1, n)

\* The cells of a prefix.
LEMMA PrefixCells ==
    ASSUME NEW S, NEW s \in Seq(S), NEW n \in 0 .. Len(s)
    PROVE /\ Prefix(s, n) \in Seq(S) /\ Len(Prefix(s, n)) = n
          /\ DOMAIN Prefix(s, n) = 1 .. n
          /\ \A i \in 1 .. n : Prefix(s, n)[i] = s[i]
BY DEF Prefix

\* Where the line that ends at e begins.
LEMMA LineStart ==
    ASSUME NEW s, NEW e \in Nat \ {0}
    PROVE /\ Max(Ends(s, e - 1) \cup {0}) \in 0 .. e - 1
          /\ Max(Ends(s, e - 1) \cup {0}) \in Ends(s, e - 1) \cup {0}
          /\ \A d \in Ends(s, e - 1) : d <= Max(Ends(s, e - 1) \cup {0})
<1> DEFINE E == Ends(s, e - 1) \cup {0}
<1>1. E \in SUBSET (0 .. e - 1) /\ E # {} BY DEF Ends
<1>2. e - 1 \in Nat OBVIOUS
<1>3. Max(E) \in E /\ \A x \in E : x <= Max(E)
  <2> HIDE DEF E
  <2> QED BY <1>1, <1>2, GreatestOfSet
<1> QED BY <1>1, <1>3

\* LineEnds and LineBefore of a prefix.
LEMMA TextOfPrefix ==
    ASSUME NEW s \in Seq(Cell), NEW n \in 0 .. Len(s)
    PROVE /\ LineEnds(Prefix(s, n)) = Ends(s, n)
          /\ \A e \in Ends(s, n) : LineBefore(Prefix(s, n), e) = LineOf(s, e)
<1> DEFINE p == Prefix(s, n)
<1>1. Len(p) = n /\ \A i \in 1 .. n : p[i] = s[i] BY PrefixCells
<1> HIDE DEF p
<1>2. LineEnds(p) = Ends(s, n)
  <2>1. \A i \in 2 .. n : i \in 1 .. n /\ i - 1 \in 1 .. n OBVIOUS
  <2> QED BY <1>1, <2>1 DEF LineEnds, Ends
<1>3. ASSUME NEW e \in Ends(s, n) PROVE LineBefore(p, e) = LineOf(s, e)
  <2>1. e \in 2 .. n BY DEF Ends
  <2>2. {d \in LineEnds(p) : d < e} = Ends(s, e - 1)
    BY <1>2, <2>1 DEF Ends
  <2> DEFINE a == Max(Ends(s, e - 1) \cup {0})
  <2>3. a \in 0 .. e - 1
    <3>1. e \in Nat \ {0} BY <2>1
    <3> QED BY <3>1, LineStart
  <2>4. LineBefore(p, e) = SubSeq(p, a + 1, e - 2) /\ LineOf(s, e) = SubSeq(s, a + 1, e - 2)
    BY <2>2 DEF LineBefore, LineOf
  <2> HIDE DEF a
  <2>5. \A i \in a + 1 .. e - 2 : p[i] \in Cell /\ s[i] \in Cell /\ p[i] = s[i]
    BY <1>1, <2>1, <2>3
  <2>6. SubSeq(p, a + 1, e - 2) = SubSeq(s, a + 1, e - 2)
    <3>1. /\ SubSeq(p, a + 1, e - 2) \in Seq(Cell) /\ SubSeq(s, a + 1, e - 2) \in Seq(Cell)
          /\ Len(SubSeq(p, a + 1, e - 2)) = Len(SubSeq(s, a + 1, e - 2))
          /\ Len(SubSeq(p, a + 1, e - 2)) = IF a + 1 <= e - 2 THEN (e - 2) - (a + 1) + 1 ELSE 0
          /\ \A i \in 1 .. (e - 2) - (a + 1) + 1 :
                /\ SubSeq(p, a + 1, e - 2)[i] = p[a + 1 + i - 1]
                /\ SubSeq(s, a + 1, e - 2)[i] = s[a + 1 + i - 1]
      BY <2>1, <2>3, <2>5, SubSeqProperties
    <3>2. \A i \in 1 .. Len(SubSeq(p, a + 1, e - 2)) :
             SubSeq(p, a + 1, e - 2)[i] = SubSeq(s, a + 1, e - 2)[i]
      BY <2>1, <2>3, <2>5, <3>1
    <3> QED BY <3>1, <3>2, SeqEqual
  <2> QED BY <2>4, <2>6
<1> QED BY <1>2, <1>3 DEF p

\* How many of m elements are left without the first k.
LEMMA Shifted ==
    \A m, k \in Nat : k <= m => m - (k + 1) + 1 = m - k /\ (~(k + 1 <= m) => m - k = 0)
OBVIOUS

\* What is left of a sequence without its first k elements.
LEMMA RestOf ==
    ASSUME NEW S, NEW s \in Seq(S), NEW k \in 0 .. Len(s), NEW r, r = SubSeq(s, k + 1, Len(s))
    PROVE /\ r \in Seq(S) /\ Len(r) = Len(s) - k /\ DOMAIN r = 1 .. Len(s) - k
          /\ \A j \in 1 .. Len(s) - k : r[j] = s[k + j]
<1>1. k \in Nat /\ Len(s) \in Nat /\ k <= Len(s) OBVIOUS
<1>2. \A i \in k + 1 .. Len(s) : s[i] \in S BY <1>1
<1>3. /\ r \in Seq(S)
      /\ Len(r) = IF k + 1 <= Len(s) THEN Len(s) - (k + 1) + 1 ELSE 0
      /\ \A i \in 1 .. Len(s) - (k + 1) + 1 : r[i] = s[(k + 1) + i - 1]
  <2>1. k + 1 \in Int /\ Len(s) \in Int BY <1>1
  <2> QED BY <1>2, <2>1, SubSeqProperties
<1>4. Len(s) - (k + 1) + 1 = Len(s) - k /\ (~(k + 1 <= Len(s)) => Len(s) - k = 0) BY <1>1, Shifted
<1>5. Len(r) = Len(s) - k
  <2>1. CASE k + 1 <= Len(s) BY <1>3, <1>4, <2>1, Zenon
  <2>2. CASE ~(k + 1 <= Len(s)) BY <1>3, <1>4, <2>2, Zenon
  <2> QED BY <2>1, <2>2
<1>6. ASSUME NEW j \in 1 .. Len(s) - k PROVE r[j] = s[k + j]
  <2>1. j \in 1 .. (Len(s) - (k + 1) + 1) BY <1>4, Zenon
  <2>2. r[j] = s[(k + 1) + j - 1] BY <1>3, <2>1
  <2>3. j \in Nat BY <1>1
  <2>4. (k + 1) + j - 1 = k + j BY <1>1, <2>3
  <2> QED BY <2>2, <2>4
<1>7. DOMAIN r = 1 .. Len(s) - k BY <1>3, <1>5
<1> QED BY <1>3, <1>5, <1>6, <1>7

\* A prefix of a prefix.
LEMMA PrefixOfPrefix ==
    ASSUME NEW S, NEW s \in Seq(S), NEW m \in 0 .. Len(s), NEW n \in 0 .. m
    PROVE SubSeq(SubSeq(s, 1, m), 1, n) = SubSeq(s, 1, n)
<1>1. /\ SubSeq(s, 1, m) \in Seq(S) /\ Len(SubSeq(s, 1, m)) = m
      /\ \A i \in 1 .. m : SubSeq(s, 1, m)[i] = s[i]
  OBVIOUS
<1> DEFINE t == SubSeq(s, 1, m)
<1> HIDE DEF t
<1>2. /\ SubSeq(t, 1, n) \in Seq(S) /\ Len(SubSeq(t, 1, n)) = n
      /\ \A i \in 1 .. n : SubSeq(t, 1, n)[i] = t[i]
  BY <1>1 DEF t
<1>3. /\ SubSeq(s, 1, n) \in Seq(S) /\ Len(SubSeq(s, 1, n)) = n
      /\ \A i \in 1 .. n : SubSeq(s, 1, n)[i] = s[i]
  OBVIOUS
<1>4. \A i \in 1 .. n : SubSeq(t, 1, n)[i] = SubSeq(s, 1, n)[i]
  BY <1>1, <1>2, <1>3 DEF t
<1> QED BY <1>2, <1>3, <1>4, SeqEqual DEF t

\* The empty lines among the first n cells, and what HeadEnd makes of them.
Blanks(s, n) == {e \in Ends(s, n) : LineOf(s, e) = <<>>}

\* The head ends at the first empty line.
LEMMA HeadOfPrefix ==
    ASSUME NEW s \in Seq(Cell), NEW n \in 0 .. Len(s)
    PROVE LET h == HeadEnd(Prefix(s, n)) IN
          \/ Blanks(s, n) = {} /\ h = 0
          \/ h \in Blanks(s, n) /\ h \in 2 .. n /\ \A e \in Blanks(s, n) : h <= e
<1> DEFINE p == Prefix(s, n)
           B == {e \in LineEnds(p) : LineBefore(p, e) = <<>>}
<1>1. B = Blanks(s, n) BY TextOfPrefix DEF Blanks
<1>2. HeadEnd(p) = IF B = {} THEN 0 ELSE Min(B) BY DEF HeadEnd
<1>3. Blanks(s, n) \in SUBSET Nat /\ Blanks(s, n) \subseteq 2 .. n
  BY DEF Blanks, Ends
<1>4. CASE B = {} BY <1>1, <1>2, <1>4
<1>5. CASE B # {}
  <2>1. Min(Blanks(s, n)) \in Blanks(s, n) /\ \A e \in Blanks(s, n) : Min(Blanks(s, n)) <= e
    BY <1>1, <1>3, <1>5, LeastOfSet
  <2> QED BY <1>1, <1>2, <1>3, <1>5, <2>1
<1> QED BY <1>4, <1>5

\* A head that has ended stays as it is; one that ends later has not ended yet.
LEMMA HeadKept ==
    ASSUME NEW s \in Seq(Cell), NEW m \in 0 .. Len(s), NEW n \in 0 .. m
    PROVE /\ HeadEnd(Prefix(s, n)) \in 0 .. n
          /\ HeadEnd(Prefix(s, n)) # 0 => HeadEnd(Prefix(s, m)) = HeadEnd(Prefix(s, n))
          /\ Ends(s, m) = Ends(s, n) => HeadEnd(Prefix(s, m)) = HeadEnd(Prefix(s, n))
<1> DEFINE h == HeadEnd(Prefix(s, n))
           g == HeadEnd(Prefix(s, m))
<1>0. n \in 0 .. Len(s) OBVIOUS
<1>1. \/ Blanks(s, n) = {} /\ h = 0
      \/ h \in Blanks(s, n) /\ h \in 2 .. n /\ \A e \in Blanks(s, n) : h <= e
  BY <1>0, HeadOfPrefix
<1>2. \/ Blanks(s, m) = {} /\ g = 0
      \/ g \in Blanks(s, m) /\ g \in 2 .. m /\ \A e \in Blanks(s, m) : g <= e
  BY HeadOfPrefix
<1>3. Blanks(s, n) \subseteq Blanks(s, m) /\ \A e \in Blanks(s, m) : e <= n => e \in Blanks(s, n)
  BY DEF Blanks, Ends
<1>4. Ends(s, m) = Ends(s, n) => Blanks(s, m) = Blanks(s, n) BY DEF Blanks
<1> HIDE DEF h, g
<1>5. h # 0 => g = h
  <2> SUFFICES ASSUME h # 0 PROVE g = h OBVIOUS
  <2>1. h \in Blanks(s, m) /\ h \in 2 .. n BY <1>1, <1>3
  <2>2. g \in Blanks(s, m) /\ g \in 2 .. m /\ g <= h BY <1>2, <2>1
  <2>3. g \in Blanks(s, n) /\ h <= g BY <1>1, <1>3, <2>1, <2>2
  <2> QED BY <2>1, <2>2, <2>3
<1>6. Blanks(s, m) = Blanks(s, n) => g = h
  <2> SUFFICES ASSUME Blanks(s, m) = Blanks(s, n), h = 0 PROVE g = h BY <1>5
  <2> QED BY <1>1, <1>2
<1> QED BY <1>1, <1>4, <1>5, <1>6 DEF h, g

\* What is known of the lengths.
LEMMA Lengths ==
    /\ DOMAIN LengthOf = {"len0", "len2", "len4", "minus1"}
    /\ Range(LengthOf) = {0, 2, 4, -1}
    /\ \A c \in DOMAIN LengthOf : LengthOf[c] \in Range(LengthOf)
<1>1. /\ DOMAIN LengthOf = {"len0", "len2", "len4", "minus1"}
      /\ LengthOf["len0"] = 0 /\ LengthOf["len2"] = 2 /\ LengthOf["len4"] = 4
      /\ LengthOf["minus1"] = -1
  BY DEF LengthOf
<1>2. Range(LengthOf) = {0, 2, 4, -1}
  <2> HIDE DEF LengthOf
  <2>1. Range(LengthOf) = {LengthOf[c] : c \in {"len0", "len2", "len4", "minus1"}}
    BY <1>1 DEF Range
  <2> QED BY <1>1, <2>1
<1>3. \A c \in DOMAIN LengthOf : LengthOf[c] \in Range(LengthOf) BY DEF Range
<1> QED BY <1>1, <1>2, <1>3

\* The lines of the head, and the last one that is one of some headers, in
\* terms of s.
LEMMA HeadLinesOfPrefix ==
    ASSUME NEW s \in Seq(Cell), NEW n \in 0 .. Len(s)
    PROVE LET p == Prefix(s, n) IN
          HeadLines(p) = {e \in Ends(s, n) : HeadEnd(p) = 0 \/ e < HeadEnd(p)}
BY TextOfPrefix DEF HeadLines

LEMMA LastLineOfPrefix ==
    ASSUME NEW s \in Seq(Cell), NEW n \in 0 .. Len(s), NEW headers
    PROVE LET p == Prefix(s, n) IN
          /\ LinesNaming(p, headers) = {e \in HeadLines(p) : Names(LineOf(s, e), headers)}
          /\ LinesNaming(p, headers) # {} =>
                /\ Max(LinesNaming(p, headers)) \in LinesNaming(p, headers)
                /\ \A e \in LinesNaming(p, headers) : e <= Max(LinesNaming(p, headers))
          /\ LastLine(p, headers) = IF LinesNaming(p, headers) = {} THEN <<>>
                                    ELSE LineOf(s, Max(LinesNaming(p, headers)))
          /\ LastLine(p, headers) = <<>> \/ Names(LastLine(p, headers), headers)
<1> DEFINE p == Prefix(s, n)
           N == LinesNaming(p, headers)
<1>1. /\ LineEnds(p) = Ends(s, n) /\ \A e \in Ends(s, n) : LineBefore(p, e) = LineOf(s, e)
  BY TextOfPrefix
<1>2. HeadLines(p) \subseteq Ends(s, n) BY HeadLinesOfPrefix
<1> HIDE DEF p
<1>3. N = {e \in HeadLines(p) : Names(LineOf(s, e), headers)} BY <1>1, <1>2 DEF LinesNaming
<1>4. N \in SUBSET (0 .. n) BY <1>2, <1>3 DEF Ends
<1>5. LastLine(p, headers) = IF N = {} THEN <<>> ELSE LineBefore(p, Max(N)) BY DEF LastLine
<1> HIDE DEF N
<1>6. N # {} => Max(N) \in N /\ \A e \in N : e <= Max(N)
  <2>1. n \in Nat OBVIOUS
  <2> QED BY <1>4, <2>1, GreatestOfSet
<1>7. N # {} => LineBefore(p, Max(N)) = LineOf(s, Max(N)) /\ Names(LineOf(s, Max(N)), headers)
  BY <1>1, <1>2, <1>3, <1>6
<1> QED BY <1>3, <1>5, <1>6, <1>7 DEF N, p

\* The length is one of those there are.
LEMMA LengthOfPrefix ==
    ASSUME NEW s \in Seq(Cell), NEW n \in 0 .. Len(s)
    PROVE BodyLength(Prefix(s, n)) \in Range(LengthOf)
<1> DEFINE line == LastLine(Prefix(s, n), DOMAIN LengthOf)
<1>1. line = <<>> \/ Names(line, DOMAIN LengthOf) BY LastLineOfPrefix
<1>2. BodyLength(Prefix(s, n)) = IF line = <<>> THEN 0 ELSE LengthOf[line[1]] BY DEF BodyLength
<1> HIDE DEF line
<1> QED BY <1>1, <1>2, Lengths DEF Names

\* What follows the head, or is not a line yet, changes nothing of it.
LEMMA HeadersKept ==
    ASSUME NEW s \in Seq(Cell), NEW m \in 0 .. Len(s), NEW n \in 0 .. m,
           HeadEnd(Prefix(s, n)) # 0 \/ Ends(s, m) = Ends(s, n)
    PROVE /\ HeadEnd(Prefix(s, m)) = HeadEnd(Prefix(s, n))
          /\ BodyLength(Prefix(s, m)) = BodyLength(Prefix(s, n))
          /\ KeptAlive(Prefix(s, m)) = KeptAlive(Prefix(s, n))
<1> DEFINE p == Prefix(s, n)
           q == Prefix(s, m)
<1>0. n \in 0 .. Len(s) OBVIOUS
<1>1. HeadEnd(q) = HeadEnd(p) /\ HeadEnd(p) \in 0 .. n BY HeadKept
<1>2. HeadLines(p) = {e \in Ends(s, n) : HeadEnd(p) = 0 \/ e < HeadEnd(p)}
  BY <1>0, HeadLinesOfPrefix
<1>3. HeadLines(q) = {e \in Ends(s, m) : HeadEnd(q) = 0 \/ e < HeadEnd(q)} BY HeadLinesOfPrefix
<1>4. HeadLines(p) = HeadLines(q)
  <2>1. CASE Ends(s, m) = Ends(s, n) BY <1>1, <1>2, <1>3, <2>1
  <2>2. CASE HeadEnd(p) # 0
    <3> HIDE DEF p, q
    <3>1. \A e \in Ends(s, m) : e < HeadEnd(p) => e \in Ends(s, n) BY <1>1 DEF Ends
    <3>2. Ends(s, n) \subseteq Ends(s, m) BY DEF Ends
    <3> QED BY <1>1, <1>2, <1>3, <2>2, <3>1, <3>2
  <2> QED BY <2>1, <2>2
<1>5. ASSUME NEW headers PROVE LastLine(q, headers) = LastLine(p, headers)
  <2>1. /\ LinesNaming(p, headers) = {e \in HeadLines(p) : Names(LineOf(s, e), headers)}
        /\ LinesNaming(q, headers) = {e \in HeadLines(q) : Names(LineOf(s, e), headers)}
        /\ LastLine(p, headers) = IF LinesNaming(p, headers) = {} THEN <<>>
                                  ELSE LineOf(s, Max(LinesNaming(p, headers)))
        /\ LastLine(q, headers) = IF LinesNaming(q, headers) = {} THEN <<>>
                                  ELSE LineOf(s, Max(LinesNaming(q, headers)))
    BY <1>0, LastLineOfPrefix
  <2> HIDE DEF p, q
  <2>2. LinesNaming(q, headers) = LinesNaming(p, headers) BY <1>4, <2>1, Zenon
  <2>3. CASE LinesNaming(p, headers) = {} BY <2>1, <2>2, <2>3
  <2>4. CASE LinesNaming(p, headers) # {} BY <2>1, <2>2, <2>4
  <2> QED BY <2>3, <2>4
<1> HIDE DEF p, q
<1>6. BodyLength(q) = BodyLength(p) BY <1>5 DEF BodyLength
<1>7. KeptAlive(q) = KeptAlive(p) BY <1>5 DEF KeptAlive
<1> QED BY <1>1, <1>6, <1>7 DEF p, q

\* WellFormed in terms of s.
Paired(s, n) ==
    \A i \in 1 .. n : /\ s[i] = "cr" /\ i < n => s[i + 1] = "lf"
                      /\ s[i] = "lf" => i > 1 /\ s[i - 1] = "cr"

\* A prefix is well formed when its line breaks are CR LFs and its first line
\* is a request line.
LEMMA WellFormedPrefix ==
    ASSUME NEW s \in Seq(Cell), NEW n \in 0 .. Len(s)
    PROVE /\ WellFormed(Prefix(s, n)) <=>
                /\ Paired(s, n)
                /\ Ends(s, n) # {} => LineOf(s, Min(Ends(s, n))) = <<"get">>
          /\ Ends(s, n) # {} => /\ Min(Ends(s, n)) \in Ends(s, n)
                                /\ \A e \in Ends(s, n) : Min(Ends(s, n)) <= e
<1> DEFINE p == Prefix(s, n)
<1>1. /\ DOMAIN p = 1 .. n /\ Len(p) = n /\ \A i \in 1 .. n : p[i] = s[i]
  BY PrefixCells
<1>2. /\ LineEnds(p) = Ends(s, n) /\ \A e \in Ends(s, n) : LineBefore(p, e) = LineOf(s, e)
  BY TextOfPrefix
<1> HIDE DEF p
<1>3. Ends(s, n) \in SUBSET Nat BY DEF Ends
<1>4. Ends(s, n) # {} => /\ Min(Ends(s, n)) \in Ends(s, n)
                         /\ \A e \in Ends(s, n) : Min(Ends(s, n)) <= e
  BY <1>3, LeastOfSet
<1>5. (\A i \in DOMAIN p : /\ p[i] = "cr" /\ i < Len(p) => p[i + 1] = "lf"
                           /\ p[i] = "lf" => i > 1 /\ p[i - 1] = "cr") <=> Paired(s, n)
  <2>1. \A i \in 1 .. n : /\ i < n => p[i + 1] = s[i + 1]
                          /\ i > 1 => p[i - 1] = s[i - 1]
    BY <1>1
  <2> QED BY <1>1, <2>1 DEF Paired
<1> QED BY <1>2, <1>4, <1>5 DEF WellFormed, p

\* What is wrong stays wrong, and what is complete stays complete.
LEMMA WellFormedKept ==
    ASSUME NEW s \in Seq(Cell), NEW m \in 0 .. Len(s), NEW n \in 0 .. m,
           WellFormed(Prefix(s, m))
    PROVE WellFormed(Prefix(s, n))
<1>0. n \in 0 .. Len(s) OBVIOUS
<1>1. Paired(s, m) /\ (Ends(s, m) # {} => LineOf(s, Min(Ends(s, m))) = <<"get">>)
  BY WellFormedPrefix
<1>2. Ends(s, m) # {} => /\ Min(Ends(s, m)) \in Ends(s, m)
                         /\ \A e \in Ends(s, m) : Min(Ends(s, m)) <= e
  BY WellFormedPrefix
<1>3. Ends(s, n) # {} => /\ Min(Ends(s, n)) \in Ends(s, n)
                         /\ \A e \in Ends(s, n) : Min(Ends(s, n)) <= e
  BY <1>0, WellFormedPrefix
<1>4. Paired(s, n)
  <2>1. \A i \in 1 .. n : i \in 1 .. m /\ (i < n => i < m) OBVIOUS
  <2> QED BY <1>1, <2>1 DEF Paired
<1>5. ASSUME Ends(s, n) # {} PROVE Min(Ends(s, n)) = Min(Ends(s, m)) /\ Ends(s, m) # {}
  <2>1. /\ Ends(s, n) \subseteq Ends(s, m) /\ Ends(s, m) \subseteq Nat
        /\ \A e \in Ends(s, m), d \in Ends(s, n) : e <= d => e \in Ends(s, n)
    BY DEF Ends
  <2> QED BY <1>2, <1>3, <1>5, <2>1
<1> QED BY <1>0, <1>1, <1>4, <1>5, WellFormedPrefix

\* A complete request stays complete whatever follows.
LEMMA CompleteKept ==
    ASSUME NEW s \in Seq(Cell), NEW m \in 0 .. Len(s), NEW n \in 0 .. m,
           Complete(Prefix(s, n))
    PROVE Complete(Prefix(s, m))
<1> DEFINE p == Prefix(s, n)
           q == Prefix(s, m)
           h == HeadEnd(p)
<1>0. n \in 0 .. Len(s) OBVIOUS
<1>1. /\ h # 0 /\ WellFormed(SubSeq(p, 1, h)) /\ BodyLength(p) \in 0 .. Len(p) - h
  BY DEF Complete
<1>2. HeadEnd(q) = h /\ BodyLength(q) = BodyLength(p) BY <1>1, HeadersKept
<1>3. h \in 0 .. n BY HeadKept
<1>5. Len(p) = n /\ Len(q) = m BY <1>0, PrefixCells
<1>6. SubSeq(p, 1, h) = SubSeq(q, 1, h)
  <2> HIDE DEF h
  <2>1. SubSeq(p, 1, h) = SubSeq(s, 1, h) /\ SubSeq(q, 1, h) = SubSeq(s, 1, h)
    BY <1>0, <1>3, PrefixOfPrefix DEF Prefix
  <2> QED BY <2>1
<1> HIDE DEF p, q, h
<1>7. BodyLength(q) \in 0 .. Len(q) - h BY <1>1, <1>2, <1>3, <1>5
<1> QED BY <1>1, <1>2, <1>6, <1>7 DEF Complete, p, q, h

\* One line more: n cells end with a line end or are none, e ends the next line.
NextLine(s, n, e) ==
    /\ n + 2 <= e /\ e <= Len(s)
    /\ n = 0 \/ n \in Ends(s, n)
    /\ s[e - 1] = "cr" /\ s[e] = "lf"
    /\ \A i \in n + 1 .. e - 2 : s[i] \notin {"cr", "lf"}

\* One more line: its end, its text, its place.
LEMMA NextEnd ==
    ASSUME NEW s \in Seq(Cell), NEW n \in Nat, NEW e \in Nat, NextLine(s, n, e)
    PROVE /\ Ends(s, e) = Ends(s, n) \cup {e} /\ e \notin Ends(s, n)
          /\ LineOf(s, e) = SubSeq(s, n + 1, e - 2)
          /\ e \in 0 .. Len(s) /\ n \in 0 .. Len(s) /\ n \in 0 .. e
<1> USE DEF NextLine
<1>0. e \in 0 .. Len(s) /\ n \in 0 .. Len(s) /\ n \in 0 .. e /\ e - 1 \in Nat /\ e \in Nat \ {0}
  OBVIOUS
<1>1. \A i \in 2 .. e : s[i] = "lf" => i <= n \/ i = e
  <2> SUFFICES ASSUME NEW i \in 2 .. e, s[i] = "lf", ~(i <= n), i # e PROVE FALSE OBVIOUS
  <2>1. CASE i = e - 1 BY <2>1
  <2>2. CASE i # e - 1
    <3>1. i \in n + 1 .. e - 2 BY <2>2
    <3> QED BY <3>1
  <2> QED BY <2>1, <2>2
<1>2. Ends(s, e) = Ends(s, n) \cup {e} BY <1>1 DEF Ends
<1>3. e \notin Ends(s, n) BY DEF Ends
<1>4. Ends(s, e - 1) = Ends(s, n)
  <2>1. \A i \in 2 .. e - 1 : s[i] = "lf" => i <= n BY <1>1
  <2> QED BY <2>1 DEF Ends
<1>5. Max(Ends(s, e - 1) \cup {0}) = n
  <2> DEFINE a == Max(Ends(s, e - 1) \cup {0})
  <2>1. a \in 0 .. e - 1 /\ a \in Ends(s, e - 1) \cup {0} /\ \A d \in Ends(s, e - 1) : d <= a
    BY <1>0, LineStart
  <2> HIDE DEF a
  <2>2. a <= n BY <1>4, <2>1 DEF Ends
  <2>3. n <= a BY <1>4, <2>1
  <2> QED BY <2>1, <2>2, <2>3 DEF a
<1> QED BY <1>0, <1>2, <1>3, <1>5 DEF LineOf

\* What one more line does to the head, and to the last line of some headers.
LEMMA NextHead ==
    ASSUME NEW s \in Seq(Cell), NEW n \in Nat, NEW e \in Nat, NextLine(s, n, e),
           HeadEnd(Prefix(s, n)) = 0, NEW text, text = LineOf(s, e)
    PROVE /\ HeadEnd(Prefix(s, e)) = IF text = <<>> THEN e ELSE 0
          /\ BodyLength(Prefix(s, e)) = IF Names(text, DOMAIN LengthOf)
                                        THEN LengthOf[text[1]] ELSE BodyLength(Prefix(s, n))
          /\ KeptAlive(Prefix(s, e)) = IF Names(text, Connection)
                                       THEN text = <<"keep">> ELSE KeptAlive(Prefix(s, n))
<1> DEFINE p == Prefix(s, n)
           q == Prefix(s, e)
<1>1. /\ Ends(s, e) = Ends(s, n) \cup {e} /\ e \notin Ends(s, n)
      /\ e \in 0 .. Len(s) /\ n \in 0 .. Len(s)
  BY NextEnd
<1>2. \A d \in Ends(s, n) : d < e BY DEF Ends, NextLine
<1>3. Blanks(s, n) = {}
  <2>1. \/ Blanks(s, n) = {} /\ HeadEnd(p) = 0
        \/ HeadEnd(p) \in 2 .. n
    BY <1>1, HeadOfPrefix
  <2> QED BY <2>1
<1>4. HeadEnd(q) = IF text = <<>> THEN e ELSE 0
  <2>1. Blanks(s, e) = IF text = <<>> THEN {e} ELSE {} BY <1>1, <1>3 DEF Blanks
  <2>2. \/ Blanks(s, e) = {} /\ HeadEnd(q) = 0
        \/ HeadEnd(q) \in Blanks(s, e)
    BY <1>1, HeadOfPrefix
  <2> QED BY <2>1, <2>2
<1>5. HeadLines(p) = {d \in Ends(s, n) : HeadEnd(p) = 0 \/ d < HeadEnd(p)}
  BY <1>1, HeadLinesOfPrefix
<1>6. HeadLines(q) = {d \in Ends(s, e) : HeadEnd(q) = 0 \/ d < HeadEnd(q)}
  BY <1>1, HeadLinesOfPrefix
<1>7. HeadEnd(p) = 0 OBVIOUS
<1>8. ASSUME NEW headers
      PROVE LastLine(q, headers) = IF Names(text, headers) THEN text ELSE LastLine(p, headers)
  <2> DEFINE P == LinesNaming(p, headers)
             Q == LinesNaming(q, headers)
  <2>1. /\ P = {d \in HeadLines(p) : Names(LineOf(s, d), headers)}
        /\ LastLine(p, headers) = IF P = {} THEN <<>> ELSE LineOf(s, Max(P))
    BY <1>1, LastLineOfPrefix
  <2>2. /\ Q = {d \in HeadLines(q) : Names(LineOf(s, d), headers)}
        /\ Q # {} => Max(Q) \in Q /\ \A d \in Q : d <= Max(Q)
        /\ LastLine(q, headers) = IF Q = {} THEN <<>> ELSE LineOf(s, Max(Q))
    BY <1>1, LastLineOfPrefix
  <2> HIDE DEF p, q, P, Q
  <2>3. HeadLines(p) = Ends(s, n) BY <1>5, <1>7
  <2>4. HeadLines(q) = IF text = <<>> THEN Ends(s, n) ELSE Ends(s, n) \cup {e}
    <3>1. e \in Nat /\ ~(e < e) /\ e # 0 BY DEF NextLine
    <3> QED BY <1>1, <1>2, <1>4, <1>6, <3>1
  <2>5. CASE ~Names(text, headers)
    <3>1. Q = P BY <2>1, <2>2, <2>3, <2>4, <2>5
    <3> QED BY <2>1, <2>2, <2>5, <3>1
  <2>6. CASE Names(text, headers)
    <3>1. text # <<>> BY <2>6 DEF Names
    <3>2. Q = P \cup {e} BY <2>1, <2>2, <2>3, <2>4, <2>6, <3>1
    <3> DEFINE a == Max(Q)
    <3>3. a \in Q /\ e <= a BY <2>2, <3>2
    <3> HIDE DEF a
    <3>4. a = e \/ a \in Ends(s, n) BY <2>1, <2>3, <3>2, <3>3
    <3>5. a = e
      <4>1. CASE a \in Ends(s, n)
        <5>1. a < e /\ a \in Nat BY <1>2, <4>1 DEF Ends
        <5> QED BY <3>3, <5>1
      <4> QED BY <3>4, <4>1
    <3>6. Q # {} BY <3>2
    <3> QED BY <2>2, <2>6, <3>5, <3>6 DEF a
  <2> QED BY <2>5, <2>6
<1> HIDE DEF p, q
<1>9. ASSUME NEW headers, Names(text, headers)
      PROVE LastLine(q, headers) = text /\ LastLine(q, headers) # <<>>
  BY <1>8, <1>9 DEF Names
<1>10. BodyLength(q) = IF Names(text, DOMAIN LengthOf) THEN LengthOf[text[1]] ELSE BodyLength(p)
  BY <1>8, <1>9 DEF BodyLength
<1>11. KeptAlive(q) = IF Names(text, Connection) THEN text = <<"keep">> ELSE KeptAlive(p)
  BY <1>8 DEF KeptAlive
<1> QED BY <1>4, <1>10, <1>11 DEF p, q

\* One more line keeps what is well formed.
LEMMA NextWellFormed ==
    ASSUME NEW s \in Seq(Cell), NEW n \in Nat, NEW e \in Nat, NextLine(s, n, e),
           WellFormed(Prefix(s, n)), n = 0 => LineOf(s, e) = <<"get">>
    PROVE WellFormed(Prefix(s, e))
<1>1. /\ Ends(s, e) = Ends(s, n) \cup {e} /\ e \notin Ends(s, n)
      /\ e \in 0 .. Len(s) /\ n \in 0 .. Len(s)
  BY NextEnd
<1>2. Paired(s, n) /\ (Ends(s, n) # {} => LineOf(s, Min(Ends(s, n))) = <<"get">>)
  BY <1>1, WellFormedPrefix
<1>3. Ends(s, e) # {} /\ Min(Ends(s, e)) \in Ends(s, e) /\ \A d \in Ends(s, e) : Min(Ends(s, e)) <= d
  BY <1>1, WellFormedPrefix
<1>4. Paired(s, e)
  <2> SUFFICES ASSUME NEW i \in 1 .. e
               PROVE /\ s[i] = "cr" /\ i < e => s[i + 1] = "lf"
                     /\ s[i] = "lf" => i > 1 /\ s[i - 1] = "cr"
    BY DEF Paired
  <2>1. CASE i < n
    <3>1. i \in 1 .. n BY <2>1
    <3> QED BY <1>2, <2>1, <3>1 DEF Paired
  <2>2. CASE i = n
    <3>1. n \in Ends(s, n) BY <2>2 DEF NextLine
    <3> QED BY <2>2, <3>1 DEF Ends
  <2>3. CASE i \in n + 1 .. e - 2 BY <2>3 DEF NextLine
  <2>4. CASE i = e - 1 BY <2>4 DEF NextLine
  <2>5. CASE i = e BY <2>5 DEF NextLine
  <2> QED BY <2>1, <2>2, <2>3, <2>4, <2>5 DEF NextLine
<1>5. LineOf(s, Min(Ends(s, e))) = <<"get">>
  <2>1. CASE n = 0
    <3>1. Ends(s, n) = {} BY <2>1 DEF Ends
    <3>2. Min(Ends(s, e)) = e BY <1>1, <1>3, <3>1
    <3> QED BY <2>1, <3>2
  <2>2. CASE n # 0
    <3>1. n \in Ends(s, n) BY <2>2 DEF NextLine
    <3>2. Min(Ends(s, n)) \in Ends(s, n) /\ \A d \in Ends(s, n) : Min(Ends(s, n)) <= d
      BY <1>1, <3>1, WellFormedPrefix
    <3>3. \A d \in Ends(s, n) : d < e /\ d \in Nat BY DEF Ends, NextLine
    <3>4. Min(Ends(s, e)) = Min(Ends(s, n))
      <4> DEFINE a == Min(Ends(s, e))
                 b == Min(Ends(s, n))
      <4>1. a <= b /\ a \in Ends(s, n) \cup {e} /\ b < e /\ b \in Nat BY <1>1, <1>3, <3>2, <3>3
      <4>2. \A d \in Ends(s, n) : b <= d BY <3>2
      <4> HIDE DEF a, b
      <4>3. a \in Ends(s, n) BY <4>1
      <4> QED BY <3>3, <4>1, <4>2, <4>3 DEF a, b
    <3> QED BY <1>2, <3>1, <3>4
  <2> QED BY <2>1, <2>2
<1> QED BY <1>1, <1>4, <1>5, WellFormedPrefix

\* LineBreak finds the first CR or LF behind index.
LEMMA SearchedFirst ==
    ASSUME NEW data, NEW index \in Nat, Len(data) \in Nat, NEW k, k = LineBreak(data, index)
    PROVE \/ k = 0 /\ \A j \in index + 1 .. Len(data) : data[j] \notin {"cr", "lf"}
          \/ /\ k \in index + 1 .. Len(data) /\ data[k] \in {"cr", "lf"}
             /\ \A j \in index + 1 .. k - 1 : data[j] \notin {"cr", "lf"}
<1> DEFINE I == {i \in index + 1 .. Len(data) : data[i] \in {"cr", "lf"}}
<1>1. k = IF I # {} THEN Min(I) ELSE 0
  BY DEF SelectInSubSeq, LineBreak
<1>2. I \in SUBSET Nat OBVIOUS
<1>3. CASE I = {} BY <1>1, <1>3
<1>4. CASE I # {}
  <2>1. Min(I) \in I /\ \A n \in I : Min(I) <= n
    <3> HIDE DEF I
    <3> QED BY <1>2, <1>4, LeastOfSet
  <2>2. k = Min(I) BY <1>1, <1>4
  <2>3. k \in I /\ \A n \in I : k <= n BY <2>1, <2>2
  <2>4. \A j \in index + 1 .. k - 1 : j \in index + 1 .. Len(data) /\ ~(k <= j)
    <3>1. k \in index + 1 .. Len(data) BY <2>3
    <3> QED BY <3>1
  <2> QED BY <2>3, <2>4
<1> QED BY <1>3, <1>4

\* The ways in which parseLine ends when it has found a line break at i.
FoundAt(data, index, i, r) ==
    /\ \A j \in index + 1 .. i - 1 : data[j] \notin {"cr", "lf"}
    /\ data[i] \in {"cr", "lf"}
    /\ \/ /\ data[i] = "cr" /\ i = Len(data)
          /\ r = [line |-> "OPEN", index |-> i - 1, data |-> data]
       \/ /\ data[i] = "cr" /\ i < Len(data) /\ data[i + 1] = "lf"
          /\ r = [line |-> "OK", index |-> i + 1,
                  data |-> [data EXCEPT ![i] = "nul", ![i + 1] = "nul"]]
       \/ /\ data[i] = "lf" /\ i > 2 /\ data[i - 1] = "cr"
          /\ r = [line |-> "OK", index |-> i,
                  data |-> [data EXCEPT ![i - 1] = "nul", ![i] = "nul"]]
       \/ /\ data[i] = "cr" => i < Len(data) /\ data[i + 1] # "lf"
          /\ data[i] = "lf" => ~(i > 2 /\ data[i - 1] = "cr")
          /\ r = [line |-> "BAD", index |-> i - 1, data |-> data]

\* The ways in which parseLine ends.
LEMMA LineFound ==
    ASSUME NEW S, NEW data \in Seq(S), NEW index \in 0 .. Len(data), NEW r, r = parseLine(data, index)
    PROVE \/ /\ r = [line |-> "OPEN", index |-> Len(data), data |-> data]
             /\ \A j \in index + 1 .. Len(data) : data[j] \notin {"cr", "lf"}
          \/ \E i \in index + 1 .. Len(data) : FoundAt(data, index, i, r)
<1> DEFINE k == LineBreak(data, index)
<1>0. Len(data) \in Nat /\ index + 1 \in Nat \ {0} OBVIOUS
<1>1. \/ k = 0 /\ \A j \in index + 1 .. Len(data) : data[j] \notin {"cr", "lf"}
      \/ /\ k \in index + 1 .. Len(data) /\ data[k] \in {"cr", "lf"}
         /\ \A j \in index + 1 .. k - 1 : data[j] \notin {"cr", "lf"}
  BY <1>0, SearchedFirst
<1>2. CASE k = 0
  <2>1. r = [line |-> "OPEN", index |-> Len(data), data |-> data] BY <1>2 DEF parseLine
  <2> QED BY <1>0, <1>1, <1>2, <2>1
<1>3. CASE k # 0
  <2> HIDE DEF k
  <2>1. /\ k \in index + 1 .. Len(data) /\ data[k] \in {"cr", "lf"} /\ k \in Nat
        /\ \A j \in index + 1 .. k - 1 : data[j] \notin {"cr", "lf"}
    BY <1>0, <1>1, <1>3
  <2>2. (k + 1) - 1 = k /\ (k <= Len(data)) BY <2>1
  <2> SUFFICES FoundAt(data, index, k, r) BY <2>1
  <2> USE DEF k, FoundAt
  <2>3. CASE data[k] = "cr" /\ k = Len(data)
    <3>1. r = [line |-> "OPEN", index |-> k - 1, data |-> data] BY <1>3, <2>3 DEF parseLine
    <3> HIDE DEF k
    <3> QED BY <2>1, <2>3, <3>1
  <2>4. CASE data[k] = "cr" /\ k # Len(data) /\ data[k + 1] = "lf"
    <3>1. r = [line |-> "OK", index |-> k + 1, data |-> [data EXCEPT ![k] = "nul", ![k + 1] = "nul"]]
      <4>1. k \in Nat BY <2>1
      <4>2. r = LET i == k
                    Ok(j) == [line |-> "OK", index |-> j,
                              data |-> [data EXCEPT ![j - 1] = "nul", ![j] = "nul"]]
                IN Ok(i + 1)
        BY <1>3, <2>4 DEF parseLine
      <4> HIDE DEF k
      <4>3. r = [line |-> "OK", index |-> k + 1,
                 data |-> [data EXCEPT ![(k + 1) - 1] = "nul", ![k + 1] = "nul"]]
        BY <4>2
      <4> QED BY <2>2, <4>3, Zenon
    <3>2. k \in index + 1 .. Len(data) /\ k < Len(data) BY <1>0, <2>1, <2>2, <2>4
    <3> HIDE DEF k
    <3> QED BY <2>1, <2>4, <3>1, <3>2
  <2>5. CASE data[k] = "cr" /\ k # Len(data) /\ data[k + 1] # "lf"
    <3>1. r = [line |-> "BAD", index |-> k - 1, data |-> data] BY <1>3, <2>5 DEF parseLine
    <3>2. k \in index + 1 .. Len(data) /\ k < Len(data) BY <1>0, <2>1, <2>2, <2>5
    <3> HIDE DEF k
    <3> QED BY <2>1, <2>5, <3>1, <3>2
  <2>6. CASE data[k] # "cr" /\ k > 2 /\ data[k - 1] = "cr"
    <3>1. r = [line |-> "OK", index |-> k, data |-> [data EXCEPT ![k - 1] = "nul", ![k] = "nul"]]
      BY <1>3, <2>6 DEF parseLine
    <3> HIDE DEF k
    <3> QED BY <1>0, <2>1, <2>6, <3>1
  <2>7. CASE data[k] # "cr" /\ ~(k > 2 /\ data[k - 1] = "cr")
    <3>1. r = [line |-> "BAD", index |-> k - 1, data |-> data] BY <1>3, <2>7 DEF parseLine
    <3> HIDE DEF k
    <3> QED BY <1>0, <2>1, <2>7, <3>1
  <2> QED BY <2>3, <2>4, <2>5, <2>6, <2>7
<1> QED BY <1>2, <1>3

\* No line break among the first n cells of data.
NoBreak(data, n) == \A j \in 1 .. n : data[j] \notin {"cr", "lf"}

\* The first line break of data is not a CR LF, nor a CR at the end.
Broken(data) ==
    \E i \in 1 .. Len(data) :
        /\ NoBreak(data, i - 1)
        /\ data[i] = "lf" \/ (data[i] = "cr" /\ i < Len(data) /\ data[i + 1] # "lf")

\* How parseLine ends: no line end yet, a CR LF, or a wrong line break.
NoLineYet(data, r) ==
    /\ r.line = "OPEN" /\ r.data = data /\ NoBreak(data, r.index)
    /\ r.index = Len(data) \/ (r.index = Len(data) - 1 /\ data[Len(data)] = "cr")

LineEnded(data, index, r) ==
    /\ r.line = "OK" /\ r.index >= 2 /\ index <= r.index - 2
    /\ NoBreak(data, r.index - 2) /\ data[r.index - 1] = "cr" /\ data[r.index] = "lf"
    /\ r.data = [data EXCEPT ![r.index - 1] = "nul", ![r.index] = "nul"]

LineRefused(data, r) ==
    /\ r.line = "BAD" /\ r.data = data
    /\ NoBreak(data, r.index) /\ r.index + 1 \in 1 .. Len(data)
    /\ \/ data[r.index + 1] = "lf"
       \/ data[r.index + 1] = "cr" /\ r.index + 1 < Len(data) /\ data[r.index + 2] # "lf"

\* parseLine on a buffer whose first index cells have no line break.
LEMMA LineParsed ==
    ASSUME NEW data \in Seq(Cell), NEW index \in 0 .. Len(data), NoBreak(data, index),
           NEW r, r = parseLine(data, index)
    PROVE /\ r.index \in index .. Len(data) /\ r.data \in Seq(Cell) /\ Len(r.data) = Len(data)
          /\ NoLineYet(data, r) \/ LineEnded(data, index, r) \/ LineRefused(data, r)
<1>1. Len(data) \in Nat /\ index \in Nat /\ index <= Len(data) OBVIOUS
<1>2. CASE /\ r = [line |-> "OPEN", index |-> Len(data), data |-> data]
           /\ \A j \in index + 1 .. Len(data) : data[j] \notin {"cr", "lf"}
  <2>1. NoBreak(data, Len(data)) BY <1>1, <1>2 DEF NoBreak
  <2> QED BY <1>1, <1>2, <2>1 DEF NoLineYet
<1>3. CASE \E i \in index + 1 .. Len(data) : FoundAt(data, index, i, r)
  <2>0. PICK i \in index + 1 .. Len(data) : FoundAt(data, index, i, r) BY <1>3
  <2>1. /\ \A j \in index + 1 .. i - 1 : data[j] \notin {"cr", "lf"}
        /\ data[i] \in {"cr", "lf"}
        /\ \/ /\ data[i] = "cr" /\ i = Len(data)
              /\ r = [line |-> "OPEN", index |-> i - 1, data |-> data]
           \/ /\ data[i] = "cr" /\ i < Len(data) /\ data[i + 1] = "lf"
              /\ r = [line |-> "OK", index |-> i + 1,
                      data |-> [data EXCEPT ![i] = "nul", ![i + 1] = "nul"]]
           \/ /\ data[i] = "lf" /\ i > 2 /\ data[i - 1] = "cr"
              /\ r = [line |-> "OK", index |-> i,
                      data |-> [data EXCEPT ![i - 1] = "nul", ![i] = "nul"]]
           \/ /\ data[i] = "cr" => i < Len(data) /\ data[i + 1] # "lf"
              /\ data[i] = "lf" => ~(i > 2 /\ data[i - 1] = "cr")
              /\ r = [line |-> "BAD", index |-> i - 1, data |-> data]
    BY <2>0 DEF FoundAt
  <2>2. i \in 1 .. Len(data) /\ i - 1 \in index .. Len(data) BY <1>1, <2>1
  <2>3. NoBreak(data, i - 1)
    <3>1. \A j \in 1 .. i - 1 : j \in 1 .. index \/ j \in index + 1 .. i - 1 BY <1>1, <2>1
    <3> QED BY <2>1, <3>1 DEF NoBreak
  <2>4. ~(data[i] = "lf" /\ i > 2 /\ data[i - 1] = "cr")
    <3>1. i > 2 => i - 1 \in 1 .. i - 1 BY <2>2
    <3> QED BY <2>3, <3>1 DEF NoBreak
  <2>5. CASE /\ data[i] = "cr" /\ i = Len(data)
             /\ r = [line |-> "OPEN", index |-> i - 1, data |-> data]
    BY <2>2, <2>3, <2>5 DEF NoLineYet
  <2>6. CASE /\ data[i] = "cr" /\ i < Len(data) /\ data[i + 1] = "lf"
             /\ r = [line |-> "OK", index |-> i + 1,
                     data |-> [data EXCEPT ![i] = "nul", ![i + 1] = "nul"]]
    <3>1. r.index = i + 1 /\ r.index - 1 = i /\ r.index - 2 = i - 1 /\ i + 1 \in 1 .. Len(data)
      BY <1>1, <2>2, <2>6
    <3>2. "nul" \in Cell BY DEF Cell
    <3>3. [data EXCEPT ![i] = "nul"] \in Seq(Cell) /\ Len([data EXCEPT ![i] = "nul"]) = Len(data)
      BY <2>2, <3>2, ExceptSeq
    <3>4. r.data = [[data EXCEPT ![i] = "nul"] EXCEPT ![i + 1] = "nul"] BY <2>6
    <3>5. r.data \in Seq(Cell) /\ Len(r.data) = Len(data) BY <3>1, <3>2, <3>3, <3>4, ExceptSeq
    <3>6. r.data = [data EXCEPT ![r.index - 1] = "nul", ![r.index] = "nul"] BY <2>6, <3>1
    <3>7. r.index \in index .. Len(data) /\ r.index >= 2 /\ index <= r.index - 2
      BY <1>1, <2>1, <2>2, <3>1
    <3>8. LineEnded(data, index, r) BY <2>3, <2>6, <3>1, <3>6, <3>7 DEF LineEnded
    <3> QED BY <3>5, <3>7, <3>8
  <2>7. CASE /\ data[i] = "cr" => i < Len(data) /\ data[i + 1] # "lf"
             /\ r = [line |-> "BAD", index |-> i - 1, data |-> data]
    <3>1. r.index = i - 1 /\ r.index + 1 = i /\ r.index + 2 = i + 1 BY <2>2, <2>7
    <3>2. LineRefused(data, r) BY <2>1, <2>2, <2>3, <2>7, <3>1 DEF LineRefused
    <3> QED BY <2>2, <2>7, <3>1, <3>2
  <2> QED BY <2>1, <2>4, <2>5, <2>6, <2>7
<1> QED BY <1>2, <1>3, LineFound

\* parseLine refuses a line exactly when the first line break is not a CR LF,
\* wherever it goes on from.
LEMMA BadIsBroken ==
    ASSUME NEW data \in Seq(Cell), NEW index \in 0 .. Len(data), NoBreak(data, index),
           NEW r, r = parseLine(data, index)
    PROVE r.line = "BAD" <=> Broken(data)
<1> DEFINE n == Len(data)
<1>1. /\ r.index \in 0 .. n /\ n \in Nat
      /\ NoLineYet(data, r) \/ LineEnded(data, index, r) \/ LineRefused(data, r)
  <2>1. r.index \in index .. n /\ (NoLineYet(data, r) \/ LineEnded(data, index, r) \/ LineRefused(data, r))
    BY LineParsed
  <2> QED BY <2>1
<1>2. ASSUME LineRefused(data, r) PROVE r.line = "BAD" /\ Broken(data)
  <2>1. PICK k \in 1 .. n : k = r.index + 1 BY <1>2 DEF LineRefused
  <2>2. k - 1 = r.index /\ k + 1 = r.index + 2 BY <1>1, <2>1
  <2>3. NoBreak(data, k - 1) BY <1>2, <2>2 DEF LineRefused
  <2>4. data[k] = "lf" \/ (data[k] = "cr" /\ k < n /\ data[k + 1] # "lf")
    BY <1>2, <2>1, <2>2 DEF LineRefused
  <2>5. Broken(data) BY <2>3, <2>4 DEF Broken
  <2> QED BY <1>2, <2>5 DEF LineRefused
<1>3. ASSUME Broken(data), ~LineRefused(data, r) PROVE FALSE
  <2>1. PICK i \in 1 .. n :
           /\ NoBreak(data, i - 1)
           /\ data[i] = "lf" \/ (data[i] = "cr" /\ i < n /\ data[i + 1] # "lf")
    BY <1>3 DEF Broken
  <2>2. CASE NoLineYet(data, r)
    <3>1. ~(i <= r.index) BY <1>1, <2>1, <2>2 DEF NoBreak, NoLineYet
    <3>2. i = n /\ data[n] = "cr" BY <1>1, <2>2, <3>1 DEF NoLineYet
    <3> QED BY <2>1, <3>2
  <2>3. CASE LineEnded(data, index, r)
    <3>1. ~(i <= r.index - 2) BY <1>1, <2>1, <2>3 DEF NoBreak, LineEnded
    <3>2. ~(r.index - 1 <= i - 1)
      <4>1. r.index - 1 \in Nat /\ r.index - 1 >= 1 BY <1>1, <2>3 DEF LineEnded
      <4> QED BY <1>1, <2>1, <2>3, <4>1 DEF NoBreak, LineEnded
    <3>3. i = r.index - 1 /\ i + 1 = r.index BY <1>1, <2>3, <3>1, <3>2
    <3> QED BY <1>1, <2>1, <2>3, <3>3 DEF LineEnded
  <2> QED BY <1>1, <1>3, <2>2, <2>3
<1> QED BY <1>1, <1>2, <1>3 DEF NoLineYet, LineEnded

-----------------------------------------------------------------------------
(* The buffer and the stream.                                              *)

\* What is typed about the stream and its two positions.
LEMMA StreamCells ==
    ASSUME TypeOK
    PROVE /\ stream \in Seq(Cell) /\ stream \in Seq(Cell \ {"nul"}) /\ Len(stream) \in Nat
          /\ sent \in Nat /\ received \in Nat /\ consumed \in Nat
          /\ received \in 0 .. Len(stream) /\ consumed \in 0 .. Len(stream)
          /\ consumed \in 0 .. received
          /\ Arrived = Prefix(stream, received) /\ Taken = Prefix(stream, consumed)
          /\ \A i \in 1 .. Len(stream) : stream[i] \in Cell /\ stream[i] # "nul"
<1>1. stream \in Seq(Cell \ {"nul"}) BY StreamsAssumption DEF TypeOK
<1>2. stream \in Seq(Cell) BY <1>1, SeqMonotonic
<1>3. Len(stream) \in Nat /\ \A i \in 1 .. Len(stream) : stream[i] \in Cell /\ stream[i] # "nul"
  BY <1>1
<1> QED BY <1>1, <1>2, <1>3 DEF TypeOK, Arrived, Taken, Prefix

\* How the scan of the buffer ends.
LEMMA ScanEnds ==
    ASSUME TypeOK, ScanInv
    PROVE /\ mReadBuffer.data \in Seq(Cell) /\ Len(mReadBuffer.data) \in Nat
          /\ mCheckIndex \in Nat /\ Scan.index \in Nat
          /\ Scan.index \in mCheckIndex .. Len(mReadBuffer.data)
          /\ Scan.data \in Seq(Cell) /\ Len(Scan.data) = Len(mReadBuffer.data)
          /\ \/ NoLineYet(mReadBuffer.data, Scan)
             \/ LineEnded(mReadBuffer.data, mCheckIndex, Scan)
             \/ LineRefused(mReadBuffer.data, Scan)
          /\ Scan.line = "BAD" <=> Broken(mReadBuffer.data)
<1> DEFINE data == mReadBuffer.data
<1>1. data \in Seq(Cell) /\ mCheckIndex \in 0 .. Len(data) BY DEF TypeOK, Buffers
<1>2. NoBreak(data, mCheckIndex) BY DEF ScanInv, NoBreak
<1>3. Scan = parseLine(data, mCheckIndex) BY DEF Scan
<1> HIDE DEF data
<1>4. /\ Scan.index \in mCheckIndex .. Len(data) /\ Scan.data \in Seq(Cell)
      /\ Len(Scan.data) = Len(data)
      /\ NoLineYet(data, Scan) \/ LineEnded(data, mCheckIndex, Scan) \/ LineRefused(data, Scan)
  BY <1>1, <1>2, <1>3, LineParsed
<1>5. Scan.line = "BAD" <=> Broken(data) BY <1>1, <1>2, <1>3, BadIsBroken
<1>6. Len(data) \in Nat /\ mCheckIndex \in Nat /\ Scan.index \in Nat BY <1>1, <1>4
<1> QED BY <1>1, <1>4, <1>5, <1>6 DEF data

\* The cells of the buffer in the stream.
LEMMA CellsOfBuffer ==
    ASSUME TypeOK, InputIntact
    PROVE /\ Len(mReadBuffer.data) = received - consumed /\ Len(mReadBuffer.data) \in Nat
          /\ \A i \in 1 .. Len(mReadBuffer.data) :
                /\ consumed + i \in 1 .. received /\ consumed + i \in 1 .. Len(stream)
                /\ mReadBuffer.data[i] # "nul" => mReadBuffer.data[i] = stream[consumed + i]
                /\ mReadBuffer.data[i] = "nul" => stream[consumed + i] \in {"cr", "lf"}
<1>1. mReadBuffer.data \in Seq(Cell) BY DEF TypeOK, Buffers
<1>2. received \in Nat /\ consumed \in Nat /\ consumed <= received /\ received <= Len(stream)
  BY StreamCells
<1>3. /\ Len(mReadBuffer.data) \in Nat /\ DOMAIN mReadBuffer.data = 1 .. Len(mReadBuffer.data)
      /\ Len(mReadBuffer.data) = received - consumed
  BY <1>1 DEF InputIntact
<1>4. \A i \in 1 .. Len(mReadBuffer.data) :
         consumed + i \in 1 .. received /\ consumed + i \in 1 .. Len(stream)
  <2>1. Len(stream) \in Nat BY StreamCells
  <2> QED BY <1>2, <1>3, <2>1
<1>5. \A i \in 1 .. Len(mReadBuffer.data) :
         /\ mReadBuffer.data[i] # "nul" => mReadBuffer.data[i] = stream[consumed + i]
         /\ mReadBuffer.data[i] = "nul" => stream[consumed + i] \in {"cr", "lf"}
  <2>1. \A i \in 1 .. Len(mReadBuffer.data) : stream[consumed + i] # "nul" BY <1>4, StreamCells
  <2> QED BY <1>3, <2>1 DEF InputIntact
<1> QED BY <1>3, <1>4, <1>5

\* A line that parseLine refuses is wrong in the stream too, whatever was made
\* of the bytes before.
LEMMA RefusedIsWrong ==
    ASSUME TypeOK, InputIntact, ScanInv, HeadInv, Scan.line = "BAD"
    PROVE ~WellFormed(Arrived)
<1> DEFINE d == mReadBuffer.data
           n == Len(mReadBuffer.data)
<1>1. PICK i \in 1 .. n :
         /\ NoBreak(d, i - 1)
         /\ d[i] = "lf" \/ (d[i] = "cr" /\ i < n /\ d[i + 1] # "lf")
  BY ScanEnds DEF Broken
<1>2. /\ n \in Nat /\ received \in Nat /\ consumed \in Nat /\ received = consumed + n
      /\ i \in Nat /\ consumed + i \in 1 .. received
      /\ \A j \in 1 .. n :
            /\ d[j] # "nul" => d[j] = stream[consumed + j]
            /\ d[j] = "nul" => stream[consumed + j] \in {"cr", "lf"}
  <2>1. n \in Nat /\ received \in Nat /\ consumed \in Nat /\ n = received - consumed
    BY CellsOfBuffer, StreamCells
  <2> QED BY <2>1, CellsOfBuffer
<1>3. \A j \in 1 .. n : d[j] = "nul" =>
         \/ stream[consumed + j] = "cr" /\ j < n /\ d[j + 1] = "nul"
         \/ stream[consumed + j] = "lf" /\ j > 1 /\ d[j - 1] = "nul"
  <2>1. DOMAIN d = 1 .. n BY DEF TypeOK, Buffers
  <2> QED BY <2>1 DEF ScanInv
<1>4. consumed # 0 => stream[consumed] = "lf"
  <2>1. consumed # 0 => consumed \in Ends(stream, received)
    BY StreamCells, TextOfPrefix DEF HeadInv
  <2> QED BY <2>1 DEF Ends
<1>5. stream[consumed + i] = d[i] BY <1>1, <1>2
<1> HIDE DEF d, n
<1>6. ~Paired(stream, received)
  <2>1. CASE d[i] = "lf" /\ i = 1
    <3>1. consumed + i > 1 => stream[(consumed + i) - 1] # "cr" BY <1>2, <1>4, <2>1
    <3> QED BY <1>2, <1>5, <2>1, <3>1 DEF Paired
  <2>2. CASE d[i] = "lf" /\ i # 1
    <3>1. i - 1 \in 1 .. n /\ i - 1 \in 1 .. i - 1 /\ (i - 1) + 1 = i
          /\ consumed + (i - 1) = (consumed + i) - 1
      BY <1>2, <2>2
    <3>2. d[i - 1] \notin {"cr", "lf"} BY <1>1, <3>1 DEF NoBreak
    <3>3. stream[(consumed + i) - 1] # "cr"
      BY <1>2, <1>3, <2>2, <3>1, <3>2
    <3> QED BY <1>2, <1>5, <2>2, <3>3 DEF Paired
  <2>3. CASE d[i] = "cr" /\ i < n /\ d[i + 1] # "lf"
    <3>1. i + 1 \in 1 .. n /\ (i + 1) - 1 = i /\ consumed + (i + 1) = (consumed + i) + 1
          /\ consumed + i < received
      BY <1>2, <2>3
    <3>2. stream[(consumed + i) + 1] # "lf"
      BY <1>2, <1>3, <2>3, <3>1
    <3> QED BY <1>2, <1>5, <2>3, <3>1, <3>2 DEF Paired
  <2> QED BY <1>1, <2>1, <2>2, <2>3
<1> QED BY <1>6, StreamCells, WellFormedPrefix

\* A line that parseLine found, and has not passed before, is the next one of
\* the stream.
LEMMA LineIsNext ==
    ASSUME TypeOK, InputIntact, ScanInv, HeadInv, Scan.line = "OK",
           \A j \in 1 .. Scan.index - 2 : mReadBuffer.data[j] # "nul"
    PROVE /\ NextLine(stream, consumed, consumed + Scan.index)
          /\ Text = LineOf(stream, consumed + Scan.index)
          /\ consumed + Scan.index \in 1 .. received /\ consumed + Scan.index \in Nat
<1> DEFINE d == mReadBuffer.data
           k == Scan.index
           e == consumed + k
<1>1. /\ d \in Seq(Cell) /\ Len(d) \in Nat /\ k \in Nat /\ k \in 0 .. Len(d) /\ k >= 2
      /\ NoBreak(d, k - 2) /\ d[k - 1] = "cr" /\ d[k] = "lf"
      /\ Scan.data = [d EXCEPT ![k - 1] = "nul", ![k] = "nul"]
      /\ Scan.data \in Seq(Cell) /\ Len(Scan.data) = Len(d)
  BY ScanEnds DEF NoLineYet, LineEnded, LineRefused
<1>2. /\ received \in Nat /\ consumed \in Nat /\ Len(d) = received - consumed
      /\ received <= Len(stream) /\ Len(stream) \in Nat
  BY StreamCells, CellsOfBuffer
<1>3. \A j \in 1 .. k : j \in 1 .. Len(d) /\ (d[j] # "nul" => d[j] = stream[consumed + j])
  BY <1>1, CellsOfBuffer
<1>4. \A j \in 1 .. k - 2 : d[j] # "nul" OBVIOUS
<1> HIDE DEF d, k
<1>5. /\ e \in 1 .. received /\ e \in Nat /\ consumed + 2 <= e /\ e <= Len(stream)
      /\ consumed + (k - 1) = e - 1 /\ k - 1 \in 1 .. k /\ k \in 1 .. k
  BY <1>1, <1>2
<1>6. stream[e - 1] = "cr" /\ stream[e] = "lf" BY <1>1, <1>3, <1>5
<1>7. \A j \in 1 .. k - 2 : d[j] = stream[consumed + j] /\ d[j] \notin {"cr", "lf"}
  BY <1>1, <1>3, <1>4 DEF NoBreak
<1>8. \A i \in consumed + 1 .. e - 2 : stream[i] \notin {"cr", "lf"}
  <2> TAKE i \in consumed + 1 .. e - 2
  <2>1. i - consumed \in 1 .. k - 2 /\ consumed + (i - consumed) = i BY <1>1, <1>2
  <2> QED BY <1>7, <2>1
<1>9. consumed = 0 \/ consumed \in Ends(stream, consumed)
  <2>1. consumed # 0 => consumed \in Ends(stream, received)
    BY StreamCells, TextOfPrefix DEF HeadInv
  <2> QED BY <1>2, <2>1 DEF Ends
<1>10. NextLine(stream, consumed, e) BY <1>5, <1>6, <1>8, <1>9 DEF NextLine
<1>11. Text = SubSeq(stream, consumed + 1, e - 2)
  <2> DEFINE s == Scan.data
  <2>1. Text = SubSeq(s, 1, k - 2) BY DEF Text, k
  <2>2. \A j \in 1 .. k - 2 : s[j] = d[j] /\ s[j] \in Cell BY <1>1
  <2>3. \A i \in consumed + 1 .. e - 2 : stream[i] \in Cell
    BY <1>2, <1>5, StreamCells, SMTT(30)
  <2> HIDE DEF s
  <2>4. /\ SubSeq(s, 1, k - 2) \in Seq(Cell)
        /\ Len(SubSeq(s, 1, k - 2)) = IF 1 <= k - 2 THEN (k - 2) - 1 + 1 ELSE 0
        /\ \A i \in 1 .. (k - 2) - 1 + 1 : SubSeq(s, 1, k - 2)[i] = s[1 + i - 1]
    <3>1. 1 \in Int /\ k - 2 \in Int BY <1>1
    <3> QED BY <2>2, <3>1, SubSeqProperties
  <2>5. /\ SubSeq(stream, consumed + 1, e - 2) \in Seq(Cell)
        /\ Len(SubSeq(stream, consumed + 1, e - 2)) =
              IF consumed + 1 <= e - 2 THEN (e - 2) - (consumed + 1) + 1 ELSE 0
        /\ \A i \in 1 .. (e - 2) - (consumed + 1) + 1 :
              SubSeq(stream, consumed + 1, e - 2)[i] = stream[(consumed + 1) + i - 1]
    <3>1. consumed + 1 \in Int /\ e - 2 \in Int BY <1>2, <1>5, SMTT(30)
    <3> QED BY <2>3, <3>1, SubSeqProperties
  <2>6. /\ (e - 2) - (consumed + 1) + 1 = k - 2 /\ (k - 2) - 1 + 1 = k - 2
        /\ (1 <= k - 2) = (consumed + 1 <= e - 2)
    BY <1>1, <1>2
  <2>7. \A i \in 1 .. k - 2 : SubSeq(s, 1, k - 2)[i] = SubSeq(stream, consumed + 1, e - 2)[i]
    <3> TAKE i \in 1 .. k - 2
    <3>1. 1 + i - 1 = i /\ (consumed + 1) + i - 1 = consumed + i BY <1>2
    <3> QED BY <1>7, <2>2, <2>4, <2>5, <2>6, <3>1
  <2>8. Len(SubSeq(s, 1, k - 2)) = Len(SubSeq(stream, consumed + 1, e - 2))
        /\ \A i \in 1 .. Len(SubSeq(s, 1, k - 2)) : i \in 1 .. k - 2
    BY <1>1, <2>4, <2>5, <2>6
  <2> QED BY <2>1, <2>4, <2>5, <2>7, <2>8, SeqEqual
<1>12. LineOf(stream, e) = SubSeq(stream, consumed + 1, e - 2)
  <2>1. stream \in Seq(Cell) BY StreamCells
  <2> HIDE DEF e
  <2> QED BY <1>2, <1>5, <1>10, <2>1, NextEnd
<1> QED BY <1>5, <1>10, <1>11, <1>12 DEF k

\* A first line that is not the request line.
LEMMA FirstLineIsWrong ==
    ASSUME TypeOK, InputIntact, ScanInv, HeadInv,
           Scan.line = "OK", mCheckState = "REQUEST", Text # <<"get">>
    PROVE ~WellFormed(Arrived)
<1>1. mReadBuffer.data \in Seq(Cell) /\ DOMAIN mReadBuffer.data = 1 .. Len(mReadBuffer.data)
  BY DEF TypeOK, Buffers
<1>2. CASE \E j \in 1 .. Len(mReadBuffer.data) : mReadBuffer.data[j] = "nul"
  BY <1>1, <1>2 DEF ScanInv
<1>3. CASE \A j \in 1 .. Len(mReadBuffer.data) : mReadBuffer.data[j] # "nul"
  <2> DEFINE e == Scan.index
  <2>1. consumed = 0 BY DEF HeadInv
  <2>2. e \in Nat /\ e \in 0 .. Len(mReadBuffer.data) BY ScanEnds
  <2>3. NextLine(stream, 0, e) /\ Text = LineOf(stream, e) /\ e \in 1 .. received
    <3>1. \A j \in 1 .. e - 2 : mReadBuffer.data[j] # "nul" BY <1>3, <2>2
    <3>2. consumed + e = e BY <2>1, <2>2
    <3> QED BY <2>1, <3>1, <3>2, LineIsNext
  <2> HIDE DEF e
  <2>4. stream \in Seq(Cell) /\ received \in 0 .. Len(stream) BY StreamCells
  <2>5. Ends(stream, e) = {e}
    <3>1. Ends(stream, e) = Ends(stream, 0) \cup {e} BY <2>2, <2>3, <2>4, NextEnd
    <3> QED BY <3>1 DEF Ends
  <2>6. e \in Ends(stream, received) BY <2>3, <2>5 DEF Ends
  <2>7. /\ Min(Ends(stream, received)) \in Ends(stream, received)
        /\ Min(Ends(stream, received)) <= e
    BY <2>4, <2>6, WellFormedPrefix
  <2>8. Min(Ends(stream, received)) = e
    <3>1. \A i \in Ends(stream, received) : i <= e => i \in Ends(stream, e) BY <2>2 DEF Ends
    <3> QED BY <2>5, <2>7, <3>1
  <2> QED BY <2>3, <2>4, <2>6, <2>8, StreamCells, WellFormedPrefix
<1> QED BY <1>2, <1>3

-----------------------------------------------------------------------------
(* Steps of the buffer.                                                    *)

\* The line is taken off: the rest of the buffer comes to the front.
LEMMA AfterTakeLine ==
    ASSUME TypeOK, InputIntact, ScanInv, HeadInv, Scan.line = "OK", TakeLine,
           UNCHANGED <<stream, received>>
    PROVE /\ mReadBuffer' \in Buffers(Cell) /\ InBounds(mReadBuffer') /\ mCheckIndex' = 0
          /\ consumed' = consumed + Scan.index /\ consumed' \in 0 .. received
          /\ Len(mReadBuffer'.data) = Len(mReadBuffer.data) - Scan.index
          /\ DOMAIN mReadBuffer'.data = 1 .. Len(mReadBuffer'.data)
          /\ \A j \in 1 .. Len(mReadBuffer'.data) :
                /\ Scan.index + j \in 1 .. Len(mReadBuffer.data)
                /\ mReadBuffer'.data[j] = mReadBuffer.data[Scan.index + j]
          /\ InputIntact'
<1> DEFINE d == mReadBuffer.data
           k == Scan.index
           b == [mReadBuffer EXCEPT !.data = Scan.data]
<1>1. /\ d \in Seq(Cell) /\ Len(d) \in Nat /\ k \in Nat /\ k \in 0 .. Len(d) /\ k >= 2
      /\ Scan.data = [d EXCEPT ![k - 1] = "nul", ![k] = "nul"]
      /\ Scan.data \in Seq(Cell) /\ Len(Scan.data) = Len(d)
  BY ScanEnds DEF NoLineYet, LineEnded, LineRefused
<1>2. b \in Buffers(Cell) /\ InBounds(b) /\ b.data = Scan.data /\ b.at = mReadBuffer.at
  BY <1>1 DEF TypeOK, Buffers, InBounds
<1>3. mReadBuffer' = readPtrMove(b, k) /\ mCheckIndex' = 0 /\ consumed' = consumed + k
  BY DEF TakeLine
<1>4. mReadBuffer' \in Buffers(Cell) /\ InBounds(mReadBuffer')
  <2> HIDE DEF b, k
  <2>1. k \in 0 .. Len(b.data) BY <1>1, <1>2
  <2> QED BY <1>2, <1>3, <2>1, MoveInBounds
<1>5. mReadBuffer'.data = SubSeq(Scan.data, k + 1, Len(d)) BY <1>1, <1>2, <1>3 DEF readPtrMove
<1>6. /\ Len(d) = received - consumed /\ received \in Nat /\ consumed \in Nat
      /\ \A i \in 1 .. Len(d) :
            /\ d[i] # "nul" => d[i] = stream[consumed + i]
            /\ d[i] = "nul" => stream[consumed + i] \in {"cr", "lf"}
  BY CellsOfBuffer, StreamCells
<1> DEFINE s == Scan.data
           t == mReadBuffer'.data
<1>7. s \in Seq(Cell) /\ Len(s) = Len(d) /\ t = SubSeq(s, k + 1, Len(d))
      /\ \A i \in k + 1 .. Len(d) : s[i] = d[i]
  BY <1>1, <1>5, SMTT(30)
<1> HIDE DEF d, k, s, t
<1>8. /\ Len(t) = Len(d) - k /\ DOMAIN t = 1 .. Len(t)
      /\ \A j \in 1 .. Len(t) : t[j] = s[k + j]
  <2>1. k \in 0 .. Len(s) /\ t = SubSeq(s, k + 1, Len(s)) BY <1>1, <1>7
  <2> QED BY <1>7, <2>1, RestOf
<1>9. \A j \in 1 .. Len(t) : k + j \in 1 .. Len(d) /\ t[j] = d[k + j]
  <2> TAKE j \in 1 .. Len(t)
  <2>1. k + j \in k + 1 .. Len(d) /\ k + j \in 1 .. Len(d) BY <1>1, <1>8
  <2> QED BY <1>7, <1>8, <2>1
<1>10. consumed + k \in 0 .. received /\ consumed' = consumed + k BY <1>1, <1>3, <1>6 DEF k
<1>11. InputIntact'
  <2>1. Len(t) = received' - consumed' BY <1>1, <1>6, <1>8, <1>10
  <2>2. \A i \in DOMAIN t :
           \/ t[i] = stream'[consumed' + i]
           \/ t[i] = "nul" /\ stream'[consumed' + i] \in {"cr", "lf"}
    <3> TAKE i \in DOMAIN t
    <3>1. consumed' + i = consumed + (k + i) BY <1>1, <1>6, <1>8, <1>10
    <3> QED BY <1>6, <1>8, <1>9, <3>1
  <2> QED BY <2>1, <2>2 DEF InputIntact, t
<1> QED BY <1>3, <1>4, <1>8, <1>9, <1>10, <1>11 DEF d, k, t

\* The scan goes as far as it can and the buffer stays.
LEMMA AfterStay ==
    ASSUME TypeOK, InputIntact, ScanInv, Stay, UNCHANGED <<stream, received>>
    PROVE /\ mReadBuffer' \in Buffers(Cell) /\ InBounds(mReadBuffer')
          /\ mReadBuffer'.data = Scan.data /\ Len(mReadBuffer'.data) = Len(mReadBuffer.data)
          /\ DOMAIN mReadBuffer'.data = 1 .. Len(mReadBuffer.data)
          /\ mCheckIndex' = Scan.index /\ mCheckIndex' \in 0 .. Len(mReadBuffer'.data)
          /\ consumed' = consumed
          /\ InputIntact'
          /\ \A i \in 1 .. mCheckIndex' : mReadBuffer'.data[i] \notin {"cr", "lf"}
          /\ \A i \in 1 .. Len(mReadBuffer.data) : mReadBuffer'.data[i] = "nul" =>
                \/ /\ stream[consumed + i] = "cr" /\ stream[consumed + i + 1] = "lf"
                   /\ i < Len(mReadBuffer.data) /\ mReadBuffer'.data[i + 1] = "nul"
                \/ /\ stream[consumed + i] = "lf" /\ stream[(consumed + i) - 1] = "cr"
                   /\ i > 1 /\ mReadBuffer'.data[i - 1] = "nul"
          /\ Scan.line # "OK" => mReadBuffer'.data = mReadBuffer.data
<1> DEFINE d == mReadBuffer.data
           k == Scan.index
           t == mReadBuffer'.data
<1>1. /\ d \in Seq(Cell) /\ Len(d) \in Nat /\ k \in Nat /\ k \in 0 .. Len(d)
      /\ Scan.data \in Seq(Cell) /\ Len(Scan.data) = Len(d)
      /\ NoLineYet(d, Scan) \/ LineEnded(d, mCheckIndex, Scan) \/ LineRefused(d, Scan)
  BY ScanEnds
<1>2. t = Scan.data /\ mCheckIndex' = k /\ consumed' = consumed
      /\ mReadBuffer' \in Buffers(Cell) /\ InBounds(mReadBuffer')
  BY <1>1 DEF Stay, TypeOK, Buffers, InBounds
<1>3. Scan.line # "OK" => t = d /\ NoBreak(d, k)
  BY <1>1, <1>2 DEF NoLineYet, LineEnded, LineRefused
<1>4. Scan.line = "OK" =>
         /\ k >= 2 /\ NoBreak(d, k - 2) /\ d[k - 1] = "cr" /\ d[k] = "lf"
         /\ t = [d EXCEPT ![k - 1] = "nul", ![k] = "nul"]
  BY <1>1, <1>2 DEF NoLineYet, LineEnded, LineRefused
<1>5. /\ Len(d) = received - consumed /\ received \in Nat /\ consumed \in Nat
      /\ \A i \in 1 .. Len(d) :
            /\ d[i] # "nul" => d[i] = stream[consumed + i]
            /\ d[i] = "nul" => stream[consumed + i] \in {"cr", "lf"}
  BY CellsOfBuffer, StreamCells
<1>6. \A i \in 1 .. Len(d) : d[i] = "nul" =>
         \/ /\ stream[consumed + i] = "cr" /\ stream[consumed + i + 1] = "lf"
            /\ i < Len(d) /\ d[i + 1] = "nul"
         \/ /\ stream[consumed + i] = "lf" /\ stream[(consumed + i) - 1] = "cr"
            /\ i > 1 /\ d[i - 1] = "nul"
  <2>1. DOMAIN d = 1 .. Len(d) BY <1>1
  <2> QED BY <2>1 DEF ScanInv
<1>7. t \in Seq(Cell) /\ Len(t) = Len(d) /\ DOMAIN t = 1 .. Len(d) BY <1>1, <1>2
<1> HIDE DEF d, k, t
<1>8. CASE Scan.line = "OK"
  <2>1. /\ k - 1 \in 1 .. Len(d) /\ k \in 1 .. Len(d) /\ (k - 1) + 1 = k
        /\ t[k - 1] = "nul" /\ t[k] = "nul"
        /\ \A i \in 1 .. Len(d) : i # k - 1 /\ i # k => t[i] = d[i]
    BY <1>1, <1>4, <1>8
  <2>2. /\ stream[consumed + (k - 1)] = "cr" /\ stream[consumed + k] = "lf"
        /\ consumed + (k - 1) + 1 = consumed + k /\ (consumed + k) - 1 = consumed + (k - 1)
    <3>1. stream[consumed + (k - 1)] = "cr" /\ stream[consumed + k] = "lf"
      BY <1>4, <1>5, <1>8, <2>1
    <3>2. consumed + (k - 1) + 1 = consumed + k /\ (consumed + k) - 1 = consumed + (k - 1)
      BY <1>1, <1>5
    <3> QED BY <3>1, <3>2
  <2>3. \A i \in 1 .. k : t[i] \notin {"cr", "lf"}
    <3> TAKE i \in 1 .. k
    <3>1. CASE i \in {k - 1, k} BY <2>1, <3>1
    <3>2. CASE i \notin {k - 1, k}
      <4>1. i \in 1 .. k - 2 /\ i \in 1 .. Len(d) BY <1>1, <3>2
      <4> QED BY <1>4, <1>8, <2>1, <3>2, <4>1 DEF NoBreak
    <3> QED BY <3>1, <3>2
  <2>4. \A i \in 1 .. Len(d) : t[i] = "nul" =>
           \/ /\ stream[consumed + i] = "cr" /\ stream[consumed + i + 1] = "lf"
              /\ i < Len(d) /\ t[i + 1] = "nul"
           \/ /\ stream[consumed + i] = "lf" /\ stream[(consumed + i) - 1] = "cr"
              /\ i > 1 /\ t[i - 1] = "nul"
    <3> SUFFICES ASSUME NEW i \in 1 .. Len(d), t[i] = "nul"
                 PROVE \/ /\ stream[consumed + i] = "cr" /\ stream[consumed + i + 1] = "lf"
                          /\ i < Len(d) /\ t[i + 1] = "nul"
                       \/ /\ stream[consumed + i] = "lf" /\ stream[(consumed + i) - 1] = "cr"
                          /\ i > 1 /\ t[i - 1] = "nul"
      OBVIOUS
    <3>1. CASE i = k - 1
      <4>1. i < Len(d) /\ i + 1 = k BY <1>1, <2>1, <3>1
      <4> QED BY <2>1, <2>2, <3>1, <4>1
    <3>2. CASE i = k
      <4>1. i > 1 BY <1>4, <1>8, <3>2
      <4> QED BY <2>1, <2>2, <3>2, <4>1
    <3>3. CASE i # k - 1 /\ i # k
      <4>1. d[i] = "nul" BY <2>1, <3>3
      <4>2. \A j \in 1 .. Len(d) : d[j] = "nul" => t[j] = "nul" BY <2>1
      <4>3. (i < Len(d) => i + 1 \in 1 .. Len(d)) /\ (i > 1 => i - 1 \in 1 .. Len(d)) BY <1>1
      <4> QED BY <1>6, <4>1, <4>2, <4>3
    <3> QED BY <3>1, <3>2, <3>3
  <2>5. InputIntact'
    <3>1. \A i \in 1 .. Len(d) :
             \/ t[i] = stream[consumed + i]
             \/ t[i] = "nul" /\ stream[consumed + i] \in {"cr", "lf"}
      BY <1>5, <2>1, <2>2
    <3> QED BY <1>2, <1>5, <1>7, <3>1 DEF InputIntact, t
  <2> QED BY <1>1, <1>2, <1>7, <1>8, <2>3, <2>4, <2>5 DEF d, k, t
<1>9. CASE Scan.line # "OK"
  <2>1. t = d BY <1>3, <1>9
  <2>2. InputIntact'
    <3>1. Len(t) = received' - consumed' BY <1>2, <1>5, <1>7
    <3>2. \A i \in DOMAIN t :
             \/ t[i] = stream'[consumed' + i]
             \/ t[i] = "nul" /\ stream'[consumed' + i] \in {"cr", "lf"}
      BY <1>2, <1>5, <1>7, <2>1
    <3> QED BY <3>1, <3>2 DEF InputIntact, t
  <2>3. \A i \in 1 .. k : t[i] \notin {"cr", "lf"} BY <1>3, <1>9 DEF NoBreak
  <2> QED BY <1>1, <1>2, <1>6, <1>7, <1>9, <2>1, <2>2, <2>3 DEF d, k, t
<1> QED BY <1>8, <1>9

\* A read appends what the peer sent next.
LEMMA AfterRead ==
    ASSUME TypeOK, InputIntact, handleRead
    PROVE /\ mReadBuffer' \in Buffers(Cell) /\ InBounds(mReadBuffer')
          /\ received' \in received .. sent /\ UNCHANGED <<stream, sent, fin, reset, request>>
          /\ Len(mReadBuffer'.data) \in Nat /\ Len(mReadBuffer.data) <= Len(mReadBuffer'.data)
          /\ Len(mReadBuffer'.data) = received' - consumed
          /\ DOMAIN mReadBuffer'.data = 1 .. Len(mReadBuffer'.data)
          /\ \A i \in 1 .. Len(mReadBuffer.data) : mReadBuffer'.data[i] = mReadBuffer.data[i]
          /\ \A i \in Len(mReadBuffer.data) + 1 .. Len(mReadBuffer'.data) :
                mReadBuffer'.data[i] = stream[consumed + i] /\ stream[consumed + i] # "nul"
<1> DEFINE n == Least(avail(mReadBuffer), sent - received)
           d == mReadBuffer.data
           new == SubSeq(stream, received + 1, received + n)
           t == mReadBuffer'.data
<1>1. /\ d \in Seq(Cell) /\ Len(d) \in Nat /\ mReadBuffer.at \in Nat /\ kBufferSize \in Nat
      /\ mReadBuffer \in Buffers(Cell) /\ InBounds(mReadBuffer)
  BY SizeAssumption DEF TypeOK, Buffers
<1>2. avail(mReadBuffer) \in Nat BY <1>1 DEF avail, InBounds
<1>3. /\ received \in Nat /\ sent \in Nat /\ consumed \in Nat /\ received <= sent
      /\ sent <= Len(stream) /\ Len(stream) \in Nat
  BY StreamCells DEF TypeOK
<1>4. n \in Nat /\ n <= avail(mReadBuffer) /\ n <= sent - received BY <1>2, <1>3 DEF Least
<1>5. /\ received' = received + n /\ UNCHANGED <<stream, sent, fin, reset, request>>
      /\ mReadBuffer' = IF n = 0 THEN mReadBuffer ELSE Receive(mReadBuffer, new)
  BY DEF handleRead, peerVars
<1> HIDE DEF n
<1>6. /\ new \in Seq(Cell) /\ Len(new) = n /\ \A i \in 1 .. n : new[i] = stream[received + i]
  <2>1. \A i \in received + 1 .. received + n : stream[i] \in Cell BY <1>3, <1>4, StreamCells
  <2>2. /\ new \in Seq(Cell)
        /\ Len(new) = IF received + 1 <= received + n
                      THEN (received + n) - (received + 1) + 1 ELSE 0
        /\ \A i \in 1 .. (received + n) - (received + 1) + 1 : new[i] = stream[(received + 1) + i - 1]
    <3>1. received + 1 \in Int /\ received + n \in Int BY <1>3, <1>4
    <3> QED BY <2>1, <3>1, SubSeqProperties
  <2>3. (received + n) - (received + 1) + 1 = n /\ (received + 1 <= received + n) = (n # 0)
    BY <1>3, <1>4
  <2>4. \A i \in 1 .. n : (received + 1) + i - 1 = received + i BY <1>3
  <2> HIDE DEF new
  <2>5. \A i \in 1 .. n : new[i] = stream[received + i] BY <2>2, <2>3, <2>4
  <2> QED BY <2>2, <2>3, <2>5
<1> HIDE DEF new, d, t
<1>7. /\ mReadBuffer' \in Buffers(Cell) /\ InBounds(mReadBuffer')
      /\ t \in Seq(Cell) /\ Len(t) = Len(d) + n
      /\ \A i \in 1 .. Len(d) : t[i] = d[i]
      /\ \A i \in Len(d) + 1 .. Len(t) : t[i] = new[i - Len(d)]
  <2>1. CASE n = 0
    <3>1. mReadBuffer' = mReadBuffer /\ t = d BY <1>5, <2>1 DEF t, d
    <3>2. \A i \in Len(d) + 1 .. Len(t) : FALSE BY <1>1, <3>1
    <3> QED BY <1>1, <2>1, <3>1, <3>2
  <2>2. CASE n # 0
    <3>1. mReadBuffer' = Receive(mReadBuffer, new) BY <1>5, <2>2
    <3>2. mReadBuffer' \in Buffers(Cell) /\ InBounds(mReadBuffer')
      BY <1>1, <1>4, <1>6, <3>1, ReceiveInBounds
    <3>3. t = d \o new BY <3>1 DEF Receive, t, d
    <3>4. /\ t \in Seq(Cell) /\ Len(t) = Len(d) + Len(new)
          /\ \A i \in 1 .. Len(d) + Len(new) :
                t[i] = IF i <= Len(d) THEN d[i] ELSE new[i - Len(d)]
      BY <1>1, <1>6, <3>3, ConcatProperties
    <3>5. \A i \in 1 .. Len(d) : t[i] = d[i] BY <1>1, <1>4, <1>6, <3>4
    <3>6. \A i \in Len(d) + 1 .. Len(t) : t[i] = new[i - Len(d)] BY <1>1, <1>4, <1>6, <3>4
    <3> QED BY <1>6, <3>2, <3>4, <3>5, <3>6
  <2> QED BY <2>1, <2>2
<1>8. Len(d) = received - consumed BY CellsOfBuffer DEF d
<1>9. Len(t) = received' - consumed BY <1>3, <1>4, <1>5, <1>7, <1>8
<1>10. ASSUME NEW i \in Len(d) + 1 .. Len(t)
       PROVE t[i] = stream[consumed + i] /\ stream[consumed + i] # "nul"
  <2>1. i - Len(d) \in 1 .. n
    <3>1. Len(t) = Len(d) + n BY <1>7
    <3> QED BY <1>1, <1>4, <3>1
  <2>2. consumed + i \in 1 .. Len(stream) BY <1>1, <1>3, <1>4, <1>7, <1>8, SMTT(30)
  <2>3. received + (i - Len(d)) = consumed + i BY <1>3, <1>8
  <2> QED BY <1>6, <1>7, <2>1, <2>2, <2>3, StreamCells
<1>11. received' \in received .. sent BY <1>3, <1>4, <1>5
<1>12. Len(t) \in Nat /\ Len(d) <= Len(t) /\ DOMAIN t = 1 .. Len(t) BY <1>1, <1>4, <1>7
<1> QED BY <1>5, <1>7, <1>9, <1>10, <1>11, <1>12 DEF t, d

\* What the bytes say does not change when more of them come.
LEMMA ReadKeepsInput ==
    ASSUME TypeOK, InputIntact, ScanInv, HeadInv, handleRead
    PROVE /\ InputIntact' /\ ScanInv' /\ HeadInv'
          /\ ~WellFormed(Arrived) => ~WellFormed(Arrived')
          /\ Complete(Arrived) => Complete(Arrived')
          /\ Stuck => Stuck'
<1> DEFINE d == mReadBuffer.data
           t == mReadBuffer'.data
<1>1. /\ UNCHANGED <<stream, request>> /\ Len(t) \in Nat /\ Len(d) <= Len(t)
      /\ Len(t) = received' - consumed /\ DOMAIN t = 1 .. Len(t)
      /\ \A i \in 1 .. Len(d) : t[i] = d[i]
      /\ \A i \in Len(d) + 1 .. Len(t) : t[i] = stream[consumed + i] /\ stream[consumed + i] # "nul"
  BY AfterRead
<1>2. /\ mCheckIndex' = mCheckIndex /\ mCheckState' = mCheckState /\ consumed' = consumed
      /\ contentLength' = contentLength /\ reqAlive' = reqAlive /\ stream' = stream
  BY <1>1 DEF request
<1>3. /\ d \in Seq(Cell) /\ t \in Seq(Cell) /\ Len(d) \in Nat /\ DOMAIN d = 1 .. Len(d)
      /\ mCheckIndex \in 0 .. Len(d)
  BY AfterRead, SMTT(30) DEF TypeOK, Buffers
<1>4. /\ received' \in received .. Len(stream) /\ received \in Nat /\ received' \in 0 .. Len(stream)
      /\ received \in 0 .. received' /\ received \in 0 .. Len(stream) /\ stream \in Seq(Cell)
  <2>1. received' \in received .. sent BY AfterRead
  <2>2. sent \in Nat /\ received \in Nat /\ sent <= Len(stream) /\ Len(stream) \in Nat
        /\ stream \in Seq(Cell)
    BY StreamCells DEF TypeOK
  <2> QED BY <2>1, <2>2
<1>5. Arrived = Prefix(stream, received) /\ Arrived' = Prefix(stream, received')
  BY <1>2 DEF Arrived, Prefix
<1>6. WellFormed(Arrived') => WellFormed(Arrived) BY <1>4, <1>5, WellFormedKept
<1>7. Complete(Arrived) => Complete(Arrived') BY <1>4, <1>5, CompleteKept
<1> HIDE DEF d, t
<1>8. InputIntact'
  <2>1. \A i \in 1 .. Len(d) :
           \/ d[i] = stream[consumed + i]
           \/ d[i] = "nul" /\ stream[consumed + i] \in {"cr", "lf"}
    BY <1>3 DEF InputIntact, d
  <2>2. \A i \in 1 .. Len(t) : i \in 1 .. Len(d) \/ i \in Len(d) + 1 .. Len(t) BY <1>1, <1>3
  <2>3. \A i \in DOMAIN t :
           \/ t[i] = stream[consumed + i]
           \/ t[i] = "nul" /\ stream[consumed + i] \in {"cr", "lf"}
    BY <1>1, <2>1, <2>2
  <2> QED BY <1>1, <1>2, <2>3 DEF InputIntact, t
<1>9. \A i \in 1 .. Len(t) : t[i] = "nul" => i \in 1 .. Len(d) /\ d[i] = "nul"
  <2>1. \A i \in 1 .. Len(t) : i \in 1 .. Len(d) \/ i \in Len(d) + 1 .. Len(t) BY <1>1, <1>3
  <2> QED BY <1>1, <2>1
<1>10. ScanInv'
  <2>1. \A i \in 1 .. mCheckIndex' : t[i] \notin {"cr", "lf"}
    <3>1. \A i \in 1 .. mCheckIndex : d[i] \notin {"cr", "lf"} /\ i \in 1 .. Len(d)
      BY <1>3 DEF ScanInv, d
    <3> QED BY <1>1, <1>2, <3>1
  <2>2. ASSUME NEW i \in DOMAIN t, t[i] = "nul"
        PROVE \/ /\ stream'[consumed' + i] = "cr" /\ stream'[consumed' + i + 1] = "lf"
                 /\ i < Len(t) /\ t[i + 1] = "nul"
              \/ /\ stream'[consumed' + i] = "lf" /\ stream'[(consumed' + i) - 1] = "cr"
                 /\ i > 1 /\ t[i - 1] = "nul"
    <3>1. i \in 1 .. Len(d) /\ d[i] = "nul" BY <1>1, <1>9, <2>2
    <3>2. \/ /\ stream[consumed + i] = "cr" /\ stream[consumed + i + 1] = "lf"
             /\ i < Len(d) /\ d[i + 1] = "nul"
          \/ /\ stream[consumed + i] = "lf" /\ stream[(consumed + i) - 1] = "cr"
             /\ i > 1 /\ d[i - 1] = "nul"
      BY <1>3, <3>1 DEF ScanInv, d
    <3>3. /\ i < Len(d) => i + 1 \in 1 .. Len(d) /\ i < Len(t)
          /\ i > 1 => i - 1 \in 1 .. Len(d)
      BY <1>1, <1>3, <3>1
    <3> QED BY <1>1, <1>2, <3>2, <3>3
  <2>3. \A i \in DOMAIN t :
           t[i] = "nul" /\ mCheckState' = "REQUEST" => i <= mCheckIndex' /\ ~WellFormed(Arrived')
    <3>1. \A i \in 1 .. Len(d) :
             d[i] = "nul" /\ mCheckState = "REQUEST" => i <= mCheckIndex /\ ~WellFormed(Arrived)
      BY <1>3 DEF ScanInv, d
    <3> QED BY <1>1, <1>2, <1>6, <1>9, <3>1
  <2>4. mCheckState' = "HEADER" => "nul" \notin Range(t)
    <3>1. mCheckState = "HEADER" => \A i \in 1 .. Len(d) : d[i] # "nul"
      BY <1>3 DEF ScanInv, d, Range
    <3> QED BY <1>1, <1>2, <1>9, <3>1 DEF Range
  <2> QED BY <2>1, <2>2, <2>3, <2>4 DEF ScanInv, t
<1>11. HeadInv'
  <2>1. Taken' = Taken BY <1>2 DEF Taken
  <2>2. consumed # 0 => consumed \in LineEnds(Arrived')
    <3>1. Ends(stream, received) \subseteq Ends(stream, received') BY <1>4 DEF Ends
    <3>2. LineEnds(Arrived) = Ends(stream, received) /\ LineEnds(Arrived') = Ends(stream, received')
      BY <1>4, <1>5, TextOfPrefix
    <3> QED BY <3>1, <3>2 DEF HeadInv
  <2>3. mCheckState = "SUCCESS" => contentLength \in 0 .. received' - consumed
    <3>1. mCheckState = "SUCCESS" => contentLength \in 0 .. received - consumed BY DEF HeadInv
    <3>2. consumed \in Nat BY StreamCells
    <3> QED BY <1>4, <3>1, <3>2
  <2> QED BY <1>2, <2>1, <2>2, <2>3 DEF HeadInv
<1>12. ASSUME Stuck PROVE Stuck'
  <2>1. /\ d # <<>> /\ (Broken(d) \/ (mCheckState = "REQUEST" /\ "nul" \in Range(d)))
    BY <1>12, ScanEnds DEF Stuck, d
  <2>2. t # <<>> BY <1>1, <1>3, <2>1
  <2>3. "nul" \in Range(d) => "nul" \in Range(t)
    <3>1. \A i \in DOMAIN d : i \in DOMAIN t /\ t[i] = d[i] BY <1>1, <1>3
    <3> QED BY <3>1 DEF Range
  <2>4. Broken(d) => Broken(t)
    <3> SUFFICES ASSUME NEW i \in 1 .. Len(d), NoBreak(d, i - 1),
                        d[i] = "lf" \/ (d[i] = "cr" /\ i < Len(d) /\ d[i + 1] # "lf")
                 PROVE Broken(t)
      BY DEF Broken
    <3>1. i \in 1 .. Len(t) /\ t[i] = d[i] BY <1>1, <1>3
    <3>2. i < Len(d) => i + 1 \in 1 .. Len(d) /\ i < Len(t) BY <1>1, <1>3
    <3>3. \A j \in 1 .. i - 1 : j \in 1 .. Len(d) BY <1>3
    <3>4. NoBreak(t, i - 1) BY <1>1, <3>3 DEF NoBreak
    <3> QED BY <1>1, <3>1, <3>2, <3>4 DEF Broken
  <2>5. Broken(t) => Scan'.line = "BAD"
    <3>1. mCheckIndex' \in 0 .. Len(t) /\ NoBreak(t, mCheckIndex')
      BY <1>1, <1>2, <1>3, <1>10 DEF ScanInv, t, NoBreak
    <3>2. Scan' = parseLine(t, mCheckIndex') BY DEF Scan, t
    <3> QED BY <1>3, <3>1, <3>2, BadIsBroken
  <2> QED BY <1>2, <2>1, <2>2, <2>3, <2>4, <2>5 DEF Stuck, t
<1> QED BY <1>6, <1>7, <1>8, <1>10, <1>11, <1>12

\* Where the scan stays: nothing changes but the ends it has marked.
LEMMA StayKeepsInput ==
    ASSUME TypeOK, InputIntact, ScanInv, HeadInv, Stay,
           UNCHANGED <<stream, received, contentLength, reqAlive>>,
           \/ mCheckState' = mCheckState
           \/ /\ mCheckState = "BODY" /\ mCheckState' = "SUCCESS"
              /\ contentLength \in 0 .. Scan.index,
           Scan.line = "OK" => mCheckState' # "HEADER",
           Scan.line = "OK" /\ mCheckState' = "REQUEST" => Text # <<"get">>
    PROVE InputIntact' /\ ScanInv' /\ HeadInv' /\ Arrived' = Arrived
<1> DEFINE d == mReadBuffer.data
           t == mReadBuffer'.data
<1>1. /\ Len(t) = Len(d) /\ DOMAIN t = 1 .. Len(d) /\ mCheckIndex' = Scan.index
      /\ consumed' = consumed /\ InputIntact'
      /\ \A i \in 1 .. mCheckIndex' : t[i] \notin {"cr", "lf"}
      /\ \A i \in 1 .. Len(d) : t[i] = "nul" =>
            \/ /\ stream[consumed + i] = "cr" /\ stream[consumed + i + 1] = "lf"
               /\ i < Len(d) /\ t[i + 1] = "nul"
            \/ /\ stream[consumed + i] = "lf" /\ stream[(consumed + i) - 1] = "cr"
               /\ i > 1 /\ t[i - 1] = "nul"
      /\ Scan.line # "OK" => t = d
  BY AfterStay
<1>2. /\ Len(d) \in Nat /\ Scan.index \in mCheckIndex .. Len(d) /\ mCheckIndex \in Nat
      /\ Scan.index \in Nat /\ DOMAIN d = 1 .. Len(d)
      /\ NoLineYet(d, Scan) \/ LineEnded(d, mCheckIndex, Scan) \/ LineRefused(d, Scan)
  BY ScanEnds
<1>3. Len(d) = received - consumed /\ received \in Nat /\ consumed \in Nat
  BY CellsOfBuffer, StreamCells
<1>4. Arrived' = Arrived /\ Taken' = Taken BY <1>1 DEF Arrived, Taken
<1>5. t = Scan.data BY AfterStay
<1> HIDE DEF d, t
<1>6. mCheckState' = "REQUEST" => mCheckState = "REQUEST" OBVIOUS
<1>7. mCheckState' = "HEADER" => mCheckState = "HEADER" OBVIOUS
<1>8. ASSUME NEW i \in DOMAIN t, t[i] = "nul", mCheckState' = "REQUEST"
      PROVE i <= mCheckIndex' /\ ~WellFormed(Arrived)
  <2>1. CASE Scan.line = "OK"
    <3>1. ~WellFormed(Arrived) BY <1>6, <1>8, <2>1, FirstLineIsWrong
    <3>2. /\ Scan.index >= 2 /\ mCheckIndex <= Scan.index - 2
          /\ t = [d EXCEPT ![Scan.index - 1] = "nul", ![Scan.index] = "nul"]
      BY <1>2, <1>5, <2>1 DEF NoLineYet, LineEnded, LineRefused
    <3>3. i \in 1 .. Len(d) /\ (i = Scan.index - 1 \/ i = Scan.index \/ d[i] = "nul")
      BY <1>1, <1>2, <1>8, <3>2
    <3>4. d[i] = "nul" => i <= mCheckIndex BY <1>2, <1>6, <1>8, <3>3 DEF ScanInv, d
    <3> QED BY <1>1, <1>2, <3>1, <3>2, <3>3, <3>4
  <2>2. CASE Scan.line # "OK"
    <3>1. i <= mCheckIndex /\ ~WellFormed(Arrived)
      BY <1>1, <1>2, <1>6, <1>8, <2>2 DEF ScanInv, d
    <3> QED BY <1>1, <1>2, <3>1
  <2> QED BY <2>1, <2>2
<1>9. mCheckState' = "HEADER" => "nul" \notin Range(t)
  BY <1>1, <1>7 DEF ScanInv, d
<1>10. ScanInv'
  <2>1. \A i \in 1 .. mCheckIndex' : t[i] \notin {"cr", "lf"} BY <1>1
  <2>2. \A i \in DOMAIN t : t[i] = "nul" =>
           \/ /\ stream'[consumed' + i] = "cr" /\ stream'[consumed' + i + 1] = "lf"
              /\ i < Len(t) /\ t[i + 1] = "nul"
           \/ /\ stream'[consumed' + i] = "lf" /\ stream'[(consumed' + i) - 1] = "cr"
              /\ i > 1 /\ t[i - 1] = "nul"
    BY <1>1
  <2>3. \A i \in DOMAIN t :
           t[i] = "nul" /\ mCheckState' = "REQUEST" => i <= mCheckIndex' /\ ~WellFormed(Arrived')
    BY <1>4, <1>8
  <2> QED BY <1>9, <2>1, <2>2, <2>3 DEF ScanInv, t
<1>11. HeadInv'
  <2>1. mCheckState' = "SUCCESS" => contentLength \in 0 .. received - consumed
    <3>1. contentLength \in 0 .. Scan.index => contentLength \in 0 .. received - consumed
      BY <1>2, <1>3
    <3> QED BY <3>1 DEF HeadInv
  <2> QED BY <1>1, <1>4, <2>1 DEF HeadInv
<1> QED BY <1>1, <1>4, <1>10, <1>11

\* Where a line is taken off, the head has one line more.
LEMMA TakeKeepsInput ==
    ASSUME TypeOK, InputIntact, ScanInv, HeadInv, Scan.line = "OK", TakeLine,
           UNCHANGED <<stream, received>>,
           \/ /\ mCheckState = "REQUEST" /\ Text = <<"get">> /\ mCheckState' = "HEADER"
              /\ UNCHANGED <<contentLength, reqAlive>>
           \/ /\ mCheckState = "HEADER"
              /\ CASE Text = <<>> ->
                        /\ mCheckState' = IF contentLength # 0 THEN "BODY" ELSE "SUCCESS"
                        /\ UNCHANGED <<contentLength, reqAlive>>
                   [] Names(Text, Connection) ->
                        reqAlive' = Keeps(Text) /\ UNCHANGED <<mCheckState, contentLength>>
                   [] Names(Text, DOMAIN LengthOf) ->
                        contentLength' = LengthOf[Text[1]] /\ UNCHANGED <<mCheckState, reqAlive>>
                   [] OTHER -> UNCHANGED <<mCheckState, contentLength, reqAlive>>
    PROVE InputIntact' /\ ScanInv' /\ HeadInv' /\ Arrived' = Arrived
          /\ contentLength' \in Range(LengthOf) /\ reqAlive' \in BOOLEAN
<1> DEFINE d == mReadBuffer.data
           t == mReadBuffer'.data
           k == Scan.index
           e == consumed + k
<1>1. /\ mCheckIndex' = 0 /\ consumed' = e /\ consumed' \in 0 .. received /\ InputIntact'
      /\ DOMAIN t = 1 .. Len(t)
      /\ \A j \in 1 .. Len(t) : k + j \in 1 .. Len(d) /\ t[j] = d[k + j]
  BY AfterTakeLine
<1>2. /\ k \in Nat /\ mCheckIndex \in Nat /\ k >= 2 /\ mCheckIndex <= k - 2 /\ Len(d) \in Nat
      /\ Scan.data = [d EXCEPT ![k - 1] = "nul", ![k] = "nul"] /\ k <= Len(d)
      /\ d \in Seq(Cell) /\ DOMAIN d = 1 .. Len(d)
  BY ScanEnds DEF NoLineYet, LineEnded, LineRefused
<1>3. Arrived' = Arrived BY DEF Arrived
<1>4. \A j \in 1 .. Len(d) : d[j] = "nul" => mCheckState = "REQUEST" /\ j <= mCheckIndex
  <2>1. mCheckState = "HEADER" => \A j \in 1 .. Len(d) : d[j] # "nul"
    BY <1>2 DEF ScanInv, Range
  <2> QED BY <1>2, <2>1 DEF ScanInv
<1>5. \A j \in 1 .. k - 2 : d[j] # "nul"
  <2>1. CASE mCheckState = "HEADER" BY <1>2, <1>4, <2>1
  <2>2. CASE mCheckState = "REQUEST"
    <3>1. Text = <<"get">> /\ Text = SubSeq(Scan.data, 1, k - 2) BY <2>2 DEF Text
    <3>2. Scan.data \in Seq(Cell) /\ Len(Scan.data) = Len(d) BY ScanEnds
    <3>3. Len(SubSeq(Scan.data, 1, k - 2)) = k - 2 BY <1>2, <3>2
    <3>4. k = 3
      <4>1. Len(Text) = 1 BY <3>1
      <4>2. k - 2 = 1 BY <3>1, <3>3, <4>1
      <4> QED BY <1>2, <4>2
    <3>5. Scan.data[1] = "get" BY <1>2, <3>1, <3>2, <3>4
    <3>6. d[1] = "get" BY <1>2, <3>4, <3>5
    <3> QED BY <3>4, <3>6
  <2> QED BY <2>1, <2>2
<1>6. NextLine(stream, consumed, e) /\ Text = LineOf(stream, e) /\ e \in 1 .. received /\ e \in Nat
  BY <1>5, LineIsNext
<1>7. stream \in Seq(Cell) /\ consumed \in Nat /\ received \in 0 .. Len(stream) /\ received \in Nat
  BY StreamCells
<1>8. Taken = Prefix(stream, consumed) /\ Taken' = Prefix(stream, e)
  BY <1>1 DEF Taken, Prefix
<1>9. HeadEnd(Taken) = 0 BY DEF HeadInv
<1> HIDE DEF d, t, k, e
<1>10. /\ HeadEnd(Taken') = IF Text = <<>> THEN e ELSE 0
       /\ BodyLength(Taken') = IF Names(Text, DOMAIN LengthOf)
                               THEN LengthOf[Text[1]] ELSE BodyLength(Taken)
       /\ KeptAlive(Taken') = IF Names(Text, Connection)
                              THEN Text = <<"keep">> ELSE KeptAlive(Taken)
  BY <1>6, <1>7, <1>8, <1>9, NextHead
<1>11. WellFormed(Taken')
  <2>1. consumed = 0 => Text = <<"get">> BY DEF HeadInv
  <2>2. WellFormed(Taken) BY DEF HeadInv
  <2> QED BY <1>6, <1>7, <1>8, <2>1, <2>2, NextWellFormed
<1>12. consumed' \in LineEnds(Arrived')
  <2>1. Ends(stream, e) = Ends(stream, consumed) \cup {e} BY <1>6, <1>7, NextEnd
  <2>2. e \in Ends(stream, received) BY <1>6, <1>7, <2>1 DEF Ends
  <2>3. LineEnds(Arrived) = Ends(stream, received) BY <1>7, TextOfPrefix, StreamCells
  <2> QED BY <1>1, <1>3, <2>2, <2>3
<1>13. ScanInv'
  <2>1. \A j \in 1 .. Len(t) : t[j] # "nul" BY <1>1, <1>2, <1>4
  <2> QED BY <1>1, <2>1 DEF ScanInv, t, Range
<1>14. consumed' # 0 BY <1>1, <1>6
<1>15. contentLength \in Range(LengthOf) /\ reqAlive \in BOOLEAN BY DEF TypeOK
<1>16. contentLength = BodyLength(Taken) /\ reqAlive = KeptAlive(Taken) BY DEF HeadInv
<1> DEFINE Goal == /\ mCheckState' # "REQUEST"
                   /\ HeadEnd(Taken') = IF mCheckState' \in {"BODY", "SUCCESS"} THEN e ELSE 0
                   /\ contentLength' = BodyLength(Taken')
                   /\ reqAlive' = KeptAlive(Taken')
                   /\ mCheckState' = "BODY" => contentLength' # 0
                   /\ mCheckState' = "SUCCESS" => contentLength' = 0
                   /\ contentLength' \in Range(LengthOf) /\ reqAlive' \in BOOLEAN
<1>17. ~(Names(Text, Connection) /\ Names(Text, DOMAIN LengthOf))
  BY Lengths DEF Names, Connection
<1>18. Goal
  <2>1. CASE mCheckState = "REQUEST"
    <3>1. Text = <<"get">> /\ mCheckState' = "HEADER" /\ UNCHANGED <<contentLength, reqAlive>>
      BY <2>1
    <3>2. Text # <<>> /\ ~Names(Text, Connection) /\ ~Names(Text, DOMAIN LengthOf)
      BY <3>1, Lengths DEF Names, Connection
    <3> QED BY <1>10, <1>15, <1>16, <3>1, <3>2
  <2>2. CASE mCheckState = "HEADER" /\ Text = <<>>
    <3>1. ~Names(Text, Connection) /\ ~Names(Text, DOMAIN LengthOf) BY <2>2 DEF Names
    <3>2. /\ mCheckState' = IF contentLength # 0 THEN "BODY" ELSE "SUCCESS"
          /\ UNCHANGED <<contentLength, reqAlive>>
      BY <2>2, <3>1
    <3> QED BY <1>10, <1>15, <1>16, <2>2, <3>1, <3>2
  <2>3. CASE mCheckState = "HEADER" /\ Names(Text, Connection)
    <3>1. Text # <<>> BY <2>3 DEF Names
    <3>2. reqAlive' = Keeps(Text) /\ UNCHANGED <<mCheckState, contentLength>> BY <1>17, <2>3, <3>1
    <3> QED BY <1>10, <1>15, <1>16, <1>17, <2>3, <3>1, <3>2 DEF Keeps
  <2>4. CASE mCheckState = "HEADER" /\ Names(Text, DOMAIN LengthOf)
    <3>1. Text # <<>> /\ Text[1] \in DOMAIN LengthOf BY <2>4 DEF Names
    <3>2. contentLength' = LengthOf[Text[1]] /\ UNCHANGED <<mCheckState, reqAlive>>
      BY <1>17, <2>4, <3>1
    <3>3. contentLength' \in Range(LengthOf) BY <3>1, <3>2, Lengths
    <3> QED BY <1>10, <1>15, <1>16, <1>17, <2>4, <3>1, <3>2, <3>3
  <2>5. CASE /\ mCheckState = "HEADER" /\ Text # <<>>
             /\ ~Names(Text, Connection) /\ ~Names(Text, DOMAIN LengthOf)
    <3>1. UNCHANGED <<mCheckState, contentLength, reqAlive>> BY <2>5
    <3> QED BY <1>10, <1>15, <1>16, <2>5, <3>1
  <2> QED BY <2>1, <2>2, <2>3, <2>4, <2>5
<1> HIDE DEF Goal
<1>19. HeadInv'
  <2>1. mCheckState' = "SUCCESS" => contentLength' \in 0 .. received' - consumed'
    BY <1>1, <1>7, <1>18 DEF Goal
  <2> QED BY <1>1, <1>11, <1>12, <1>14, <1>18, <2>1 DEF HeadInv, Goal
<1> QED BY <1>1, <1>3, <1>13, <1>18, <1>19 DEF Goal

-----------------------------------------------------------------------------
(* Steps of the answer.                                                    *)

\* A response has no status line of its own among its cells.
LEMMA ReplyCells ==
    ASSUME NEW r \in Replies \cup {NewResponse}
    PROVE /\ r.body \in Seq(OutCell) /\ {"200", "400"} \cap Range(r.body) = {}
          /\ StatusOf(r) \in {"200", "400"} /\ {"200", "400"} \subseteq OutCell
          /\ StatusOf(r) = "400" => r.path # None
          /\ r \in Replies => /\ FileOf(r) \in Seq(OutCell)
                              /\ {"200", "400"} \cap Range(FileOf(r)) = {}
<1>1. {"200", "400"} \subseteq OutCell BY DEF OutCell
<1>2. StatusOf(r) \in {"200", "400"} /\ (StatusOf(r) = "400" => r.path # None) BY DEF StatusOf
<1>3. CASE r \in Replies
  <2>1. /\ r.body \in Seq(Range(r.body))
        /\ r.path # None => r.path.content \in Seq(Range(r.path.content))
        /\ {"200", "400"} \cap (Range(r.body) \cup Range(FileOf(r))) = {}
    BY <1>3, RepliesAssumption
  <2>2. Range(r.body) \subseteq OutCell /\ Range(FileOf(r)) \subseteq OutCell BY <1>3 DEF OutCell
  <2>3. r.body \in Seq(OutCell) BY <2>1, <2>2, SeqMonotonic
  <2>4. FileOf(r) \in Seq(Range(FileOf(r)))
    <3>1. CASE r.path # None /\ Open(r.path) = "IS_FILE" BY <2>1, <3>1 DEF FileOf
    <3>2. CASE ~(r.path # None /\ Open(r.path) = "IS_FILE")
      <4>1. FileOf(r) = <<>> BY <3>2 DEF FileOf
      <4> QED BY <4>1, EmptySeq
    <3> QED BY <3>1, <3>2
  <2>5. FileOf(r) \in Seq(OutCell) BY <2>2, <2>4, SeqMonotonic
  <2> QED BY <1>1, <1>2, <2>1, <2>3, <2>5
<1>4. CASE r = NewResponse /\ r \notin Replies
  <2>1. r.body = <<>> BY <1>4 DEF NewResponse
  <2>2. r.body \in Seq(OutCell) /\ Range(r.body) = {} BY <2>1 DEF Range
  <2> QED BY <1>1, <1>2, <1>4, <2>2
<1> QED BY <1>3, <1>4

\* A response goes into an empty buffer: its status line always fits.
LEMMA ResponseFits ==
    ASSUME TypeOK, mWriteBuffer.data = <<>>, NEW status \in {"200", "400"},
           NEW r \in Replies \cup {NewResponse},
           NEW b, b = appendToBuffer(mWriteBuffer, status, r.body)
    PROVE /\ b \in Buffers(OutCell) /\ InBounds(b) /\ b.data \in Seq(OutCell)
          /\ b.data # <<>> /\ b.data[1] = status /\ Added(mWriteBuffer, b) = b.data
          /\ Range(b.data) \subseteq {status} \cup Range(r.body)
          /\ Len(b.data) \in Nat \ {0} /\ status \in Range(b.data)
<1> DEFINE c == append(mWriteBuffer, <<status>>)
<1>1. /\ mWriteBuffer \in Buffers(OutCell) /\ InBounds(mWriteBuffer) BY DEF TypeOK
<1>2. r.body \in Seq(OutCell) /\ <<status>> \in Seq(OutCell) BY ReplyCells
<1>3. c \in Buffers(OutCell) /\ InBounds(c) BY <1>1, <1>2, AppendInBounds
<1>4. c.data = <<status>>
  <2>1. c.data = IF Len(<<status>>) <= avail(mWriteBuffer)
                 THEN mWriteBuffer.data \o <<status>> ELSE mWriteBuffer.data
    BY <1>1, <1>2, AppendAllOrNothing
  <2>2. Len(<<status>>) <= avail(mWriteBuffer) BY SizeAssumption DEF avail
  <2> QED BY <1>2, <2>1, <2>2
<1>5. b = append(c, r.body) BY DEF appendToBuffer
<1> HIDE DEF c
<1>6. b \in Buffers(OutCell) /\ InBounds(b) BY <1>2, <1>3, <1>5, AppendInBounds
<1>7. b.data = <<status>> \o r.body \/ b.data = <<status>>
  BY <1>2, <1>3, <1>4, <1>5, AppendAllOrNothing
<1>8. b.data \in Seq(OutCell) BY <1>6 DEF Buffers
<1>9. b.data[1] = status /\ Len(b.data) \in Nat \ {0} BY <1>2, <1>7
<1>10. Range(b.data) \subseteq {status} \cup Range(r.body)
  <2>1. Range(<<status>>) = {status} BY DEF Range
  <2>2. Range(<<status>> \o r.body) = Range(<<status>>) \cup Range(r.body)
    <3> DEFINE s1 == <<status>>
               s2 == r.body
    <3>1. s1 \in Seq(OutCell) /\ s2 \in Seq(OutCell) BY <1>2
    <3> HIDE DEF s1, s2
    <3>2. Range(s1 \o s2) = Range(s1) \cup Range(s2) BY <3>1, RangeConcatenation
    <3> QED BY <3>2 DEF s1, s2
  <2> QED BY <1>7, <2>1, <2>2
<1>11. Added(mWriteBuffer, b) = b.data
  <2>1. Added(mWriteBuffer, b) = SubSeq(b.data, 1, Len(b.data)) BY DEF Added
  <2> QED BY <1>8, <2>1, SubSeqFull
<1>12. status \in Range(b.data)
  <2>1. 1 \in DOMAIN b.data BY <1>8, <1>9
  <2> QED BY <1>9, <2>1 DEF Range
<1> QED BY <1>6, <1>8, <1>9, <1>10, <1>11, <1>12

\* What the socket takes comes off the front of what is to be written.
LEMMA AfterWritev ==
    ASSUME TypeOK, NEW n \in 1 .. sndbuf, writev(n)
    PROVE /\ mWriteBuffer' \in Buffers(OutCell) /\ InBounds(mWriteBuffer')
          /\ file' \in Seq(OutCell) /\ outq' \in Seq(OutCell) /\ Len(outq') <= sndbuf
          /\ outq' \o Pending' = outq \o Pending
          /\ Pending \in Seq(OutCell) /\ Pending' \in Seq(OutCell) /\ Len(Pending') <= Len(Pending)
<1> DEFINE d == mWriteBuffer.data
           p == Pending
<1>1. /\ d \in Seq(OutCell) /\ file \in Seq(OutCell) /\ outq \in Seq(OutCell)
      /\ mWriteBuffer \in Buffers(OutCell) /\ InBounds(mWriteBuffer)
  BY DEF TypeOK, Buffers
<1>2. p = d \o file BY DEF Pending
<1>3. n \in Nat /\ n <= Len(p) /\ Len(outq) + n <= sndbuf /\ sndbuf \in Nat
      /\ outq' = outq \o SubSeq(p, 1, n)
  BY SndbufAssumption DEF writev
<1>4. /\ n > Len(d) => mWriteBuffer' = NewBuffer /\ file' = SubSeq(file, (n - Len(d)) + 1, Len(file))
      /\ ~(n > Len(d)) => mWriteBuffer' = readPtrMove(mWriteBuffer, n) /\ file' = file
  BY DEF writev, Advance
<1> HIDE DEF d, p
<1>5. /\ p \in Seq(OutCell) /\ Len(p) = Len(d) + Len(file) /\ Len(d) \in Nat /\ Len(file) \in Nat
      /\ \A i \in 1 .. Len(d) + Len(file) : p[i] = IF i <= Len(d) THEN d[i] ELSE file[i - Len(d)]
  BY <1>1, <1>2, ConcatProperties
<1> DEFINE rest == SubSeq(p, n + 1, Len(p))
<1>6. /\ rest \in Seq(OutCell) /\ Len(rest) = Len(p) - n
      /\ \A j \in 1 .. Len(p) - n : rest[j] = p[n + j]
  BY <1>3, <1>5, RestOf
<1> HIDE DEF rest
<1> DEFINE Moved == /\ Pending' = rest /\ mWriteBuffer' \in Buffers(OutCell)
                    /\ InBounds(mWriteBuffer') /\ file' \in Seq(OutCell)
<1>7. ASSUME n > Len(d) PROVE Moved
  <2> DEFINE k == n - Len(d)
             f == SubSeq(file, k + 1, Len(file))
  <2>1. k \in 0 .. Len(file) /\ k \in Nat BY <1>3, <1>5, <1>7
  <2>2. mWriteBuffer' = NewBuffer /\ file' = f BY <1>4, <1>7
  <2> HIDE DEF k
  <2>3. f \in Seq(OutCell) /\ Len(f) = Len(file) - k /\ \A j \in 1 .. Len(file) - k : f[j] = file[k + j]
    BY <1>1, <2>1, RestOf
  <2> HIDE DEF f
  <2>4. mWriteBuffer' \in Buffers(OutCell) /\ InBounds(mWriteBuffer') /\ mWriteBuffer'.data = <<>>
    BY <2>2, SizeAssumption DEF NewBuffer, Buffers, InBounds
  <2>5. Pending' = f BY <2>2, <2>3, <2>4, ConcatEmptySeq DEF Pending
  <2>6. f = rest
    <3>1. Len(f) = Len(rest) BY <1>3, <1>5, <1>6, <2>1, <2>3 DEF k
    <3>2. ASSUME NEW j \in 1 .. Len(f) PROVE f[j] = rest[j]
      <4>1. j \in 1 .. Len(file) - k /\ j \in 1 .. Len(p) - n BY <1>6, <2>3, <3>1
      <4>2. n + j \in 1 .. Len(d) + Len(file) /\ ~(n + j <= Len(d)) /\ (n + j) - Len(d) = k + j
        BY <1>3, <1>5, <1>7, <4>1 DEF k
      <4> QED BY <1>5, <1>6, <2>3, <4>1, <4>2
    <3> QED BY <1>6, <2>3, <3>1, <3>2, SeqEqual
  <2> QED BY <2>2, <2>3, <2>4, <2>5, <2>6
<1>8. ASSUME ~(n > Len(d)) PROVE Moved
  <2>1. n \in 0 .. Len(d) BY <1>3, <1>5, <1>8
  <2>2. mWriteBuffer' = readPtrMove(mWriteBuffer, n) /\ file' = file BY <1>4, <1>8
  <2>3. mWriteBuffer' \in Buffers(OutCell) /\ InBounds(mWriteBuffer')
    BY <1>1, <2>1, <2>2, MoveInBounds DEF d
  <2> DEFINE f == SubSeq(d, n + 1, Len(d))
  <2>4. mWriteBuffer'.data = f BY <2>2 DEF readPtrMove, d
  <2>5. f \in Seq(OutCell) /\ Len(f) = Len(d) - n /\ \A j \in 1 .. Len(d) - n : f[j] = d[n + j]
    BY <1>1, <2>1, RestOf
  <2> HIDE DEF f
  <2>6. Pending' = f \o file BY <2>2, <2>4 DEF Pending
  <2>7. /\ f \o file \in Seq(OutCell) /\ Len(f \o file) = Len(f) + Len(file)
        /\ \A i \in 1 .. Len(f) + Len(file) :
              (f \o file)[i] = IF i <= Len(f) THEN f[i] ELSE file[i - Len(f)]
    BY <1>1, <2>5, ConcatProperties
  <2>8. f \o file = rest
    <3>1. Len(f \o file) = Len(rest) /\ Len(rest) = (Len(d) - n) + Len(file)
      BY <1>3, <1>5, <1>6, <2>5, <2>7
    <3>2. ASSUME NEW j \in 1 .. Len(f \o file) PROVE (f \o file)[j] = rest[j]
      <4>1. j \in 1 .. Len(p) - n /\ n + j \in 1 .. Len(d) + Len(file) /\ j \in Nat
        BY <1>3, <1>5, <1>6, <3>1, SMTT(30)
      <4>2. rest[j] = IF n + j <= Len(d) THEN d[n + j] ELSE file[(n + j) - Len(d)]
        BY <1>5, <1>6, <4>1
      <4>3. (f \o file)[j] = IF j <= Len(f) THEN f[j] ELSE file[j - Len(f)] BY <2>7
      <4>4. CASE j <= Len(f)
        <5>1. j \in 1 .. Len(d) - n /\ n + j <= Len(d) BY <1>3, <1>5, <2>5, <4>1, <4>4
        <5> QED BY <2>5, <4>2, <4>3, <4>4, <5>1
      <4>5. CASE ~(j <= Len(f))
        <5>1. ~(n + j <= Len(d)) /\ (n + j) - Len(d) = j - Len(f) BY <1>3, <1>5, <2>5, <4>1, <4>5
        <5> QED BY <4>2, <4>3, <4>5, <5>1
      <4> QED BY <4>4, <4>5
    <3> QED BY <1>6, <2>7, <3>1, <3>2, SeqEqual
  <2> QED BY <1>1, <2>2, <2>3, <2>6, <2>8
<1>9. Moved BY <1>7, <1>8
<1> DEFINE head == SubSeq(p, 1, n)
<1>10. /\ head \in Seq(OutCell) /\ Len(head) = n BY <1>3, <1>5
<1>11. head \o rest = p
  <2>1. SubSeq(p, 1, n) \o SubSeq(p, n + 1, Len(p)) = SubSeq(p, 1, Len(p))
    <3>1. 1 \in 1 .. Len(p) + 1 /\ n \in 0 .. Len(p) /\ Len(p) \in n .. Len(p) /\ 1 - 1 = 0
      BY <1>3, <1>5
    <3> QED BY <1>5, <3>1, ConcatAdjacentSubSeq
  <2> QED BY <1>5, <2>1, SubSeqFull DEF rest
<1> HIDE DEF head
<1>12. outq' = outq \o head BY <1>3 DEF head
<1>13. outq' \in Seq(OutCell) /\ Len(outq') <= sndbuf
  <2>1. outq \o head \in Seq(OutCell) /\ Len(outq \o head) = Len(outq) + Len(head)
    BY <1>1, <1>10, ConcatProperties
  <2> QED BY <1>3, <1>10, <1>12, <2>1
<1>14. outq' \o rest = outq \o p
  <2>1. (outq \o head) \o rest = outq \o (head \o rest)
    <3>1. \A s, t, u \in Seq(OutCell) : (s \o t) \o u = s \o (t \o u) BY ConcatAssociative
    <3>2. outq \in Seq(OutCell) /\ head \in Seq(OutCell) /\ rest \in Seq(OutCell)
      BY <1>1, <1>6, <1>10
    <3> QED BY <3>1, <3>2, Zenon
  <2> QED BY <1>11, <1>12, <2>1
<1>15. Len(rest) <= Len(p) BY <1>3, <1>5, <1>6
<1> QED BY <1>5, <1>6, <1>9, <1>13, <1>14, <1>15 DEF p

\* What is left to be written, while the loop reads and parses: nothing.
LEMMA NothingPending ==
    ASSUME TypeOK, ControlInv, pc \in {"read", "parse", "bad", "get"}
    PROVE mWriteBuffer.data = <<>> /\ file = <<>> /\ interest = "in" /\ state = "CONNECTED"
<1>1. Pending = <<>> /\ interest = "in" /\ state = "CONNECTED" BY DEF ControlInv, TypeOK
<1>2. mWriteBuffer.data \in Seq(OutCell) /\ file \in Seq(OutCell) BY DEF TypeOK, Buffers
<1> QED BY <1>1, <1>2, ConcatEqualIffEmpty DEF Pending

-----------------------------------------------------------------------------
(* The steps.                                                              *)

USE DEF peerVars, request, input, output, life, tasks

\* Type correctness is kept by every step.
LEMMA TypeStep ==
    ASSUME TypeOK, InputIntact, ScanInv, HeadInv, ControlInv, Next
    PROVE TypeOK'
<1>0. ASSUME NEW n \in 1 .. sndbuf, writev(n)
      PROVE /\ mWriteBuffer' \in Buffers(OutCell) /\ InBounds(mWriteBuffer')
            /\ file' \in Seq(OutCell) /\ outq' \in Seq(OutCell) /\ Len(outq') <= sndbuf
            /\ UNCHANGED <<peerVars, input, answers, life, tasks, resp, ready, pc>>
  BY <1>0, AfterWritev DEF writev
<1> USE DEF TypeOK
<1>1. CASE Poll \/ PollWakeup \/ doTask \/ EndTasks
  <2>1. CASE Poll
    <3>1. /\ pc' \in {"read", "hup", "handleWrite", "doTask"} /\ ready' \in BOOLEAN
          /\ UNCHANGED <<peerVars, input, output, life, tasks, resp>>
      BY <2>1 DEF Poll
    <3> QED BY <3>1
  <2>2. CASE PollWakeup BY <2>2 DEF PollWakeup
  <2>3. CASE doTask
    <3>1. <<>> \in Seq({"writeComplete", "handleClose"}) OBVIOUS
    <3> QED BY <2>3, <3>1 DEF doTask
  <2>4. CASE EndTasks BY <2>4 DEF EndTasks
  <2> QED BY <1>1, <2>1, <2>2, <2>3, <2>4
<1>2. CASE WriteComplete \/ CloseTask \/ HangUp
  <2>1. CASE WriteComplete
    <3>1. Tail(batch) \in Seq({"writeComplete", "handleClose"})
      BY <2>1, HeadTailProperties DEF WriteComplete
    <3>2. Append(queue, "handleClose") \in Seq({"writeComplete", "handleClose"})
      BY AppendProperties
    <3> QED BY <2>1, <3>1, <3>2 DEF WriteComplete
  <2>2. CASE CloseTask
    <3>1. Tail(batch) \in Seq({"writeComplete", "handleClose"})
      BY <2>2, HeadTailProperties DEF CloseTask
    <3> QED BY <2>2, <3>1 DEF CloseTask, handleClose
  <2>3. CASE HangUp BY <2>3 DEF HangUp, handleClose
  <2> QED BY <1>2, <2>1, <2>2, <2>3
<1>3. CASE handleRead
  <2>1. /\ mReadBuffer' \in Buffers(Cell) /\ InBounds(mReadBuffer')
        /\ received' \in received .. sent /\ UNCHANGED request
        /\ Len(mReadBuffer.data) <= Len(mReadBuffer'.data) /\ Len(mReadBuffer'.data) \in Nat
    BY <1>3, AfterRead
  <2>2. received' \in 0 .. sent /\ consumed' \in 0 .. received'
    BY <2>1, StreamCells
  <2>3. mCheckIndex' \in 0 .. Len(mReadBuffer'.data)
    <3>1. mReadBuffer.data \in Seq(Cell) BY DEF Buffers
    <3> QED BY <2>1, <3>1, SMTT(30)
  <2>4. /\ UNCHANGED <<peerVars, request, output, tasks, resp, ready, mAlive>>
        /\ interest' \in {"in", "out", "et", "none"} /\ state' \in {"CONNECTED", "CLOSING"}
        /\ pc' \in {"doTask", "parse"}
    BY <1>3 DEF handleRead, handleClose
  <2> QED BY <2>1, <2>2, <2>3, <2>4
<1>4. CASE NoRequest \/ BadLine \/ parseContent \/ AfterSuccess \/ (parseRequest /\ Stay)
  <2>1. CASE Stay
    <3>1. UNCHANGED <<stream, received>>
      BY <1>4 DEF NoRequest, BadLine, parseContent, AfterSuccess, parseRequest, AroundParser
    <3>2. /\ mReadBuffer' \in Buffers(Cell) /\ InBounds(mReadBuffer')
          /\ mCheckIndex' \in 0 .. Len(mReadBuffer'.data) /\ consumed' = consumed
      BY <2>1, <3>1, AfterStay
    <3> QED
      BY <1>4, <2>1, <3>1, <3>2
      DEF NoRequest, BadLine, parseContent, AfterSuccess, parseRequest, AroundParser, TakeLine
  <2>2. CASE ~Stay
    BY <1>4, <2>2
    DEF NoRequest, BadLine, parseContent, AfterSuccess, AroundParser
  <2> QED BY <2>1, <2>2
<1>5. CASE (parseRequest /\ TakeLine) \/ parseHeader
  <2>1. Scan.line = "OK" /\ TakeLine /\ UNCHANGED <<stream, received>>
    BY <1>5 DEF parseRequest, parseHeader, Parsing, AroundParser
  <2>2. /\ mReadBuffer' \in Buffers(Cell) /\ InBounds(mReadBuffer') /\ mCheckIndex' = 0
        /\ consumed' \in 0 .. received
    BY <2>1, AfterTakeLine
  <2>3. Len(mReadBuffer'.data) \in Nat BY <2>2 DEF Buffers
  <2>4. contentLength' \in Range(LengthOf) /\ reqAlive' \in BOOLEAN
        /\ mCheckState' \in {"REQUEST", "HEADER", "BODY", "SUCCESS"}
        /\ pc' \in {"poll", "read", "hup", "parse", "bad", "get",
               "sendInLoop", "handleWrite", "EnableWrite", "doTask", "task", "terminated"}
        /\ AroundParser
    <3>1. CASE parseRequest BY <3>1 DEF parseRequest
    <3>2. CASE parseHeader
      <4>1. CASE Text = <<>> BY <3>2, <4>1 DEF parseHeader, Names
      <4>2. CASE Text # <<>>
        <5>1. /\ reqAlive' \in BOOLEAN /\ pc' = pc /\ mCheckState' = mCheckState /\ AroundParser
              /\ \/ contentLength' = contentLength
                 \/ Names(Text, DOMAIN LengthOf) /\ contentLength' = LengthOf[Text[1]]
          BY <3>2, <4>2 DEF parseHeader, Keeps
        <5>2. contentLength' \in Range(LengthOf) BY <5>1, Lengths DEF Names
        <5> QED BY <5>1, <5>2
      <4> QED BY <4>1, <4>2
    <3> QED BY <1>5, <3>1, <3>2
  <2> QED BY <2>2, <2>3, <2>4 DEF AroundParser
<1>6. CASE BadRequest
  <2>1. mWriteBuffer.data = <<>> BY <1>6, NothingPending DEF BadRequest
  <2>2. mWriteBuffer' = appendToBuffer(mWriteBuffer, "400", resp.body) BY <1>6 DEF BadRequest
  <2>3. /\ mWriteBuffer' \in Buffers(OutCell) /\ InBounds(mWriteBuffer')
        /\ mWriteBuffer'.data \in Seq(OutCell)
        /\ Added(mWriteBuffer, mWriteBuffer') = mWriteBuffer'.data
    BY <2>1, <2>2, ResponseFits
  <2>4. answers' \in Seq(OutCell) BY <1>6, <2>3, ConcatProperties DEF BadRequest
  <2> QED BY <1>6, <2>3, <2>4 DEF BadRequest
<1>7. CASE GetRequest
  <2>1. mWriteBuffer.data = <<>> BY <1>7, NothingPending DEF GetRequest
  <2>2. /\ resp' \in Replies
        /\ mWriteBuffer' = appendToBuffer(mWriteBuffer, StatusOf(resp'), resp'.body)
        /\ file' = FileOf(resp')
        /\ answers' = answers \o Added(mWriteBuffer, mWriteBuffer') \o file'
    BY <1>7 DEF GetRequest
  <2>3. StatusOf(resp') \in {"200", "400"} /\ file' \in Seq(OutCell) BY <2>2, ReplyCells
  <2>4. /\ mWriteBuffer' \in Buffers(OutCell) /\ InBounds(mWriteBuffer')
        /\ mWriteBuffer'.data \in Seq(OutCell)
        /\ Added(mWriteBuffer, mWriteBuffer') = mWriteBuffer'.data
    BY <2>1, <2>2, <2>3, ResponseFits
  <2>5. answers' \in Seq(OutCell)
    <3>1. answers \o mWriteBuffer'.data \in Seq(OutCell) BY <2>4, ConcatProperties
    <3> QED BY <2>2, <2>3, <2>4, <3>1, ConcatProperties
  <2>6. mCheckIndex' \in 0 .. Len(mReadBuffer'.data)
    <3>1. Len(mReadBuffer.data) \in Nat BY DEF Buffers
    <3> QED BY <1>7, <3>1 DEF GetRequest
  <2>7. mAlive' \in BOOLEAN
    <3>1. resp'.isAlive \in BOOLEAN BY <2>2, RepliesAssumption
    <3> QED BY <1>7, <3>1 DEF GetRequest
  <2> QED BY <1>7, <2>2, <2>3, <2>4, <2>5, <2>6, <2>7 DEF GetRequest
<1>8. CASE \E n \in 1 .. sndbuf : writev(n)
  <2>1. PICK n \in 1 .. sndbuf : writev(n) BY <1>8
  <2>2. /\ mWriteBuffer' \in Buffers(OutCell) /\ InBounds(mWriteBuffer')
        /\ file' \in Seq(OutCell) /\ outq' \in Seq(OutCell) /\ Len(outq') <= sndbuf
        /\ UNCHANGED <<peerVars, input, answers, life, tasks, resp, ready, pc>>
    BY <1>0, <2>1
  <2> QED BY <2>2
<1>9. CASE WouldBlock \/ EnableWrite \/ AllSent \/ WriteFails
  <2>1. CASE AllSent
    <3>1. Append(queue, "writeComplete") \in Seq({"writeComplete", "handleClose"})
      BY AppendProperties
    <3> QED BY <2>1, <3>1 DEF AllSent
  <2>2. CASE WriteFails
    <3>1. file' \in Seq(OutCell) BY <2>2 DEF WriteFails
    <3> QED BY <2>2, <3>1 DEF WriteFails, handleClose
  <2>3. CASE WouldBlock \/ EnableWrite BY <2>3 DEF WouldBlock, EnableWrite
  <2> QED BY <1>9, <2>1, <2>2, <2>3
<1>10. CASE PeerStep
  <2>1. ASSUME NEW n \in 1 .. Len(stream), PeerSends(n) PROVE TypeOK'
    <3>1. sent' \in 0 .. Len(stream) /\ received \in 0 .. sent'
      BY <2>1, StreamCells DEF PeerSends
    <3> QED BY <2>1, <3>1 DEF PeerSends
  <2>2. CASE PeerReads
    <3>1. got' \in Seq(OutCell) BY <2>2, ConcatProperties DEF PeerReads
    <3>2. outq' \in Seq(OutCell) /\ Len(outq') <= sndbuf BY <2>2, SndbufAssumption DEF PeerReads
    <3> QED BY <2>2, <3>1, <3>2 DEF PeerReads
  <2>3. CASE PeerFinishes BY <2>3 DEF PeerFinishes
  <2>4. CASE PeerResets BY <2>4 DEF PeerResets
  <2> QED BY <1>10, <2>1, <2>2, <2>3, <2>4 DEF PeerStep
<1>11. parseRequest => Stay \/ TakeLine BY DEF parseRequest
<1> QED
  BY <1>1, <1>2, <1>3, <1>4, <1>5, <1>6, <1>7, <1>8, <1>9, <1>10, <1>11 DEF Next, LoopStep

\* The parser's side of the connection: what it has read, taken and found.
parser == <<stream, received, mReadBuffer, request>>

\* A step that leaves the parser alone keeps what is known of it.
LEMMA ParserUntouched ==
    ASSUME UNCHANGED parser
    PROVE /\ InputIntact => InputIntact'
          /\ ScanInv => ScanInv'
          /\ HeadInv => HeadInv'
          /\ Arrived' = Arrived /\ Stuck' = Stuck
<1>1. InputIntact => InputIntact' BY DEF InputIntact, parser
<1>2. Arrived' = Arrived /\ Taken' = Taken BY DEF Arrived, Taken, parser
<1>3. ScanInv => ScanInv' BY <1>2 DEF ScanInv, parser
<1>4. HeadInv => HeadInv' BY <1>2 DEF HeadInv, parser
<1>5. Stuck' = Stuck BY DEF Stuck, Scan, parser
<1> QED BY <1>1, <1>2, <1>3, <1>4, <1>5

\* Which steps leave the parser alone.
LEMMA OnlyTheParserParses ==
    ASSUME Next
    PROVE \/ UNCHANGED parser
          \/ handleRead \/ NoRequest \/ BadLine \/ parseRequest \/ parseHeader
          \/ parseContent \/ AfterSuccess \/ GetRequest
<1> USE DEF parser
<1>1. CASE Poll \/ PollWakeup \/ doTask \/ EndTasks BY <1>1 DEF Poll, PollWakeup, doTask, EndTasks
<1>2. CASE WriteComplete \/ CloseTask \/ HangUp BY <1>2 DEF WriteComplete, CloseTask, HangUp
<1>3. CASE BadRequest \/ WouldBlock \/ EnableWrite \/ AllSent \/ WriteFails
  BY <1>3 DEF BadRequest, WouldBlock, EnableWrite, AllSent, WriteFails
<1>4. CASE \E n \in 1 .. sndbuf : writev(n) BY <1>4 DEF writev
<1>5. CASE PeerStep BY <1>5 DEF PeerStep, PeerSends, PeerFinishes, PeerResets, PeerReads
<1> QED BY <1>1, <1>2, <1>3, <1>4, <1>5 DEF Next, LoopStep

\* A step of the parser that leaves the line where it is.
LEMMA StayStep ==
    ASSUME TypeOK, InputIntact, ScanInv, HeadInv,
           NoRequest \/ BadLine \/ (parseRequest /\ Text # <<"get">>) \/ parseContent \/ AfterSuccess
    PROVE InputIntact' /\ ScanInv' /\ HeadInv' /\ Arrived' = Arrived
<1>1. CASE NoRequest /\ UNCHANGED parser BY <1>1, ParserUntouched
<1>2. CASE ~(NoRequest /\ UNCHANGED parser)
  <2>1. Stay /\ UNCHANGED <<stream, received, contentLength, reqAlive>>
    BY <1>2
    DEF NoRequest, BadLine, parseRequest, parseContent, AfterSuccess, AroundParser, parser
  <2>2. parseContent =>
           /\ mCheckState = "BODY" /\ mCheckState' \in {"BODY", "SUCCESS"}
           /\ mCheckState' = "SUCCESS" => contentLength \in 0 .. Scan.index
    <3>1. contentLength \in Int /\ Scan.index \in Nat BY Lengths, ScanEnds DEF TypeOK
    <3> QED BY <3>1 DEF parseContent, Parsing, Enough
  <2>3. NoRequest => Scan.line # "OK" /\ mCheckState' = mCheckState
    BY <1>2 DEF NoRequest, Parsing, AroundParser, parser
  <2>4. BadLine => Scan.line # "OK" /\ mCheckState' = mCheckState BY DEF BadLine, Parsing
  <2>5. parseRequest /\ Text # <<"get">> => mCheckState = "REQUEST" /\ mCheckState' = mCheckState
    BY DEF parseRequest, Parsing
  <2>6. AfterSuccess => mCheckState = "SUCCESS" /\ mCheckState' = mCheckState
    BY DEF AfterSuccess, Parsing
  <2> QED BY <2>1, <2>2, <2>3, <2>4, <2>5, <2>6, StayKeepsInput
<1> QED BY <1>1, <1>2

\* A step of the parser that takes a line off the buffer.
LEMMA TakeStep ==
    ASSUME TypeOK, InputIntact, ScanInv, HeadInv, (parseRequest /\ Text = <<"get">>) \/ parseHeader
    PROVE InputIntact' /\ ScanInv' /\ HeadInv' /\ Arrived' = Arrived
<1>1. Scan.line = "OK" /\ TakeLine /\ UNCHANGED <<stream, received>>
  BY DEF parseRequest, parseHeader, Parsing, AroundParser
<1>2. parseRequest /\ Text = <<"get">> =>
         /\ mCheckState = "REQUEST" /\ Text = <<"get">> /\ mCheckState' = "HEADER"
         /\ UNCHANGED <<contentLength, reqAlive>>
  BY DEF parseRequest, Parsing
<1>3. parseHeader =>
         /\ mCheckState = "HEADER"
         /\ CASE Text = <<>> ->
                   /\ mCheckState' = IF contentLength # 0 THEN "BODY" ELSE "SUCCESS"
                   /\ UNCHANGED <<contentLength, reqAlive>>
              [] Names(Text, Connection) ->
                   reqAlive' = Keeps(Text) /\ UNCHANGED <<mCheckState, contentLength>>
              [] Names(Text, DOMAIN LengthOf) ->
                   contentLength' = LengthOf[Text[1]] /\ UNCHANGED <<mCheckState, reqAlive>>
              [] OTHER -> UNCHANGED <<mCheckState, contentLength, reqAlive>>
  BY DEF parseHeader, Parsing
<1> QED BY <1>1, <1>2, <1>3, TakeKeepsInput

\* Every step keeps what is known of the bytes and of the parser; bytes that
\* are wrong stay wrong.
LEMMA InputStep ==
    ASSUME TypeOK, InputIntact, ScanInv, HeadInv, AnswerInv, Next
    PROVE /\ InputIntact' /\ ScanInv' /\ HeadInv'
          /\ ~WellFormed(Arrived) => ~WellFormed(Arrived')
<1>1. CASE UNCHANGED parser BY <1>1, ParserUntouched
<1>2. CASE handleRead BY <1>2, ReadKeepsInput
<1>3. CASE NoRequest \/ BadLine \/ (parseRequest /\ Text # <<"get">>) \/ parseContent \/ AfterSuccess
  BY <1>3, StayStep
<1>4. CASE (parseRequest /\ Text = <<"get">>) \/ parseHeader BY <1>4, TakeStep
<1>5. CASE GetRequest
  <2>1. mCheckState = "SUCCESS" BY <1>5 DEF GetRequest, AnswerInv
  <2>2. /\ UNCHANGED <<stream, received, mReadBuffer, mCheckState, contentLength, reqAlive, consumed>>
        /\ mCheckIndex' = 0
    BY <1>5 DEF GetRequest
  <2>3. Arrived' = Arrived /\ Taken' = Taken BY <2>2 DEF Arrived, Taken
  <2>4. InputIntact' BY <2>2 DEF InputIntact
  <2>5. ScanInv' BY <2>1, <2>2, <2>3 DEF ScanInv
  <2>6. HeadInv' BY <2>1, <2>2, <2>3 DEF HeadInv
  <2> QED BY <2>3, <2>4, <2>5, <2>6
<1> QED BY <1>1, <1>2, <1>3, <1>4, <1>5, OnlyTheParserParses

\* What a queue holds after an element was taken off or put on.
LEMMA TailRange ==
    ASSUME NEW S, NEW s \in Seq(S), s # <<>>
    PROVE Tail(s) \in Seq(S) /\ Range(s) = {Head(s)} \cup Range(Tail(s))
<1>1. /\ Tail(s) \in Seq(S) /\ Len(Tail(s)) = Len(s) - 1 /\ Len(s) \in Nat \ {0}
      /\ \A i \in 1 .. Len(s) - 1 : Tail(s)[i] = s[i + 1]
  OBVIOUS
<1>2. Range(Tail(s)) \subseteq Range(s)
  <2>1. ASSUME NEW i \in DOMAIN Tail(s) PROVE \E j \in DOMAIN s : Tail(s)[i] = s[j]
    <3>1. i \in 1 .. Len(s) - 1 /\ i + 1 \in DOMAIN s BY <1>1
    <3> QED BY <1>1, <3>1
  <2> QED BY <2>1 DEF Range
<1>3. Head(s) \in Range(s)
  <2>1. 1 \in DOMAIN s /\ Head(s) = s[1] BY <1>1
  <2> QED BY <2>1 DEF Range
<1>4. ASSUME NEW x \in Range(s), x # Head(s) PROVE x \in Range(Tail(s))
  <2>1. PICK j \in DOMAIN s : x = s[j] BY <1>4 DEF Range
  <2>2. j \in 2 .. Len(s) BY <1>1, <1>4, <2>1
  <2>3. j - 1 \in 1 .. Len(s) - 1 /\ (j - 1) + 1 = j BY <1>1, <2>2
  <2>4. Tail(s)[j - 1] = s[j] BY <1>1, <2>3
  <2>5. j - 1 \in DOMAIN Tail(s) BY <1>1, <2>3
  <2> QED BY <2>1, <2>4, <2>5 DEF Range
<1> QED BY <1>1, <1>2, <1>3, <1>4

\* The same for Append.
LEMMA AppendRange ==
    ASSUME NEW S, NEW s \in Seq(S), NEW e \in S
    PROVE Append(s, e) \in Seq(S) /\ Range(Append(s, e)) = Range(s) \cup {e}
<1> DEFINE t == Append(s, e)
<1>1. /\ t \in Seq(S) /\ Len(t) = Len(s) + 1 /\ Len(s) \in Nat /\ t[Len(s) + 1] = e
      /\ DOMAIN t = 1 .. Len(s) + 1 /\ DOMAIN s = 1 .. Len(s)
      /\ \A i \in 1 .. Len(s) : t[i] = s[i]
  BY AppendProperties
<1> HIDE DEF t
<1>2. Range(t) \subseteq Range(s) \cup {e}
  <2>1. ASSUME NEW i \in DOMAIN t PROVE t[i] \in Range(s) \cup {e}
    <3>1. i \in 1 .. Len(s) \/ i = Len(s) + 1 BY <1>1
    <3> QED BY <1>1, <3>1 DEF Range
  <2> QED BY <2>1 DEF Range
<1>3. Range(s) \subseteq Range(t)
  <2>1. \A i \in DOMAIN s : i \in DOMAIN t /\ t[i] = s[i] BY <1>1
  <2> QED BY <2>1 DEF Range
<1>4. e \in Range(t)
  <2>1. Len(s) + 1 \in DOMAIN t BY <1>1
  <2> QED BY <1>1, <2>1 DEF Range
<1> QED BY <1>1, <1>2, <1>3, <1>4 DEF t

\* An answer: nothing is left to be written before it, it begins with its
\* status, and it is all of what is to be sent from now on.
LEMMA AnswerGiven ==
    ASSUME TypeOK, ControlInv, BadRequest \/ GetRequest,
           NEW status, status = IF pc = "bad" THEN "400" ELSE StatusOf(resp')
    PROVE /\ Pending = <<>> /\ Pending' \in Seq(OutCell) /\ Len(Pending') \in Nat \ {0}
          /\ Pending'[1] = status
          /\ answers' = answers \o Pending' /\ answers' # <<>>
          /\ Len(answers') = Len(answers) + Len(Pending') /\ Len(answers) \in Nat
          /\ Range(answers') = Range(answers) \cup Range(Pending')
          /\ Range(Pending') \cap {"200", "400"} = {status}
<1> DEFINE r == IF pc = "bad" THEN resp ELSE resp'
           d == mWriteBuffer'.data
<1>1. (pc = "bad" /\ BadRequest) \/ (pc = "get" /\ GetRequest) BY DEF BadRequest, GetRequest
<1>2. mWriteBuffer.data = <<>> /\ file = <<>> BY <1>1, NothingPending
<1>3. Pending = <<>> BY <1>2 DEF Pending
<1>4. answers \in Seq(OutCell) /\ resp \in Replies \cup {NewResponse} BY DEF TypeOK
<1>5. /\ r \in Replies \cup {NewResponse} /\ status \in {"200", "400"}
      /\ mWriteBuffer' = appendToBuffer(mWriteBuffer, status, r.body)
      /\ file' \in Seq(OutCell) /\ {"200", "400"} \cap Range(file') = {}
  <2>1. CASE pc = "bad"
    <3>1. BadRequest BY <1>1, <2>1
    <3>2. /\ r \in Replies \cup {NewResponse} /\ status = "400" /\ file' = file
          /\ mWriteBuffer' = appendToBuffer(mWriteBuffer, status, r.body)
      BY <1>4, <2>1, <3>1 DEF BadRequest
    <3>3. file' \in Seq(OutCell) /\ Range(file') = {}
      <4>1. file' = <<>> BY <1>2, <3>2
      <4>2. DOMAIN file' = {} BY <4>1
      <4> QED BY <4>1, <4>2 DEF Range
    <3> QED BY <3>2, <3>3
  <2>2. CASE pc # "bad"
    <3>1. GetRequest BY <1>1, <2>2
    <3>2. /\ resp' \in Replies /\ file' = FileOf(resp')
          /\ mWriteBuffer' = appendToBuffer(mWriteBuffer, StatusOf(resp'), resp'.body)
      BY <3>1 DEF GetRequest
    <3>3. /\ StatusOf(resp') \in {"200", "400"} /\ FileOf(resp') \in Seq(OutCell)
          /\ {"200", "400"} \cap Range(FileOf(resp')) = {}
      BY <3>2, ReplyCells
    <3> QED BY <2>2, <3>2, <3>3
  <2> QED BY <2>1, <2>2
<1>6. {"200", "400"} \cap Range(r.body) = {} BY <1>5, ReplyCells
<1> HIDE DEF r
<1>7. /\ d \in Seq(OutCell) /\ d # <<>> /\ d[1] = status
      /\ Added(mWriteBuffer, mWriteBuffer') = d
      /\ Range(d) \subseteq {status} \cup Range(r.body)
      /\ Len(d) \in Nat \ {0} /\ status \in Range(d)
  BY <1>2, <1>5, ResponseFits
<1>8. Pending' = d \o file' BY DEF Pending
<1>9. answers' = answers \o Pending'
  <2>1. CASE pc = "bad"
    <3>1. answers' = answers \o d /\ file' = <<>> BY <1>1, <1>2, <1>7, <2>1 DEF BadRequest
    <3>2. Pending' = d BY <1>7, <1>8, <3>1, ConcatEmptySeq
    <3> QED BY <3>1, <3>2
  <2>2. CASE pc # "bad"
    <3>1. answers' = (answers \o d) \o file' BY <1>1, <1>7, <2>2 DEF GetRequest
    <3>2. \A s, t, u \in Seq(OutCell) : (s \o t) \o u = s \o (t \o u) BY ConcatAssociative
    <3>3. (answers \o d) \o file' = answers \o (d \o file')
      <4>1. answers \in Seq(OutCell) /\ d \in Seq(OutCell) /\ file' \in Seq(OutCell)
        BY <1>4, <1>5, <1>7
      <4> HIDE DEF d
      <4> QED BY <3>2, <4>1, Zenon
    <3> QED BY <1>8, <3>1, <3>3
  <2> QED BY <2>1, <2>2
<1> HIDE DEF d
<1>10. /\ Pending' \in Seq(OutCell) /\ Len(Pending') = Len(d) + Len(file') /\ Len(file') \in Nat
       /\ Pending'[1] = status /\ Len(Pending') \in Nat \ {0}
  BY <1>5, <1>7, <1>8, ConcatProperties
<1>11. Range(Pending') = Range(d) \cup Range(file') BY <1>5, <1>7, <1>8, RangeConcatenation
<1>12. Range(Pending') \cap {"200", "400"} = {status} BY <1>5, <1>6, <1>7, <1>11
<1>13. /\ Len(answers') = Len(answers) + Len(Pending') /\ Len(answers) \in Nat
       /\ Range(answers') = Range(answers) \cup Range(Pending')
  <2> DEFINE p == Pending'
  <2>1. answers \in Seq(OutCell) /\ p \in Seq(OutCell) /\ answers' = answers \o p BY <1>4, <1>9, <1>10
  <2> HIDE DEF p
  <2>2. /\ Len(answers \o p) = Len(answers) + Len(p) /\ Len(answers) \in Nat
        /\ Range(answers \o p) = Range(answers) \cup Range(p)
    BY <2>1, ConcatProperties, RangeConcatenation
  <2> QED BY <2>1, <2>2 DEF p
<1>14. answers' # <<>>
  <2>1. Len(<<>>) = 0 OBVIOUS
  <2> QED BY <1>10, <1>13, <2>1
<1> QED BY <1>3, <1>9, <1>10, <1>12, <1>13, <1>14

\* Where the loop can be, and what it still has to write then.
LEMMA ControlStep ==
    ASSUME TypeOK, ControlInv, Next
    PROVE ControlInv'
<1> DEFINE T == {"writeComplete", "handleClose"}
<1>0. queue \in Seq(T) /\ batch \in Seq(T) /\ T \cap {"writeComplete"} # {} BY DEF TypeOK
<1>1. Range(<<>>) = {} BY DEF Range
<1>2. UNCHANGED <<mWriteBuffer, file>> => Pending' = Pending BY DEF Pending
<1>3. CASE Poll
  <2>1. pc' = "read" => Readable BY <1>3 DEF Poll
  <2>2. /\ pc' \in {"read", "hup", "handleWrite", "doTask"} /\ pc = "poll"
        /\ pc' = "read" => interest = "in"
        /\ pc' = "handleWrite" => interest = "out"
        /\ pc' = "hup" => reset
        /\ UNCHANGED <<peerVars, input, output, life, tasks, resp>>
    BY <1>3 DEF Poll
  <2> QED BY <1>2, <2>1, <2>2 DEF ControlInv, Readable
<1>4. CASE PollWakeup \/ EndTasks BY <1>2, <1>4 DEF PollWakeup, EndTasks, ControlInv, Readable
<1>5. CASE doTask BY <1>1, <1>2, <1>5 DEF doTask, ControlInv, Readable
<1>6. CASE WriteComplete
  <2>1. Range(batch') \subseteq Range(batch) BY <1>0, <1>6, TailRange DEF WriteComplete
  <2>2. Range(queue') \subseteq Range(queue) \cup {"handleClose"}
    BY <1>0, <1>6, AppendRange DEF WriteComplete
  <2> QED BY <1>2, <1>6, <2>1, <2>2 DEF WriteComplete, ControlInv, Readable
<1>7. CASE CloseTask
  <2>1. Range(batch') \subseteq Range(batch) BY <1>0, <1>7, TailRange DEF CloseTask
  <2> QED BY <1>2, <1>7, <2>1 DEF CloseTask, handleClose, ControlInv, Readable
<1>8. CASE HangUp BY <1>2, <1>8 DEF HangUp, handleClose, ControlInv, Readable
<1>9. CASE handleRead
  <2>1. \/ handleClose /\ pc' = "doTask"
        \/ pc' = "parse" /\ UNCHANGED life
    BY <1>9 DEF handleRead
  <2>2. pc = "read" /\ UNCHANGED <<output, tasks>> BY <1>9 DEF handleRead
  <2> QED BY <1>2, <2>1, <2>2 DEF handleClose, ControlInv, Readable
<1>10. CASE NoRequest \/ BadLine \/ parseRequest \/ parseHeader \/ parseContent \/ AfterSuccess
  <2>1. pc = "parse" /\ AroundParser
    BY <1>10 DEF NoRequest, BadLine, parseRequest, parseHeader, parseContent, AfterSuccess, Parsing
  <2>2. pc' \in {"doTask", "bad", "parse", "get", "terminated"}
    <3>1. CASE parseHeader
      <4>1. CASE Text = <<>> BY <2>1, <3>1, <4>1 DEF parseHeader
      <4>2. CASE Text # <<>> BY <2>1, <3>1, <4>2 DEF parseHeader
      <4> QED BY <4>1, <4>2
    <3>2. CASE ~parseHeader
      BY <1>10, <2>1, <3>2 DEF NoRequest, BadLine, parseRequest, parseContent, AfterSuccess
    <3> QED BY <3>1, <3>2
  <2>3. UNCHANGED <<mWriteBuffer, file, answers, state, interest, queue, batch>>
    BY <2>1 DEF AroundParser
  <2>4. /\ interest = "in" /\ state # "CLOSING" /\ Pending = <<>> /\ batch = <<>>
        /\ "writeComplete" \notin Range(queue)
    BY <2>1 DEF ControlInv
  <2>5. Pending' = <<>> BY <1>2, <2>3, <2>4
  <2> QED BY <1>1, <2>2, <2>3, <2>4, <2>5 DEF ControlInv
<1>11. CASE BadRequest \/ GetRequest
  <2>1. answers' # <<>> BY <1>11, AnswerGiven
  <2>2. /\ pc \in {"bad", "get"} /\ pc' = "sendInLoop"
        /\ UNCHANGED <<state, interest, tasks>>
    BY <1>11 DEF BadRequest, GetRequest
  <2> QED BY <1>1, <2>1, <2>2 DEF ControlInv
<1>12. CASE \E n \in 1 .. sndbuf : writev(n)
  <2>1. pc \in {"sendInLoop", "handleWrite"} /\ UNCHANGED <<peerVars, input, answers, life, tasks, pc>>
    BY <1>12 DEF writev, Sending
  <2> QED BY <1>1, <2>1 DEF ControlInv
<1>13. CASE WouldBlock BY <1>2, <1>13 DEF WouldBlock, Sending, ControlInv
<1>14. CASE EnableWrite BY <1>2, <1>14 DEF EnableWrite, ControlInv
<1>15. CASE AllSent
  <2>1. Range(queue') = Range(queue) \cup {"writeComplete"} BY <1>0, <1>15, AppendRange DEF AllSent
  <2> QED BY <1>2, <1>15, <2>1 DEF AllSent, Sending, ControlInv
<1>16. CASE WriteFails
  <2>1. pc \in {"sendInLoop", "handleWrite"} /\ pc' = "doTask" /\ state' = "CLOSING"
        /\ interest' = "none" /\ UNCHANGED <<tasks, answers>>
    BY <1>16 DEF WriteFails, Sending, handleClose
  <2> QED BY <1>1, <2>1 DEF ControlInv
<1>17. CASE PeerStep
  <2>1. /\ UNCHANGED <<mWriteBuffer, file, answers, received, pc, tasks, life>>
        /\ reset => reset'
        /\ Readable => Readable'
    <3>1. CASE \E n \in 1 .. Len(stream) : PeerSends(n)
      BY <3>1, StreamCells DEF PeerSends, Readable
    <3>2. CASE PeerFinishes BY <3>2 DEF PeerFinishes, Readable
    <3>3. CASE PeerResets BY <3>3 DEF PeerResets, Readable
    <3>4. CASE PeerReads BY <3>4 DEF PeerReads, Readable
    <3> QED BY <1>17, <3>1, <3>2, <3>3, <3>4 DEF PeerStep
  <2>2. UNCHANGED <<answers, pc, queue, batch, state, interest>> /\ Pending' = Pending
    BY <1>2, <2>1
  <2>3. reset => reset' BY <2>1
  <2>4. Readable => Readable' BY <2>1
  <2> QED BY <2>2, <2>3, <2>4 DEF ControlInv
<1> QED
  BY <1>3, <1>4, <1>5, <1>6, <1>7, <1>8, <1>9, <1>10, <1>11, <1>12, <1>13, <1>14, <1>15, <1>16, <1>17
  DEF Next, LoopStep

\* What was to be sent is on its way, has arrived, or is left to be written.
LEMMA OutputStep ==
    ASSUME TypeOK, ControlInv, OutputIntact, Next
    PROVE OutputIntact'
<1>1. /\ got \in Seq(OutCell) /\ outq \in Seq(OutCell) /\ answers \in Seq(OutCell)
      /\ got \o outq \in Seq(OutCell)
  BY ConcatProperties DEF TypeOK
<1>2. Pending \in Seq(OutCell)
  <2>1. mWriteBuffer.data \in Seq(OutCell) /\ file \in Seq(OutCell) BY DEF TypeOK, Buffers
  <2> QED BY <2>1, ConcatProperties DEF Pending
<1>3. CASE UNCHANGED <<got, outq, mWriteBuffer, file, answers>> /\ (reset => reset')
  <2>1. Pending' = Pending BY <1>3 DEF Pending
  <2> QED BY <1>3, <2>1 DEF OutputIntact
<1>4. CASE BadRequest \/ GetRequest
  <2> DEFINE p == Pending'
  <2>1. /\ Pending = <<>> /\ p \in Seq(OutCell) /\ answers' = answers \o p
    BY <1>4, AnswerGiven
  <2>2. UNCHANGED <<got, outq, reset>> BY <1>4 DEF BadRequest, GetRequest
  <2>3. ~reset => got \o outq = answers
    <3>1. (got \o outq) \o <<>> = got \o outq BY <1>1, ConcatEmptySeq
    <3> QED BY <2>1, <3>1 DEF OutputIntact
  <2> QED BY <2>1, <2>2, <2>3 DEF OutputIntact
<1>5. CASE \E n \in 1 .. sndbuf : writev(n)
  <2>1. PICK n \in 1 .. sndbuf : writev(n) BY <1>5
  <2> DEFINE q == outq'
             p == Pending'
             o == Pending
  <2>2. q \o p = outq \o o /\ q \in Seq(OutCell) /\ p \in Seq(OutCell) /\ o \in Seq(OutCell)
    BY <2>1, AfterWritev
  <2>3. UNCHANGED <<got, answers, reset>> BY <2>1 DEF writev
  <2>4. (got \o outq') \o Pending' = (got \o outq) \o Pending
    <3> HIDE DEF q, p, o
    <3>0. \A s, t, u \in Seq(OutCell) : (s \o t) \o u = s \o (t \o u) BY ConcatAssociative
    <3>1. (got \o q) \o p = got \o (q \o p)
      <4>1. got \in Seq(OutCell) /\ q \in Seq(OutCell) /\ p \in Seq(OutCell) BY <1>1, <2>2
      <4> QED BY <3>0, <4>1, Zenon
    <3>2. (got \o outq) \o o = got \o (outq \o o)
      <4>1. got \in Seq(OutCell) /\ outq \in Seq(OutCell) /\ o \in Seq(OutCell) BY <1>1, <2>2
      <4> QED BY <3>0, <4>1, Zenon
    <3>3. (got \o q) \o p = (got \o outq) \o o BY <2>2, <3>1, <3>2, Zenon
    <3> QED BY <3>3 DEF q, p, o
  <2> QED BY <2>3, <2>4 DEF OutputIntact
<1>6. CASE PeerReads
  <2>1. /\ got' = got \o outq /\ outq' = <<>> /\ UNCHANGED <<mWriteBuffer, file, answers, reset>>
    BY <1>6 DEF PeerReads
  <2>2. Pending' = Pending BY <2>1 DEF Pending
  <2>3. got' \o outq' = got \o outq BY <1>1, <2>1, ConcatEmptySeq
  <2> QED BY <2>1, <2>2, <2>3 DEF OutputIntact
<1>7. CASE WriteFails BY <1>7 DEF WriteFails, OutputIntact
<1>8. CASE Poll \/ PollWakeup \/ doTask \/ EndTasks BY <1>3, <1>8 DEF Poll, PollWakeup, doTask, EndTasks
<1>9. CASE WriteComplete \/ CloseTask \/ HangUp BY <1>3, <1>9 DEF WriteComplete, CloseTask, HangUp
<1>10. CASE handleRead \/ WouldBlock \/ EnableWrite \/ AllSent
  BY <1>3, <1>10 DEF handleRead, WouldBlock, EnableWrite, AllSent
<1>11. CASE NoRequest \/ BadLine \/ parseRequest \/ parseHeader \/ parseContent \/ AfterSuccess
  <2>1. AroundParser
    BY <1>11 DEF NoRequest, BadLine, parseRequest, parseHeader, parseContent, AfterSuccess
  <2> QED BY <1>3, <2>1 DEF AroundParser
<1>12. CASE PeerStep /\ ~PeerReads
  BY <1>3, <1>12 DEF PeerStep, PeerSends, PeerFinishes, PeerResets
<1> QED
  BY <1>4, <1>5, <1>6, <1>7, <1>8, <1>9, <1>10, <1>11, <1>12 DEF Next, LoopStep

\* A step that neither parses nor answers.
LEMMA AnswerUntouched ==
    ASSUME AnswerInv, UNCHANGED parser, UNCHANGED <<answers, resp>>,
           \/ pc' = pc
           \/ /\ pc \notin {"parse", "bad", "get"}
              /\ pc' \notin {"parse", "bad", "get", "terminated"},
           state' = state \/ state' = "CLOSING"
    PROVE AnswerInv'
<1>1. Arrived' = Arrived /\ Stuck' = Stuck BY ParserUntouched
<1>2. UNCHANGED <<mCheckState, mReadBuffer, consumed, contentLength>> BY DEF parser, request
<1>3. state' = "CONNECTED" => state = "CONNECTED" OBVIOUS
<1> QED BY <1>1, <1>2, <1>3 DEF AnswerInv

\* The loop waits for more only when no line is left in the buffer.
LEMMA NoLineLeft ==
    ASSUME TypeOK, InputIntact, ScanInv, "nul" \notin Range(mReadBuffer.data), Scan.line = "OPEN"
    PROVE LineEnds(Arrived) \subseteq 1 .. consumed
<1> DEFINE d == mReadBuffer.data
<1>1. /\ stream \in Seq(Cell) /\ received \in 0 .. Len(stream) /\ consumed \in Nat /\ received \in Nat
      /\ Arrived = Prefix(stream, received)
  BY StreamCells
<1>2. LineEnds(Arrived) = Ends(stream, received) BY <1>1, TextOfPrefix
<1>3. /\ Len(d) = received - consumed /\ Len(d) \in Nat
      /\ \A i \in 1 .. Len(d) : d[i] # "nul" => d[i] = stream[consumed + i]
  BY CellsOfBuffer
<1>4. d \in Seq(Cell) /\ DOMAIN d = 1 .. Len(d)
  BY DEF TypeOK, Buffers
<1>5. \A i \in 1 .. Len(d) : d[i] = stream[consumed + i] BY <1>3, <1>4 DEF Range
<1>6. /\ Scan.index = Len(d) \/ (Scan.index = Len(d) - 1 /\ d[Len(d)] = "cr")
      /\ NoBreak(d, Scan.index) /\ Scan.index \in Nat
  BY ScanEnds DEF NoLineYet, LineEnded, LineRefused
<1>7. ASSUME NEW e \in Ends(stream, received), e > consumed PROVE FALSE
  <2>1. e \in 2 .. received /\ stream[e] = "lf" BY DEF Ends
  <2>2. PICK i \in 1 .. Len(d) : i = e - consumed BY <1>1, <1>3, <1>7, <2>1
  <2>3. consumed + i = e /\ i \in Nat BY <1>1, <2>1, <2>2
  <2>4. d[i] = "lf" BY <1>5, <2>1, <2>3
  <2>5. i # Len(d) \/ Scan.index = Len(d) BY <1>6, <2>4
  <2>6. i \in 1 .. Scan.index BY <1>3, <1>6, <2>2, <2>5
  <2> QED BY <1>6, <2>4, <2>6 DEF NoBreak
<1>8. \A e \in Ends(stream, received) : e \in Nat /\ e >= 2 BY <1>1 DEF Ends
<1>9. \A e \in Ends(stream, received) : e \in 1 .. consumed BY <1>1, <1>7, <1>8
<1> QED BY <1>2, <1>9

\* A line that parseLine refuses, it refuses again.
LEMMA RefusedAgain ==
    ASSUME TypeOK, ScanInv, TypeOK', ScanInv', mReadBuffer'.data = mReadBuffer.data, Scan.line = "BAD"
    PROVE Scan'.line = "BAD"
<1>1. Broken(mReadBuffer.data) BY ScanEnds
<1>2. Broken(mReadBuffer'.data) BY <1>1
<1> DEFINE d == mReadBuffer'.data
           m == mCheckIndex'
<1>3. d \in Seq(Cell) /\ m \in 0 .. Len(d) BY DEF TypeOK, Buffers
<1>4. NoBreak(d, m) BY DEF ScanInv, NoBreak
<1>5. Scan' = parseLine(d, m) BY DEF Scan
<1> HIDE DEF d, m
<1>6. Scan'.line = "BAD" <=> Broken(d) BY <1>3, <1>4, <1>5, BadIsBroken
<1> QED BY <1>2, <1>6 DEF d

\* Once something has been answered, the parser takes no more lines off.
LEMMA TakesOneRequest ==
    ASSUME TypeOK, ScanInv, AnswerInv, pc = "parse", Scan.line # "BAD",
           mCheckState \in {"HEADER", "BODY"} \/
               (mCheckState = "REQUEST" /\ Scan.line = "OK" /\ Text = <<"get">>)
    PROVE answers = <<>>
<1> SUFFICES ASSUME Stuck PROVE FALSE BY DEF AnswerInv
<1>1. mCheckState = "REQUEST" /\ "nul" \in Range(mReadBuffer.data) BY DEF Stuck
<1>2. Scan.line = "OK" /\ Text = <<"get">> BY <1>1
<1> DEFINE d == mReadBuffer.data
           k == Scan.index
<1>3. d \in Seq(Cell) /\ DOMAIN d = 1 .. Len(d) BY DEF TypeOK, Buffers
<1>4. PICK j \in 1 .. Len(d) : d[j] = "nul" BY <1>1, <1>3 DEF Range
<1>5. j <= mCheckIndex BY <1>1, <1>3, <1>4 DEF ScanInv
<1>6. /\ k \in Nat /\ k >= 2 /\ mCheckIndex <= k - 2 /\ mCheckIndex \in Nat /\ k <= Len(d)
      /\ Scan.data = [d EXCEPT ![k - 1] = "nul", ![k] = "nul"]
      /\ Scan.data \in Seq(Cell) /\ Len(Scan.data) = Len(d)
  BY <1>2, ScanEnds DEF NoLineYet, LineEnded, LineRefused
<1> DEFINE t == SubSeq(Scan.data, 1, k - 2)
<1>7. Len(t) = k - 2 /\ \A i \in 1 .. k - 2 : t[i] = Scan.data[i]
  BY <1>3, <1>6
<1>8. t = <<"get">> BY <1>2 DEF Text
<1> HIDE DEF t, d, k
<1>9. k - 2 = 1 BY <1>7, <1>8
<1>10. j = 1 BY <1>4, <1>5, <1>6, <1>9
<1>11. Scan.data[1] = d[1] BY <1>3, <1>6, <1>9
<1>12. t[1] = "nul" BY <1>4, <1>7, <1>9, <1>10, <1>11
<1> QED BY <1>8, <1>12

\* The steps of the parser and of handleRead.
LEMMA AnswerOfParser ==
    ASSUME TypeOK, InputIntact, ScanInv, HeadInv, AnswerInv, TypeOK', InputIntact', ScanInv',
           handleRead \/ NoRequest \/ BadLine \/ parseRequest \/ parseHeader
               \/ parseContent \/ AfterSuccess
    PROVE AnswerInv'
<1> DEFINE d == mReadBuffer.data
           Kept == UNCHANGED <<answers, resp, state>> /\ Arrived' = Arrived
<1>1. Range(<<>>) = {} BY DEF Range
<1>2. d \in Seq(Cell) /\ DOMAIN d = 1 .. Len(d) /\ Len(d) \in Nat BY SMTT(30) DEF TypeOK, Buffers
<1>3. CASE handleRead
  <2>1. /\ ~WellFormed(Arrived) => ~WellFormed(Arrived')
        /\ Stuck => Stuck'
    BY <1>3, ReadKeepsInput
  <2>2. "nul" \in Range(mReadBuffer'.data) => "nul" \in Range(d)
    <3> DEFINE t == mReadBuffer'.data
    <3>1. /\ DOMAIN t = 1 .. Len(t) /\ Len(t) \in Nat /\ Len(d) <= Len(t)
          /\ \A i \in 1 .. Len(d) : t[i] = d[i]
          /\ \A i \in Len(d) + 1 .. Len(t) : t[i] # "nul"
      BY <1>3, AfterRead
    <3> HIDE DEF t
    <3>2. ASSUME NEW i \in 1 .. Len(t), t[i] = "nul" PROVE i \in 1 .. Len(d) /\ d[i] = "nul"
      <4>1. i \in 1 .. Len(d) BY <1>2, <3>1, <3>2
      <4> QED BY <3>1, <3>2, <4>1
    <3>3. "nul" \in Range(t) => \E i \in 1 .. Len(t) : t[i] = "nul" BY <3>1 DEF Range
    <3> QED BY <1>2, <3>2, <3>3 DEF Range, t
  <2>3. /\ pc = "read" /\ UNCHANGED <<answers, resp, mCheckState>>
        /\ pc' = "parse" \/ (pc' = "doTask" /\ state' = "CLOSING")
    BY <1>3 DEF handleRead, handleClose
  <2> QED BY <2>1, <2>2, <2>3 DEF AnswerInv
<1>4. CASE NoRequest
  <2>1. pc = "parse" /\ pc' = "doTask" /\ UNCHANGED <<answers, resp, state, consumed, mCheckState>>
        /\ mReadBuffer'.data = d
    <3>1. CASE d = <<>> /\ UNCHANGED <<mReadBuffer, request>> BY <1>4, <3>1 DEF NoRequest, AroundParser
    <3>2. CASE ~(d = <<>> /\ UNCHANGED <<mReadBuffer, request>>)
      <4>1. Stay /\ Scan.line = "OPEN" /\ mCheckState' = mCheckState
        BY <1>4, <3>2 DEF NoRequest, Parsing
      <4>2. Scan.data = d /\ consumed' = consumed
        BY <4>1, ScanEnds DEF NoLineYet, LineEnded, LineRefused, Stay
      <4> QED BY <1>4, <4>1, <4>2 DEF NoRequest, AroundParser, Stay
    <3> QED BY <3>1, <3>2
  <2>2. Arrived' = Arrived BY <1>4, StayStep
  <2>3. Stuck => Stuck'
    <3>1. Scan.line = "BAD" => Scan'.line = "BAD" BY <2>1, RefusedAgain
    <3> QED BY <2>1, <3>1 DEF Stuck
  <2>4. answers = <<>> => mCheckState = "BODY" \/ LineEnds(Arrived) \subseteq 1 .. consumed
    <3> SUFFICES ASSUME answers = <<>> PROVE LineEnds(Arrived) \subseteq 1 .. consumed
      OBVIOUS
    <3>1. CASE d = <<>>
      <4>1. /\ received = consumed /\ Arrived = Prefix(stream, received) /\ stream \in Seq(Cell)
            /\ received \in 0 .. Len(stream) /\ consumed \in Nat
        BY <3>1, StreamCells DEF InputIntact
      <4>2. LineEnds(Arrived) = Ends(stream, received) BY <4>1, TextOfPrefix
      <4> QED BY <4>1, <4>2 DEF Ends
    <3>2. CASE d # <<>>
      <4>1. Scan.line = "OPEN" /\ mCheckState \in {"REQUEST", "HEADER", "SUCCESS"}
        BY <1>4, <3>2 DEF NoRequest, Parsing
      <4>2. mCheckState # "SUCCESS" BY <2>1 DEF AnswerInv
      <4>3. "nul" \notin Range(d) BY <2>1, <4>1, <4>2 DEF AnswerInv, ScanInv
      <4> QED BY <4>1, <4>3, NoLineLeft
    <3> QED BY <3>1, <3>2
  <2> QED BY <2>1, <2>2, <2>3, <2>4 DEF AnswerInv
<1>5. CASE BadLine
  <2>1. /\ pc = "parse" /\ d # <<>> /\ Scan.line = "BAD" /\ pc' = "bad" /\ Stay
        /\ UNCHANGED <<answers, resp, mCheckState>>
    BY <1>5 DEF BadLine, Parsing, AroundParser
  <2>2. mReadBuffer'.data = d BY <2>1, ScanEnds DEF NoLineYet, LineEnded, LineRefused, Stay
  <2>3. Arrived' = Arrived BY <1>5, StayStep
  <2>4. ~WellFormed(Arrived) BY <2>1, RefusedIsWrong
  <2>5. Stuck' BY <2>1, <2>2, RefusedAgain DEF Stuck
  <2> QED BY <2>1, <2>2, <2>3, <2>4, <2>5 DEF AnswerInv
<1>6. CASE parseRequest /\ Text # <<"get">>
  <2>1. /\ pc = "parse" /\ d # <<>> /\ Scan.line = "OK" /\ pc' = "bad" /\ Stay
        /\ mCheckState = "REQUEST" /\ UNCHANGED <<answers, resp, mCheckState>>
    BY <1>6 DEF parseRequest, Parsing, AroundParser
  <2>2. Arrived' = Arrived BY <1>6, StayStep
  <2>3. ~WellFormed(Arrived) BY <1>6, <2>1, FirstLineIsWrong
  <2>4. Stuck'
    <3>1. /\ Scan.index \in Nat /\ Scan.index >= 2 /\ Scan.index <= Len(d)
          /\ Scan.data = [d EXCEPT ![Scan.index - 1] = "nul", ![Scan.index] = "nul"]
          /\ Scan.data \in Seq(Cell) /\ Len(Scan.data) = Len(d)
      BY <2>1, ScanEnds DEF NoLineYet, LineEnded, LineRefused
    <3>2. Scan.data[Scan.index] = "nul" BY <1>2, <3>1
    <3>3. "nul" \in Range(Scan.data) /\ Scan.data # <<>>
      <4>1. Scan.index \in DOMAIN Scan.data BY <1>2, <3>1
      <4> QED BY <3>2, <4>1 DEF Range
    <3>4. mReadBuffer'.data = Scan.data BY <2>1, AfterStay, <1>6 DEF parseRequest, AroundParser
    <3> QED BY <2>1, <3>3, <3>4 DEF Stuck
  <2> QED BY <2>1, <2>2, <2>3, <2>4 DEF AnswerInv
<1>7. CASE parseRequest /\ Text = <<"get">>
  <2>1. /\ pc = "parse" /\ Scan.line = "OK" /\ mCheckState = "REQUEST" /\ pc' = pc
        /\ mCheckState' = "HEADER" /\ UNCHANGED answers
    BY <1>7 DEF parseRequest, Parsing, AroundParser
  <2>2. answers = <<>> BY <1>7, <2>1, TakesOneRequest
  <2> QED BY <1>1, <2>1, <2>2 DEF AnswerInv
<1>8. CASE parseHeader
  <2>1. /\ pc = "parse" /\ Scan.line = "OK" /\ mCheckState = "HEADER" /\ UNCHANGED answers
    BY <1>8 DEF parseHeader, Parsing, AroundParser
  <2>2. answers = <<>> BY <2>1, TakesOneRequest
  <2>3. \/ pc' = "parse" /\ mCheckState' \in {"HEADER", "BODY"}
        \/ pc' = "get" /\ mCheckState' = "SUCCESS"
    <3>1. CASE Text = <<>> BY <1>8, <2>1, <3>1 DEF parseHeader
    <3>2. CASE Text # <<>> BY <1>8, <2>1, <3>2 DEF parseHeader
    <3> QED BY <3>1, <3>2
  <2> QED BY <1>1, <2>1, <2>2, <2>3 DEF AnswerInv
<1>9. CASE parseContent
  <2>1. /\ pc = "parse" /\ Scan.line # "BAD" /\ mCheckState = "BODY" /\ UNCHANGED answers
        /\ \/ pc' = "doTask" /\ mCheckState' = "BODY"
           \/ pc' = "terminated" /\ mCheckState' = "BODY" /\ contentLength' < 0
           \/ pc' = "get" /\ mCheckState' = "SUCCESS"
    BY <1>9 DEF parseContent, Parsing, AroundParser
  <2>2. answers = <<>> BY <2>1, TakesOneRequest
  <2> QED BY <1>1, <2>1, <2>2 DEF AnswerInv
<1>10. CASE AfterSuccess
  <2>1. /\ pc = "parse" /\ mCheckState = "SUCCESS" /\ UNCHANGED <<answers, resp, mCheckState, pc>>
    BY <1>10 DEF AfterSuccess, Parsing, AroundParser
  <2>2. Arrived' = Arrived BY <1>10, StayStep
  <2> QED BY <2>1, <2>2 DEF AnswerInv
<1> QED BY <1>3, <1>4, <1>5, <1>6, <1>7, <1>8, <1>9, <1>10

\* Answers are given when they are due, and nothing but answers is given.
LEMMA AnswerStep ==
    ASSUME TypeOK, InputIntact, ScanInv, HeadInv, ControlInv, AnswerInv,
           TypeOK', InputIntact', ScanInv', Next
    PROVE AnswerInv'
<1>1. CASE handleRead \/ NoRequest \/ BadLine \/ parseRequest \/ parseHeader
               \/ parseContent \/ AfterSuccess
  BY <1>1, AnswerOfParser
<1>2. CASE BadRequest
  <2>1. /\ answers' # <<>> /\ Range(answers') = Range(answers) \cup Range(Pending')
        /\ Range(Pending') \cap {"200", "400"} = {"400"}
    <3>1. pc = "bad" BY <1>2 DEF BadRequest
    <3> QED BY <1>2, <3>1, AnswerGiven
  <2>2. pc = "bad" /\ pc' = "sendInLoop" /\ UNCHANGED parser
    BY <1>2 DEF BadRequest, parser
  <2>3. Arrived' = Arrived /\ Stuck' = Stuck BY <2>2, ParserUntouched
  <2>4. UNCHANGED mCheckState BY <2>2 DEF parser
  <2>5. "200" \in Range(answers') => "200" \in Range(answers) BY <2>1
  <2> QED BY <2>1, <2>2, <2>3, <2>4, <2>5 DEF AnswerInv
<1>3. CASE GetRequest
  <2>1. /\ pc = "get" /\ pc' = "sendInLoop" /\ UNCHANGED <<stream, received, mCheckState>>
        /\ resp' \in Replies
    BY <1>3 DEF GetRequest
  <2>2. /\ answers' # <<>> /\ Range(answers') = Range(answers) \cup Range(Pending')
        /\ Range(Pending') \cap {"200", "400"} = {StatusOf(resp')}
    BY <1>3, <2>1, AnswerGiven
  <2>3. mCheckState = "SUCCESS" /\ answers = <<>> BY <2>1 DEF AnswerInv
  <2>4. "400" \in Range(answers') => resp'.path # None
    <3>1. Range(<<>>) = {} BY DEF Range
    <3>2. "400" \in Range(answers') => StatusOf(resp') = "400" BY <2>2, <2>3, <3>1
    <3> QED BY <2>1, <3>2, ReplyCells
  <2> QED BY <2>1, <2>2, <2>3, <2>4 DEF AnswerInv
<1>4. CASE ~(handleRead \/ NoRequest \/ BadLine \/ parseRequest \/ parseHeader
               \/ parseContent \/ AfterSuccess \/ BadRequest \/ GetRequest)
  <2>1. UNCHANGED parser BY <1>4, OnlyTheParserParses
  <2>2. /\ UNCHANGED <<answers, resp>>
        /\ \/ pc' = pc
           \/ /\ pc \notin {"parse", "bad", "get"}
              /\ pc' \notin {"parse", "bad", "get", "terminated"}
        /\ state' = state \/ state' = "CLOSING"
    <3>1. CASE Poll
      <4>1. pc = "poll" /\ pc' \in {"read", "hup", "handleWrite", "doTask"}
        BY <3>1 DEF Poll
      <4> QED BY <3>1, <4>1 DEF Poll
    <3>2. CASE PollWakeup \/ doTask \/ EndTasks BY <3>2 DEF PollWakeup, doTask, EndTasks
    <3>3. CASE WriteComplete \/ CloseTask \/ HangUp
      BY <3>3 DEF WriteComplete, CloseTask, HangUp, handleClose
    <3>4. CASE WouldBlock \/ EnableWrite \/ AllSent \/ WriteFails
      BY <3>4 DEF WouldBlock, EnableWrite, AllSent, WriteFails, handleClose, Sending
    <3>5. CASE \E n \in 1 .. sndbuf : writev(n) BY <3>5 DEF writev
    <3>6. CASE PeerStep BY <3>6 DEF PeerStep, PeerSends, PeerFinishes, PeerResets, PeerReads
    <3> QED BY <1>4, <3>1, <3>2, <3>3, <3>4, <3>5, <3>6 DEF Next, LoopStep
  <2> QED BY <2>1, <2>2, AnswerUntouched
<1> QED BY <1>1, <1>2, <1>3, <1>4

\* A step that neither reads, answers, writes nor closes.
LEMMA CloseUntouched ==
    ASSUME CloseInv, NotCutShort, KeptOpen,
           UNCHANGED <<stream, received, mReadBuffer, mWriteBuffer, file, answers, mAlive, state>>,
           fin => fin', reset => reset',
           Range(queue') \cup Range(batch') \subseteq Range(queue) \cup Range(batch),
           queue' # <<>> \/ batch' # <<>> => queue # <<>> \/ batch # <<>>
    PROVE CloseInv' /\ NotCutShort' /\ KeptOpen'
<1>1. Pending' = Pending /\ Arrived' = Arrived BY DEF Pending, Arrived
<1>2. CutAnswer' = CutAnswer BY <1>1 DEF CutAnswer
<1>3. CloseInv'
  <2>1. "handleClose" \in Range(queue') \cup Range(batch') =>
           "handleClose" \in Range(queue) \cup Range(batch)
    OBVIOUS
  <2> QED BY <1>1, <1>2, <2>1 DEF CloseInv
<1>4. NotCutShort' BY <1>1, <1>2 DEF NotCutShort
<1>5. KeptOpen' BY DEF KeptOpen, avail
<1> QED BY <1>3, <1>4, <1>5

\* handleRead closes at an end of the stream, an error, or a full buffer.
LEMMA CloseOfRead ==
    ASSUME TypeOK, ControlInv, CloseInv, KeptOpen, handleRead
    PROVE CloseInv' /\ NotCutShort' /\ KeptOpen'
<1>1. pc = "read" /\ UNCHANGED <<answers, mWriteBuffer, file, queue, batch, fin, reset, mAlive>>
  BY DEF handleRead, handleClose
<1>2. mWriteBuffer.data = <<>> /\ file = <<>> /\ state = "CONNECTED" BY <1>1, NothingPending
<1>3. Pending' = <<>> BY <1>1, <1>2 DEF Pending
<1>4. CloseInv' BY <1>1, <1>3 DEF CloseInv
<1>5. NotCutShort' BY <1>3 DEF NotCutShort
<1>6. KeptOpen'
  <2> DEFINE n == Least(avail(mReadBuffer), sent - received)
  <2> SUFFICES ASSUME state' = "CLOSING", ~fin, ~reset PROVE avail(mReadBuffer)' = 0
    BY <1>1 DEF KeptOpen
  <2>1. n = 0 /\ mReadBuffer' = mReadBuffer BY <1>2 DEF handleRead
  <2>2. received < sent BY <1>1 DEF ControlInv, Readable
  <2>3. received \in Nat /\ sent \in Nat BY StreamCells
  <2>4. avail(mReadBuffer) \in Int
    <3>1. Len(mReadBuffer.data) \in Nat BY DEF TypeOK, Buffers
    <3> QED BY <3>1, SizeAssumption DEF avail
  <2>5. avail(mReadBuffer) = 0 BY <2>1, <2>2, <2>3, <2>4 DEF Least
  <2> QED BY <2>1, <2>5 DEF avail
<1> QED BY <1>4, <1>5, <1>6

\* Whoever closes the connection may: the answer is written or the 400 for
\* what came behind it is cut short, and the server has its reason.
LEMMA CloseStep ==
    ASSUME TypeOK, ControlInv, AnswerInv, CloseInv, NotCutShort, KeptOpen,
           ~WellFormed(Arrived) => ~WellFormed(Arrived'), Next,
           NoRequest \/ BadLine \/ parseRequest \/ parseHeader \/ parseContent \/ AfterSuccess
               => Arrived' = Arrived
    PROVE CloseInv' /\ NotCutShort' /\ KeptOpen'
<1> DEFINE T == {"writeComplete", "handleClose"}
           H(q) == "handleClose" \in Range(q)
<1>0. queue \in Seq(T) /\ batch \in Seq(T) /\ reset \in BOOLEAN BY DEF TypeOK
<1>1. Range(<<>>) = {} BY DEF Range
<1>2. CASE Poll \/ PollWakeup \/ doTask \/ EndTasks \/ WouldBlock \/ EnableWrite \/ PeerStep
  <2>1. UNCHANGED <<stream, received, mReadBuffer, mWriteBuffer, file, answers, mAlive, state>>
    BY <1>2
    DEF Poll, PollWakeup, doTask, EndTasks, WouldBlock, EnableWrite, PeerStep, PeerSends,
        PeerFinishes, PeerResets, PeerReads
  <2>2. (fin => fin') /\ (reset => reset')
    BY <1>2
    DEF Poll, PollWakeup, doTask, EndTasks, WouldBlock, EnableWrite, PeerStep, PeerSends,
        PeerFinishes, PeerResets, PeerReads
  <2>3. /\ Range(queue') \cup Range(batch') \subseteq Range(queue) \cup Range(batch)
        /\ queue' # <<>> \/ batch' # <<>> => queue # <<>> \/ batch # <<>>
    <3>1. CASE doTask
      <4>1. queue' = <<>> /\ batch' = queue BY <3>1 DEF doTask
      <4> QED BY <1>1, <4>1
    <3>2. CASE ~doTask
      <4>1. UNCHANGED <<queue, batch>>
        BY <1>2, <3>2
        DEF Poll, PollWakeup, EndTasks, WouldBlock, EnableWrite, PeerStep, PeerSends,
            PeerFinishes, PeerResets, PeerReads
      <4> QED BY <4>1
    <3> QED BY <3>1, <3>2
  <2> QED BY <2>1, <2>2, <2>3, CloseUntouched
<1>3. CASE handleRead BY <1>3, CloseOfRead
<1>4. CASE NoRequest \/ BadLine \/ parseRequest \/ parseHeader \/ parseContent \/ AfterSuccess
  <2>1. pc = "parse" /\ AroundParser
    BY <1>4 DEF NoRequest, BadLine, parseRequest, parseHeader, parseContent, AfterSuccess, Parsing
  <2>2. state = "CONNECTED" BY <2>1, NothingPending
  <2>3. UNCHANGED <<answers, mWriteBuffer, file, queue, batch, reset, mAlive, state>>
    BY <2>1 DEF AroundParser
  <2>4. Pending' = Pending BY <2>3 DEF Pending
  <2>5. CutAnswer' = CutAnswer BY <1>4, <2>3, <2>4 DEF CutAnswer
  <2>6. CloseInv' BY <2>3, <2>4, <2>5 DEF CloseInv
  <2>7. NotCutShort' /\ KeptOpen' BY <2>2, <2>3 DEF NotCutShort, KeptOpen
  <2> QED BY <2>6, <2>7
<1>5. CASE WriteComplete
  <2>1. Range(batch) = {"writeComplete"} \cup Range(batch') BY <1>0, <1>5, TailRange DEF WriteComplete
  <2>2. Pending = <<>> /\ answers # <<>>
    BY <1>5, <2>1 DEF WriteComplete, ControlInv, CloseInv
  <2>3. UNCHANGED <<stream, received, mReadBuffer, mWriteBuffer, file, answers, mAlive, state, fin, reset>>
    BY <1>5 DEF WriteComplete
  <2>4. Pending' = <<>> BY <2>2, <2>3 DEF Pending
  <2>5. H(queue') => H(queue) \/ ~mAlive
    BY <1>0, <1>5, AppendRange DEF WriteComplete
  <2>6. CloseInv' BY <2>1, <2>2, <2>3, <2>4, <2>5 DEF CloseInv
  <2>7. NotCutShort' BY <2>4 DEF NotCutShort
  <2>8. KeptOpen' BY <2>3 DEF KeptOpen, avail
  <2> QED BY <2>6, <2>7, <2>8
<1>6. CASE CloseTask
  <2>1. Range(batch) = {"handleClose"} \cup Range(batch') /\ batch # <<>>
    BY <1>0, <1>6, TailRange DEF CloseTask
  <2>2. UNCHANGED <<stream, received, mWriteBuffer, file, answers, mAlive, reset, queue>>
    BY <1>6 DEF CloseTask, handleClose
  <2>3. /\ answers # <<>> /\ ~mAlive
        /\ ~reset /\ Pending # <<>> => CutAnswer
    BY <2>1 DEF CloseInv
  <2>4. Pending' = Pending /\ Arrived' = Arrived BY <2>2 DEF Pending, Arrived
  <2>5. CutAnswer' = CutAnswer BY <2>2, <2>4 DEF CutAnswer
  <2> QED BY <2>2, <2>3, <2>4, <2>5 DEF CloseInv, NotCutShort, KeptOpen
<1>7. CASE HangUp \/ WriteFails
  <2>1. reset /\ UNCHANGED <<reset, mAlive, queue, batch, answers>>
    BY <1>7 DEF HangUp, WriteFails, handleClose, ControlInv
  <2>2. CloseInv' BY <2>1 DEF CloseInv
  <2>3. NotCutShort' /\ KeptOpen' BY <2>1 DEF NotCutShort, KeptOpen
  <2> QED BY <2>2, <2>3
<1>8. CASE BadRequest
  <2> DEFINE p == Pending'
  <2>1. pc = "bad" /\ mAlive' = FALSE /\ UNCHANGED <<queue, batch, state, stream, received>>
    BY <1>8 DEF BadRequest
  <2>2. /\ p \in Seq(OutCell) /\ Len(p) \in Nat \ {0} /\ p[1] = "400"
        /\ answers' = answers \o p /\ answers' # <<>>
        /\ Len(answers') = Len(answers) + Len(p) /\ Len(answers) \in Nat
    BY <1>8, <2>1, AnswerGiven
  <2>3. state = "CONNECTED" BY <2>1, NothingPending
  <2>4. ~WellFormed(Arrived') BY <2>1 DEF AnswerInv
  <2>5. answers # <<>> => CutAnswer'
    <3> SUFFICES ASSUME answers # <<>> PROVE CutAnswer' OBVIOUS
    <3>1. answers \in Seq(OutCell) BY DEF TypeOK
    <3> DEFINE i == Len(answers) + 1
    <3> HIDE DEF p
    <3>2. Len(answers) # 0 BY <3>1
    <3>3. i \in 2 .. Len(answers') /\ (Len(answers') - i) + 1 = Len(p) BY <2>2, <3>2
    <3>4. answers'[i] = p[1]
      <4>1. (answers \o p)[Len(answers) + 1] = p[1] BY <2>2, <3>1, ConcatProperties
      <4> QED BY <2>2, <4>1
    <3> HIDE DEF i
    <3>5. answers'[i] = "400" /\ Len(p) <= (Len(answers') - i) + 1
      BY <2>2, <3>3, <3>4
    <3> QED BY <2>4, <3>3, <3>5 DEF CutAnswer, p
  <2>6. CloseInv'
    <3>1. H(queue) \/ H(batch) => queue # <<>> \/ batch # <<>> BY <1>1
    <3>2. H(queue) \/ H(batch) => CutAnswer' BY <2>5, <3>1 DEF CloseInv
    <3> HIDE DEF p
    <3> QED BY <2>1, <2>2, <3>2 DEF CloseInv
  <2>7. NotCutShort' /\ KeptOpen' BY <2>1, <2>3 DEF NotCutShort, KeptOpen
  <2> QED BY <2>6, <2>7
<1>9. CASE GetRequest
  <2>1. pc = "get" /\ UNCHANGED <<queue, batch, state>> BY <1>9 DEF GetRequest
  <2>2. answers = <<>> /\ state = "CONNECTED" BY <2>1, NothingPending DEF AnswerInv
  <2>3. queue' = <<>> /\ batch' = <<>> BY <2>1, <2>2 DEF CloseInv
  <2>4. CloseInv' BY <1>1, <2>3 DEF CloseInv
  <2>5. NotCutShort' /\ KeptOpen' BY <2>1, <2>2 DEF NotCutShort, KeptOpen
  <2> QED BY <2>4, <2>5
<1>10. CASE \E n \in 1 .. sndbuf : writev(n)
  <2>1. PICK n \in 1 .. sndbuf : writev(n) BY <1>10
  <2> DEFINE p == Pending'
             o == Pending
  <2>2. Len(p) <= Len(o) /\ p \in Seq(OutCell) /\ o \in Seq(OutCell) BY <2>1, AfterWritev
  <2>3. /\ pc \in {"sendInLoop", "handleWrite"}
        /\ UNCHANGED <<stream, received, answers, queue, batch, mAlive, state, reset>>
    BY <2>1 DEF writev, Sending
  <2>4. state = "CONNECTED" BY <2>3 DEF ControlInv, TypeOK
  <2>5. Arrived' = Arrived BY <2>3 DEF Arrived
  <2>6. p # <<>> => o # <<>>
    <3> HIDE DEF p, o
    <3> QED BY <2>2
  <2>7. CutAnswer => CutAnswer'
    <3> SUFFICES ASSUME CutAnswer PROVE CutAnswer' OBVIOUS
    <3>1. PICK i \in 2 .. Len(answers) : answers[i] = "400" /\ Len(o) <= (Len(answers) - i) + 1
      BY DEF CutAnswer
    <3>2. Len(answers) \in Nat BY DEF TypeOK
    <3> HIDE DEF p, o
    <3>3. Len(p) <= (Len(answers) - i) + 1 BY <2>2, <3>1, <3>2
    <3> QED BY <2>3, <2>5, <3>1, <3>3 DEF CutAnswer, p
  <2>8. CloseInv' BY <2>3, <2>6, <2>7 DEF CloseInv
  <2>9. NotCutShort' /\ KeptOpen' BY <2>3, <2>4 DEF NotCutShort, KeptOpen
  <2> QED BY <2>8, <2>9
<1>11. CASE AllSent
  <2>1. /\ Pending = <<>> /\ pc \in {"sendInLoop", "handleWrite"}
        /\ UNCHANGED <<mReadBuffer, mWriteBuffer, file, answers, mAlive, state, batch, fin, reset>>
    BY <1>11 DEF AllSent, Sending
  <2>2. Pending' = <<>> BY <2>1 DEF Pending
  <2>3. answers # <<>> BY <2>1 DEF ControlInv
  <2>4. Range(queue') = Range(queue) \cup {"writeComplete"} BY <1>0, <1>11, AppendRange DEF AllSent
  <2>5. CloseInv' BY <2>1, <2>2, <2>3, <2>4 DEF CloseInv
  <2>6. NotCutShort' BY <2>2 DEF NotCutShort
  <2>7. KeptOpen' BY <2>1 DEF KeptOpen, avail
  <2> QED BY <2>5, <2>6, <2>7
<1> QED
  BY <1>2, <1>3, <1>4, <1>5, <1>6, <1>7, <1>8, <1>9, <1>10, <1>11 DEF Next, LoopStep

-----------------------------------------------------------------------------
(* The theorems.                                                           *)

\* A connection that was just established.
LEMMA InitInv == Init => IInv
<1> SUFFICES ASSUME Init PROVE IInv OBVIOUS
<1> USE DEF Init
<1>1. /\ mReadBuffer = NewBuffer /\ mWriteBuffer = NewBuffer
      /\ NewBuffer \in Buffers(Cell) /\ NewBuffer \in Buffers(OutCell) /\ InBounds(NewBuffer)
      /\ NewBuffer.data = <<>> /\ Len(NewBuffer.data) = 0
  BY SizeAssumption DEF NewBuffer, Buffers, InBounds
<1>2. Range(<<>>) = {} /\ DOMAIN <<>> = {} BY DEF Range
<1>3. TypeOK
  <2>1. stream \in Seq(Cell) /\ Len(stream) \in Nat
    <3>1. stream \in Seq(Cell \ {"nul"}) BY StreamsAssumption
    <3> QED BY <3>1
  <2>2. <<>> \in Seq(OutCell) /\ Len(<<>>) = 0 /\ <<>> \in Seq({"writeComplete", "handleClose"})
    OBVIOUS
  <2>3. /\ received \in 0 .. sent /\ sent \in 0 .. Len(stream) /\ consumed \in 0 .. received
        /\ mCheckIndex \in 0 .. Len(mReadBuffer.data)
    BY <1>1, <2>1
  <2>4. Len(outq) <= sndbuf BY <2>2, SndbufAssumption
  <2>5. contentLength \in Range(LengthOf) BY Lengths
  <2> QED BY <1>1, <2>2, <2>3, <2>4, <2>5 DEF TypeOK
<1>4. Pending = <<>>
  <2>1. mWriteBuffer.data = <<>> /\ file = <<>> BY <1>1
  <2> QED BY <2>1 DEF Pending
<1>5. InputIntact BY <1>1, <1>2 DEF InputIntact
<1>6. ScanInv BY <1>1, <1>2 DEF ScanInv
<1>7. stream \in Seq(Cell) /\ Taken = Prefix(stream, 0) /\ Arrived = Prefix(stream, 0)
  BY <1>3, StreamCells
<1>8. /\ Ends(stream, 0) = {} /\ 0 \in 0 .. Len(stream)
  BY <1>7 DEF Ends
<1>9. LineEnds(Arrived) = {} BY <1>7, <1>8, TextOfPrefix
<1>10. HeadInv
  <2> DEFINE p == Prefix(stream, 0)
  <2>1. WellFormed(p)
    <3>1. Paired(stream, 0) BY DEF Paired
    <3> QED BY <1>7, <1>8, <3>1, WellFormedPrefix
  <2>2. HeadEnd(p) = 0
    <3>1. HeadEnd(p) \in 0 .. 0 BY <1>7, <1>8, HeadKept
    <3> QED BY <3>1
  <2>3. BodyLength(p) = 0 /\ KeptAlive(p) = FALSE
    <3>1. HeadLines(p) = {e \in Ends(stream, 0) : HeadEnd(p) = 0 \/ e < HeadEnd(p)}
      BY <1>7, <1>8, HeadLinesOfPrefix
    <3> HIDE DEF p
    <3>2. HeadLines(p) = {} BY <1>8, <3>1
    <3>3. \A headers : LastLine(p, headers) = <<>> BY <3>2 DEF LastLine, LinesNaming
    <3> QED BY <3>3 DEF BodyLength, KeptAlive
  <2> HIDE DEF p
  <2>4. Taken = p BY <1>7 DEF p
  <2>5. reqAlive = KeptAlive(Taken) BY <2>3, <2>4
  <2> QED BY <2>1, <2>2, <2>3, <2>4, <2>5 DEF HeadInv
<1>11. OutputIntact BY <1>4 DEF OutputIntact
<1>12. ControlInv BY <1>2, <1>4 DEF ControlInv
<1>13. AnswerInv BY <1>1, <1>2, <1>9 DEF AnswerInv
<1>14. CloseInv /\ NotCutShort /\ KeptOpen BY <1>2 DEF CloseInv, NotCutShort, KeptOpen
<1> QED BY <1>3, <1>5, <1>6, <1>10, <1>11, <1>12, <1>13, <1>14 DEF IInv

\* Every step keeps the inductive invariant.
LEMMA NextInv == IInv /\ [Next]_vars => IInv'
<1> SUFFICES ASSUME IInv, [Next]_vars PROVE IInv' OBVIOUS
<1> USE DEF IInv
<1>1. CASE Next
  <2>1. TypeOK' BY <1>1, TypeStep
  <2>2. /\ InputIntact' /\ ScanInv' /\ HeadInv'
        /\ ~WellFormed(Arrived) => ~WellFormed(Arrived')
    BY <1>1, InputStep
  <2>3. ControlInv' BY <1>1, ControlStep
  <2>4. OutputIntact' BY <1>1, OutputStep
  <2>5. AnswerInv' BY <1>1, <2>1, <2>2, AnswerStep
  <2>6. NoRequest \/ BadLine \/ parseRequest \/ parseHeader \/ parseContent \/ AfterSuccess
            => Arrived' = Arrived
    BY StayStep, TakeStep
  <2>7. CloseInv' /\ NotCutShort' /\ KeptOpen' BY <1>1, <2>2, <2>6, CloseStep
  <2> QED BY <2>1, <2>2, <2>3, <2>4, <2>5, <2>7
<1>2. CASE UNCHANGED vars
  <2>1. UNCHANGED parser /\ UNCHANGED <<peerVars, output, life, tasks, resp, ready, pc>>
    BY <1>2 DEF vars, parser
  <2>2. TypeOK' BY <1>2 DEF TypeOK, vars
  <2>3. InputIntact' /\ ScanInv' /\ HeadInv' BY <2>1, ParserUntouched
  <2>4. Pending' = Pending BY <2>1 DEF Pending
  <2>5. OutputIntact' BY <2>1, <2>4 DEF OutputIntact
  <2>6. Readable' = Readable BY <1>2 DEF vars, Readable
  <2>7. ControlInv' BY <2>1, <2>4, <2>6 DEF ControlInv
  <2>8. AnswerInv' BY <2>1, AnswerUntouched
  <2>9. UNCHANGED <<stream, received, mReadBuffer, mWriteBuffer, file, answers, mAlive, state,
                    fin, reset, queue, batch>>
    BY <2>1 DEF parser
  <2>10. CloseInv' /\ NotCutShort' /\ KeptOpen' BY <2>9, CloseUntouched
  <2> QED BY <2>2, <2>3, <2>5, <2>7, <2>8, <2>10
<1> QED BY <1>1, <1>2

\* The inductive invariant: where the loop can be, what the parser has made of
\* the bytes it took, what was answered, and who may close the connection.
THEOREM InductiveInv == Spec => []IInv
<1>1. Init => IInv BY InitInv
<1>2. IInv /\ [Next]_vars => IInv' BY NextInv
<1> QED BY <1>1, <1>2, PTL DEF Spec

\* The buffers stay in their bounds, the parser's index in the buffer, and
\* every variable in its type, in every state of a connection.
THEOREM TypeCorrect == Spec => []TypeOK
<1>1. IInv => TypeOK BY DEF IInv
<1> QED BY <1>1, InductiveInv, PTL

\* The read buffer holds what arrived and was not taken off, each byte once
\* and in order, through every read, every line and every move of its content.
THEOREM InputStaysIntact == Spec => []InputIntact
<1>1. IInv => InputIntact BY DEF IInv
<1> QED BY <1>1, InductiveInv, PTL

\* Through partial writes, EAGAIN and the change from the buffer to the file,
\* the peer gets what was to be sent, in order and once.
THEOREM OutputStaysIntact == Spec => []OutputIntact
<1>1. IInv => OutputIntact BY DEF IInv
<1> QED BY <1>1, InductiveInv, PTL

\* Only the 400 for wrong bytes behind the first answer can be cut short, and
\* the server itself closes only a connection that is not to be kept, or one
\* whose full buffer it waits to understand (HttpServer.cpp:65-75).
THEOREM ClosesInTime == Spec => []ClosedInTime
<1>1. IInv => ClosedInTime BY DEF IInv, ClosedInTime
<1> QED BY <1>1, InductiveInv, PTL

\* What was taken off the buffer is a prefix of what arrived.
LEMMA TakenOfArrived ==
    ASSUME TypeOK
    PROVE SubSeq(Arrived, 1, consumed) = Taken
<1>1. stream \in Seq(Cell) /\ received \in 0 .. Len(stream) /\ consumed \in 0 .. received
  BY StreamCells
<1>2. SubSeq(SubSeq(stream, 1, received), 1, consumed) = SubSeq(stream, 1, consumed)
  BY <1>1, PrefixOfPrefix
<1> QED BY <1>2 DEF Arrived, Taken

\* A head that the parser has taken off whole is the head of what arrived.
LEMMA HeadOfArrived ==
    ASSUME TypeOK, HeadInv, mCheckState \in {"BODY", "SUCCESS"}
    PROVE /\ HeadEnd(Arrived) = consumed /\ consumed # 0
          /\ KeptAlive(Arrived) = KeptAlive(Taken) /\ BodyLength(Arrived) = contentLength
<1>1. /\ stream \in Seq(Cell) /\ received \in 0 .. Len(stream) /\ consumed \in 0 .. received
      /\ Arrived = Prefix(stream, received) /\ Taken = Prefix(stream, consumed)
  BY StreamCells
<1>2. HeadEnd(Taken) = consumed /\ consumed # 0 /\ contentLength = BodyLength(Taken)
  BY DEF HeadInv
<1>3. /\ HeadEnd(Prefix(stream, received)) = HeadEnd(Prefix(stream, consumed))
      /\ KeptAlive(Prefix(stream, received)) = KeptAlive(Prefix(stream, consumed))
      /\ BodyLength(Prefix(stream, received)) = BodyLength(Prefix(stream, consumed))
  BY <1>1, <1>2, HeadersKept
<1> QED BY <1>1, <1>2, <1>3

\* However the stream was cut into reads, what the parser has made of it when
\* the loop waits again is what the flat definition of a request says.
THEOREM ParserIsRight == Spec => []ParserAgrees
<1>1. IInv => ParserAgrees
  <2> SUFFICES ASSUME IInv, pc = "poll", state = "CONNECTED", answers = <<>>
               PROVE /\ WellFormed(SubSeq(Arrived, 1, consumed))
                     /\ consumed = IF HeadEnd(Arrived) # 0 THEN HeadEnd(Arrived)
                                                           ELSE Max(LineEnds(Arrived) \cup {0})
                     /\ contentLength = BodyLength(Arrived)
                     /\ reqAlive = KeptAlive(Arrived)
                     /\ mCheckState = IF LineEnds(Arrived) = {} THEN "REQUEST"
                                      ELSE IF HeadEnd(Arrived) = 0 THEN "HEADER" ELSE "BODY"
    BY DEF ParserAgrees
  <2>1. TypeOK /\ HeadInv /\ AnswerInv BY DEF IInv
  <2>2. /\ stream \in Seq(Cell) /\ received \in 0 .. Len(stream) /\ consumed \in 0 .. received
        /\ Arrived = Prefix(stream, received) /\ Taken = Prefix(stream, consumed)
        /\ consumed \in Nat /\ received \in Nat
    BY <2>1, StreamCells
  <2>3. mCheckState \in {"REQUEST", "HEADER", "BODY"} BY <2>1 DEF AnswerInv, TypeOK
  <2>4. WellFormed(SubSeq(Arrived, 1, consumed)) BY <2>1, TakenOfArrived DEF HeadInv
  <2>5. CASE mCheckState = "BODY"
    <3>1. /\ HeadEnd(Arrived) = consumed /\ consumed # 0
          /\ KeptAlive(Arrived) = KeptAlive(Taken) /\ BodyLength(Arrived) = contentLength
      BY <2>1, <2>5, HeadOfArrived
    <3>2. consumed \in LineEnds(Arrived) BY <2>1, <3>1 DEF HeadInv
    <3> QED BY <2>1, <2>4, <2>5, <3>1, <3>2 DEF HeadInv
  <2>6. CASE mCheckState # "BODY"
    <3>1. LineEnds(Arrived) \subseteq 1 .. consumed BY <2>1, <2>6 DEF AnswerInv
    <3>2. LineEnds(Arrived) = Ends(stream, received) BY <2>2, TextOfPrefix
    <3>3. Ends(stream, received) = Ends(stream, consumed)
      <4>1. ASSUME NEW e \in Ends(stream, received) PROVE e \in Ends(stream, consumed)
        <5>1. e \in 2 .. received /\ stream[e - 1] = "cr" /\ stream[e] = "lf" BY DEF Ends
        <5>2. e \in 1 .. consumed BY <3>1, <3>2
        <5>3. e \in 2 .. consumed BY <2>2, <5>1, <5>2
        <5> QED BY <5>1, <5>3 DEF Ends
      <4>2. Ends(stream, consumed) \subseteq Ends(stream, received) BY <2>2 DEF Ends
      <4> QED BY <4>1, <4>2
    <3>4. /\ HeadEnd(Arrived) = HeadEnd(Taken) /\ KeptAlive(Arrived) = KeptAlive(Taken)
          /\ BodyLength(Arrived) = BodyLength(Taken)
      BY <2>2, <3>3, HeadersKept
    <3>5. HeadEnd(Taken) = 0 BY <2>1, <2>3, <2>6 DEF HeadInv
    <3>6. consumed # 0 => consumed \in LineEnds(Arrived) BY <2>1 DEF HeadInv
    <3>7. consumed = Max(LineEnds(Arrived) \cup {0})
      <4> DEFINE S == LineEnds(Arrived) \cup {0}
      <4>1. S \in SUBSET (0 .. consumed) /\ consumed \in S BY <2>2, <3>1, <3>6
      <4> HIDE DEF S
      <4>2. Max(S) \in S /\ consumed <= Max(S) BY <2>2, <4>1, GreatestOfSet
      <4>3. Max(S) \in 0 .. consumed BY <4>1, <4>2
      <4>4. Max(S) = consumed BY <2>2, <4>2, <4>3
      <4> QED BY <4>4 DEF S
    <3>8. LineEnds(Arrived) = {} <=> consumed = 0 BY <2>2, <3>1, <3>6
    <3>9. mCheckState = "REQUEST" <=> consumed = 0 BY <2>1 DEF HeadInv
    <3>10. contentLength = BodyLength(Arrived) /\ reqAlive = KeptAlive(Arrived)
      BY <2>1, <3>4 DEF HeadInv
    <3> QED BY <2>3, <2>4, <2>6, <3>4, <3>5, <3>7, <3>8, <3>9, <3>10
  <2> QED BY <2>5, <2>6
<1> QED BY <1>1, InductiveInv, PTL

\* No 200 before the whole request is there; a 400 only to wrong bytes, or to a
\* complete request whose reply opened a file, where openFile has set it; and
\* only a right head with a negative length ends the process.
THEOREM AnswersAreDue == Spec => []AnswerIsDue
<1>1. IInv => AnswerIsDue
  <2> SUFFICES ASSUME IInv PROVE AnswerIsDue OBVIOUS
  <2>1. TypeOK /\ HeadInv /\ AnswerInv BY DEF IInv
  <2>2. ASSUME mCheckState = "SUCCESS" PROVE Complete(Arrived)
    <3>1. HeadEnd(Arrived) = consumed /\ consumed # 0 /\ BodyLength(Arrived) = contentLength
      BY <2>1, <2>2, HeadOfArrived
    <3>2. WellFormed(SubSeq(Arrived, 1, consumed)) BY <2>1, TakenOfArrived DEF HeadInv
    <3>3. Len(Arrived) = received
      <4>1. stream \in Seq(Cell) /\ received \in 0 .. Len(stream) /\ Arrived = Prefix(stream, received)
        BY <2>1, StreamCells
      <4> QED BY <4>1, PrefixCells
    <3>4. contentLength \in 0 .. received - consumed BY <2>1, <2>2 DEF HeadInv
    <3> QED BY <3>1, <3>2, <3>3, <3>4 DEF Complete
  <2>3. ASSUME pc = "terminated"
        PROVE HeadEnd(Arrived) # 0 /\ WellFormed(Taken) /\ BodyLength(Arrived) < 0
    <3>1. mCheckState = "BODY" /\ contentLength < 0 BY <2>1, <2>3 DEF AnswerInv
    <3>2. HeadEnd(Arrived) = consumed /\ consumed # 0 /\ BodyLength(Arrived) = contentLength
      BY <2>1, <3>1, HeadOfArrived
    <3> QED BY <2>1, <3>1, <3>2 DEF HeadInv
  <2> QED BY <2>1, <2>2, <2>3 DEF AnswerInv, AnswerIsDue
<1> QED BY <1>1, InductiveInv, PTL
=============================================================================
