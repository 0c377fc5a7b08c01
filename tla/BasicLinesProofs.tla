-------------------------- MODULE BasicLinesProofs --------------------------
(***************************************************************************)
(* The line editor of BASIC, for any line numbers, any texts and any size of   *)
(* the array: the sorted array with its moving elements is a table of texts.  *)
(***************************************************************************)
EXTENDS BasicLines, SequenceTheorems, FunctionTheorems, FiniteSetTheorems, TLAPS

Entries == [num : Numbers, text : Texts]
Sorted(c) == c \in Seq(Entries) /\ \A i, j \in 1 .. Len(c) : i < j => c[i].num < c[j].num

(* The inductive invariant: no number comes twice, and they are in order.  The *)
(* editor finds a line, and the place for a new one, only because of that.    *)
IInv == Sorted(lines) /\ Len(lines) <= MAXLINES

(* What TextOf and the table read from an array c, and its first k numbers. *)
TextIn(c, n) == LET at == {i \in DOMAIN c : c[i].num = n}
                IN  IF at = {} THEN "none" ELSE c[Max(at)].text
TableOf(c) == [n \in Numbers |-> TextIn(c, n)]
NumsOf(c, k) == {c[i].num : i \in 1 .. k}
UsedIn(c) == {n \in Numbers : TextIn(c, n) # "none"}

-----------------------------------------------------------------------------
(* Sorted arrays *)

LEMMA SortedTypes ==
  ASSUME ConstantsOK, NEW c, Sorted(c)
  PROVE  /\ Len(c) \in Nat /\ DOMAIN c = 1 .. Len(c)
         /\ \A i \in 1 .. Len(c) : c[i] \in Entries /\ c[i].num \in Numbers /\ c[i].num \in Nat /\ c[i].text \in Texts
<1>1. Len(c) \in Nat /\ DOMAIN c = 1 .. Len(c) /\ \A i \in 1 .. Len(c) : c[i] \in Entries
  BY DEF Sorted
<1>2. QED  BY <1>1 DEF Entries, ConstantsOK

LEMMA OneLine ==
  ASSUME ConstantsOK, NEW c, Sorted(c), NEW i \in 1 .. Len(c), NEW j \in 1 .. Len(c), c[i].num = c[j].num
  PROVE  i = j
<1>1. c[i].num \in Nat /\ c[j].num \in Nat /\ i \in Int /\ j \in Int
  BY SortedTypes
<1>2. QED  BY <1>1 DEF Sorted

(* What is read of a number is the text of its only line. *)
LEMMA TextRead ==
  ASSUME ConstantsOK, NEW c, Sorted(c), NEW i \in 1 .. Len(c)
  PROVE  TextIn(c, c[i].num) = c[i].text
<1>1. {j \in DOMAIN c : c[j].num = c[i].num} = {i}
  BY SortedTypes, OneLine
<1>2. i \in Int /\ \A x \in {i} : x >= i
  BY SortedTypes
<1>3. Max({i}) = i
  BY <1>2 DEF Max
<1>4. QED  BY <1>1, <1>3 DEF TextIn

LEMMA NoText ==
  ASSUME NEW c \in Seq(Entries), NEW n, \A i \in 1 .. Len(c) : c[i].num # n
  PROVE  TextIn(c, n) = "none"
<1>1. {i \in DOMAIN c : c[i].num = n} = {}
  OBVIOUS
<1>2. QED  BY <1>1 DEF TextIn

(* The numbers in use are those of the lines, and there are as many. *)
LEMMA UsedNums ==
  ASSUME ConstantsOK, NEW c, Sorted(c)
  PROVE  UsedIn(c) = NumsOf(c, Len(c))
<1>1. ASSUME NEW n \in UsedIn(c) PROVE n \in NumsOf(c, Len(c))
  <2>1. c \in Seq(Entries) /\ TextIn(c, n) # "none"
    BY <1>1 DEF UsedIn, Sorted
  <2>2. \E i \in 1 .. Len(c) : c[i].num = n
    BY <2>1, NoText
  <2>3. QED  BY <2>2 DEF NumsOf
<1>2. ASSUME NEW n \in NumsOf(c, Len(c)) PROVE n \in UsedIn(c)
  <2>1. PICK i \in 1 .. Len(c) : n = c[i].num
    BY <1>2 DEF NumsOf
  <2>2. c[i].num \in Numbers /\ c[i].text \in Texts /\ TextIn(c, n) = c[i].text
    BY <2>1, SortedTypes, TextRead
  <2>3. QED  BY <2>1, <2>2 DEF UsedIn, ConstantsOK
<1>3. QED  BY <1>1, <1>2

LEMMA CountNums ==
  ASSUME ConstantsOK, NEW c, Sorted(c), NEW k \in 0 .. Len(c)
  PROVE  Cardinality(NumsOf(c, k)) = k
<1> DEFINE f == [i \in 1 .. k |-> c[i].num]
<1>1. k \in Nat /\ 1 .. k \subseteq 1 .. Len(c)
  BY SortedTypes
<1>2. f \in [1 .. k -> NumsOf(c, k)]
  BY DEF NumsOf
<1>3. ASSUME NEW i \in 1 .. k, NEW j \in 1 .. k, f[i] = f[j] PROVE i = j
  <2>1. i \in 1 .. Len(c) /\ j \in 1 .. Len(c) /\ c[i].num = c[j].num
    BY <1>1, <1>3
  <2>2. QED  BY <2>1, OneLine
<1>4. \A n \in NumsOf(c, k) : \E i \in 1 .. k : f[i] = n
  BY DEF NumsOf
<1> HIDE DEF f
<1>5. f \in Bijection(1 .. k, NumsOf(c, k))
  BY <1>2, <1>3, <1>4, Fun_IsBij
<1>6. ExistsBijection(1 .. k, NumsOf(c, k))
  BY <1>5 DEF ExistsBijection
<1>7. IsFiniteSet(1 .. k) /\ Cardinality(1 .. k) = k
  BY <1>1, FS_Interval
<1>8. QED  BY <1>6, <1>7, FS_Bijection

(* Of a sorted array the numbers below that of an element are those before it. *)
LEMMA NumsBelow ==
  ASSUME ConstantsOK, NEW c, Sorted(c), NEW i \in 1 .. Len(c)
  PROVE  {m \in NumsOf(c, Len(c)) : m < c[i].num} = NumsOf(c, i - 1)
<1>1. \A j \in 1 .. Len(c) : c[j].num < c[i].num <=> j < i
  <2> SUFFICES ASSUME NEW j \in 1 .. Len(c) PROVE c[j].num < c[i].num <=> j < i
    OBVIOUS
  <2>1. c[i].num \in Nat /\ c[j].num \in Nat /\ i \in Int /\ j \in Int
    BY SortedTypes
  <2>2. j < i => c[j].num < c[i].num
    BY DEF Sorted
  <2>3. i < j => c[i].num < c[j].num
    BY DEF Sorted
  <2>4. QED  BY <2>1, <2>2, <2>3
<1>2. \A j : j \in 1 .. i - 1 <=> j \in 1 .. Len(c) /\ j < i
  BY SortedTypes
<1>3. QED  BY <1>1, <1>2 DEF NumsOf

(* A set of positions that holds every position before one of its own is an    *)
(* initial segment, as long as it has elements.                              *)
LEMMA Segment ==
  ASSUME NEW L \in Nat, NEW S \in SUBSET (1 .. L), \A j \in S : 1 .. j \subseteq S
  PROVE  Cardinality(S) \in 0 .. L /\ S = 1 .. Cardinality(S)
<1> DEFINE k == Cardinality(S)
<1>1. IsFiniteSet(1 .. L) /\ Cardinality(1 .. L) = L
  BY FS_Interval
<1>2. IsFiniteSet(S) /\ k <= L /\ k \in Nat
  BY <1>1, FS_Subset, FS_CardinalityType
<1>3. ASSUME NEW j \in S PROVE j \in 1 .. k
  <2>1. j \in Nat /\ j >= 1 /\ 1 .. j \in SUBSET S
    BY <1>3
  <2>2. Cardinality(1 .. j) = j
    BY <2>1, FS_Interval
  <2>3. j <= k
    BY <1>2, <2>1, <2>2, FS_Subset
  <2>4. QED  BY <1>2, <2>1, <2>3
<1>4. S \in SUBSET (1 .. k)
  BY <1>3
<1>5. IsFiniteSet(1 .. k) /\ Cardinality(1 .. k) = k
  BY <1>2, FS_Interval
<1> HIDE DEF k
<1>6. S = 1 .. k
  BY <1>4, <1>5, FS_Subset DEF k
<1>7. QED  BY <1>2, <1>6 DEF k

(* The insertion point parts the smaller numbers from the others. *)
PointIn(c, n) == Cardinality({i \in DOMAIN c : c[i].num < n}) + 1

LEMMA PointParts ==
  ASSUME ConstantsOK, NEW c, Sorted(c), NEW n \in Numbers
  PROVE  /\ PointIn(c, n) \in 1 .. Len(c) + 1
         /\ \A i \in 1 .. Len(c) : c[i].num < n <=> i < PointIn(c, n)
<1> DEFINE S == {i \in DOMAIN c : c[i].num < n}
<1>1. Len(c) \in Nat /\ DOMAIN c = 1 .. Len(c) /\ n \in Nat
  BY SortedTypes DEF ConstantsOK
<1>2. S \in SUBSET (1 .. Len(c))
  BY <1>1
<1>3. ASSUME NEW j \in S, NEW i \in 1 .. j PROVE i \in S
  <2>1. j \in 1 .. Len(c) /\ i \in 1 .. Len(c) /\ c[j].num < n
    BY <1>1, <1>3
  <2>2. c[i].num \in Nat /\ c[j].num \in Nat
    BY <2>1, SortedTypes
  <2>3. i = j \/ i < j
    BY <2>1
  <2>4. c[i].num <= c[j].num
    BY <2>1, <2>2, <2>3 DEF Sorted
  <2>5. QED  BY <1>1, <2>1, <2>2, <2>4
<1>4. \A j \in S : 1 .. j \subseteq S
  BY <1>3
<1> HIDE DEF S
<1>5. Cardinality(S) \in 0 .. Len(c) /\ S = 1 .. Cardinality(S)
  BY <1>1, <1>2, <1>4, Segment
<1>6. PointIn(c, n) = Cardinality(S) + 1
  BY DEF PointIn, S
<1>7. \A i \in 1 .. Len(c) : c[i].num < n <=> i \in S
  BY <1>1 DEF S
<1>8. QED  BY <1>1, <1>5, <1>6, <1>7
-----------------------------------------------------------------------------
(* What moving the elements does to the table *)

Line(c, n, t) == \E i \in 1 .. Len(c) : c[i].num = n /\ c[i].text = t

LEMMA LineRead ==
  ASSUME ConstantsOK, NEW c, Sorted(c), NEW n, NEW t, Line(c, n, t)
  PROVE  TextIn(c, n) = t
  BY TextRead DEF Line

LEMMA TextsAgree ==
  ASSUME ConstantsOK, NEW c, Sorted(c), NEW d, Sorted(d), NEW n, \A t : Line(c, n, t) <=> Line(d, n, t)
  PROVE  TextIn(c, n) = TextIn(d, n)
<1>1. CASE \E t : Line(c, n, t)
  BY <1>1, LineRead
<1>2. CASE \A t : ~Line(c, n, t)
  <2>1. (\A i \in 1 .. Len(c) : c[i].num # n) /\ (\A i \in 1 .. Len(d) : d[i].num # n)
    BY <1>2 DEF Line
  <2>2. QED  BY <2>1, NoText DEF Sorted
<1>3. QED  BY <1>1, <1>2

(* A line is stored: it is there, and the other numbers have the lines they had. *)
LEMMA Stored ==
  ASSUME ConstantsOK, NEW c, Sorted(c), NEW d, Sorted(d), NEW n \in Numbers, NEW t,
         Line(d, n, t), \A m, u : m # n => (Line(c, m, u) <=> Line(d, m, u))
  PROVE  TableOf(d) = [TableOf(c) EXCEPT ![n] = t]
<1>1. TextIn(d, n) = t
  BY LineRead
<1>2. ASSUME NEW m \in Numbers, m # n PROVE TextIn(d, m) = TextIn(c, m)
  BY <1>2, TextsAgree
<1>3. QED  BY <1>1, <1>2 DEF TableOf

LEMMA Deleted ==
  ASSUME ConstantsOK, NEW c, Sorted(c), NEW d, Sorted(d), NEW n \in Numbers,
         \A i \in 1 .. Len(d) : d[i].num # n, \A m, u : m # n => (Line(c, m, u) <=> Line(d, m, u))
  PROVE  TableOf(d) = [TableOf(c) EXCEPT ![n] = "none"]
<1>1. TextIn(d, n) = "none"
  BY NoText DEF Sorted
<1>2. ASSUME NEW m \in Numbers, m # n PROVE TextIn(d, m) = TextIn(c, m)
  BY <1>2, TextsAgree
<1>3. QED  BY <1>1, <1>2 DEF TableOf

(* The element of position i moves to i + 1 if it is at or behind p. *)
LEMMA Inserted ==
  ASSUME NEW c \in Seq(Entries), NEW p \in 1 .. Len(c) + 1, NEW e \in Entries
  PROVE  /\ InsertAt(c, p, e) \in Seq(Entries) /\ Len(InsertAt(c, p, e)) = Len(c) + 1
         /\ \A i \in 1 .. Len(c) + 1 :
              InsertAt(c, p, e)[i] = IF i < p THEN c[i] ELSE IF i = p THEN e ELSE c[i - 1]
<1> DEFINE a == SubSeq(c, 1, p - 1)
           b == SubSeq(c, p, Len(c))
<1>1. Len(c) \in Nat /\ p \in Int /\ p - 1 \in Int /\ 1 \in Int
  OBVIOUS
<1>2. a \in Seq(Entries) /\ Len(a) = p - 1 /\ \A i \in 1 .. p - 1 : a[i] = c[i]
  <2>1. \A i \in 1 .. p - 1 : c[i] \in Entries
    BY <1>1
  <2>2. /\ a \in Seq(Entries) /\ Len(a) = IF 1 <= p - 1 THEN p - 1 - 1 + 1 ELSE 0
        /\ \A i \in 1 .. p - 1 - 1 + 1 : a[i] = c[1 + i - 1]
    BY <1>1, <2>1, SubSeqProperties
  <2>3. QED  BY <1>1, <2>2
<1>3. b \in Seq(Entries) /\ Len(b) = Len(c) - p + 1 /\ \A i \in 1 .. Len(c) - p + 1 : b[i] = c[p + i - 1]
  <2>1. \A i \in p .. Len(c) : c[i] \in Entries
    BY <1>1
  <2>2. /\ b \in Seq(Entries) /\ Len(b) = IF p <= Len(c) THEN Len(c) - p + 1 ELSE 0
        /\ \A i \in 1 .. Len(c) - p + 1 : b[i] = c[p + i - 1]
    BY <1>1, <2>1, SubSeqProperties
  <2>3. QED  BY <1>1, <2>2
<1>4. <<e>> \in Seq(Entries) /\ Len(<<e>>) = 1 /\ <<e>>[1] = e
  OBVIOUS
<1> DEFINE x == a \o <<e>>
<1> HIDE DEF a, b
<1>5. /\ x \in Seq(Entries) /\ Len(x) = p
      /\ \A i \in 1 .. p : x[i] = IF i <= p - 1 THEN c[i] ELSE e
  <2>1. /\ x \in Seq(Entries) /\ Len(x) = Len(a) + 1
        /\ \A i \in 1 .. Len(a) + 1 : x[i] = IF i <= Len(a) THEN a[i] ELSE <<e>>[i - Len(a)]
    BY <1>2, <1>4, ConcatProperties
  <2>2. QED  BY <1>1, <1>2, <1>4, <2>1
<1> HIDE DEF x
<1>6. /\ x \o b \in Seq(Entries) /\ Len(x \o b) = Len(x) + Len(b)
      /\ \A i \in 1 .. Len(x) + Len(b) : (x \o b)[i] = IF i <= Len(x) THEN x[i] ELSE b[i - Len(x)]
  BY <1>3, <1>5, ConcatProperties
<1>7. Len(x) + Len(b) = Len(c) + 1
  BY <1>1, <1>3, <1>5
<1>8. ASSUME NEW i \in 1 .. Len(c) + 1
      PROVE  (x \o b)[i] = IF i < p THEN c[i] ELSE IF i = p THEN e ELSE c[i - 1]
  <2>1. CASE i <= p
    BY <1>1, <1>5, <1>6, <1>7, <2>1
  <2>2. CASE i > p
    <3>1. (x \o b)[i] = b[i - p] /\ i - p \in 1 .. Len(c) - p + 1
      BY <1>1, <1>5, <1>6, <1>7, <2>2
    <3>2. \A k \in 1 .. Len(c) - p + 1 : k = i - p => b[k] = c[i - 1]
      BY <1>1, <1>3
    <3>3. b[i - p] = c[i - 1]
      BY <3>1, <3>2
    <3>4. ~(i < p) /\ i # p
      BY <1>1, <2>2
    <3>5. QED  BY <3>1, <3>3, <3>4
  <2>3. i <= p \/ i > p
    BY <1>1
  <2>4. QED  BY <2>1, <2>2, <2>3
<1>9. InsertAt(c, p, e) = x \o b
  BY DEF InsertAt, x, a, b
<1>10. QED  BY <1>6, <1>7, <1>8, <1>9

(* The element of position i moves to i - 1 if it is behind p. *)
LEMMA Removed ==
  ASSUME NEW c \in Seq(Entries), NEW p \in 1 .. Len(c)
  PROVE  /\ RemoveAt(c, p) \in Seq(Entries) /\ Len(RemoveAt(c, p)) = Len(c) - 1
         /\ \A i \in 1 .. Len(c) - 1 : RemoveAt(c, p)[i] = IF i < p THEN c[i] ELSE c[i + 1]
<1> DEFINE a == SubSeq(c, 1, p - 1)
           b == SubSeq(c, p + 1, Len(c))
<1>1. Len(c) \in Nat /\ p \in Int /\ p - 1 \in Int /\ p + 1 \in Int /\ 1 \in Int
  OBVIOUS
<1>2. a \in Seq(Entries) /\ Len(a) = p - 1 /\ \A i \in 1 .. p - 1 : a[i] = c[i]
  <2>1. \A i \in 1 .. p - 1 : c[i] \in Entries
    BY <1>1
  <2>2. /\ a \in Seq(Entries) /\ Len(a) = IF 1 <= p - 1 THEN p - 1 - 1 + 1 ELSE 0
        /\ \A i \in 1 .. p - 1 - 1 + 1 : a[i] = c[1 + i - 1]
    BY <1>1, <2>1, SubSeqProperties
  <2>3. QED  BY <1>1, <2>2
<1>3. b \in Seq(Entries) /\ Len(b) = Len(c) - p /\ \A i \in 1 .. Len(c) - p : b[i] = c[p + i]
  <2>1. \A i \in p + 1 .. Len(c) : c[i] \in Entries
    BY <1>1
  <2>2. /\ b \in Seq(Entries) /\ Len(b) = IF p + 1 <= Len(c) THEN Len(c) - (p + 1) + 1 ELSE 0
        /\ \A i \in 1 .. Len(c) - (p + 1) + 1 : b[i] = c[p + 1 + i - 1]
    BY <1>1, <2>1, SubSeqProperties
  <2>3. QED  BY <1>1, <2>2
<1> HIDE DEF a, b
<1>4. /\ a \o b \in Seq(Entries) /\ Len(a \o b) = Len(a) + Len(b)
      /\ \A i \in 1 .. Len(a) + Len(b) : (a \o b)[i] = IF i <= Len(a) THEN a[i] ELSE b[i - Len(a)]
  BY <1>2, <1>3, ConcatProperties
<1>5. Len(a) + Len(b) = Len(c) - 1
  BY <1>1, <1>2, <1>3
<1>6. ASSUME NEW i \in 1 .. Len(c) - 1 PROVE (a \o b)[i] = IF i < p THEN c[i] ELSE c[i + 1]
  <2>1. CASE i < p
    BY <1>1, <1>2, <1>4, <1>5, <2>1
  <2>2. CASE i >= p
    <3>1. (a \o b)[i] = b[i - (p - 1)] /\ i - (p - 1) \in 1 .. Len(c) - p
      BY <1>1, <1>2, <1>4, <1>5, <2>2
    <3>2. \A k \in 1 .. Len(c) - p : k = i - (p - 1) => b[k] = c[i + 1]
      BY <1>1, <1>3
    <3>3. b[i - (p - 1)] = c[i + 1]
      BY <3>1, <3>2
    <3>4. ~(i < p)
      BY <1>1, <2>2
    <3>5. QED  BY <3>1, <3>3, <3>4
  <2>3. i < p \/ i >= p
    BY <1>1
  <2>4. QED  BY <2>1, <2>2, <2>3
<1>7. RemoveAt(c, p) = a \o b
  BY DEF RemoveAt, a, b
<1>8. QED  BY <1>4, <1>5, <1>6, <1>7
(* A new line goes between the smaller numbers and the greater. *)
LEMMA InsertStores ==
  ASSUME ConstantsOK, NEW c, Sorted(c), NEW n \in Numbers, NEW t \in Texts, \A i \in 1 .. Len(c) : c[i].num # n
  PROVE  LET d == InsertAt(c, PointIn(c, n), [num |-> n, text |-> t])
         IN  Sorted(d) /\ Len(d) = Len(c) + 1 /\ TableOf(d) = [TableOf(c) EXCEPT ![n] = t]
<1> DEFINE p == PointIn(c, n)
           e == [num |-> n, text |-> t]
           d == InsertAt(c, p, e)
<1>1. /\ Len(c) \in Nat /\ n \in Nat /\ c \in Seq(Entries)
      /\ \A i \in 1 .. Len(c) : c[i].num \in Nat
  BY SortedTypes DEF Sorted, ConstantsOK
<1>2. e \in Entries /\ e.num = n /\ e.text = t
  BY DEF Entries
<1>3. p \in 1 .. Len(c) + 1 /\ \A i \in 1 .. Len(c) : c[i].num < n <=> i < p
  BY PointParts
<1> HIDE DEF p, e
<1>4. /\ d \in Seq(Entries) /\ Len(d) = Len(c) + 1
      /\ \A i \in 1 .. Len(c) + 1 : d[i] = IF i < p THEN c[i] ELSE IF i = p THEN e ELSE c[i - 1]
  BY <1>1, <1>2, <1>3, Inserted
<1> HIDE DEF d
<1>5. \A i \in 1 .. Len(c) : i < p => d[i] = c[i]
  BY <1>1, <1>3, <1>4
<1>6. d[p] = e
  BY <1>1, <1>3, <1>4
<1>7. \A i \in 1 .. Len(c) : p <= i => d[i + 1] = c[i] /\ i + 1 \in 1 .. Len(d)
  <2> SUFFICES ASSUME NEW i \in 1 .. Len(c), p <= i PROVE d[i + 1] = c[i] /\ i + 1 \in 1 .. Len(d)
    OBVIOUS
  <2>1. i + 1 \in 1 .. Len(c) + 1 /\ ~(i + 1 < p) /\ i + 1 # p /\ (i + 1) - 1 = i
    BY <1>1, <1>3
  <2>2. QED  BY <1>4, <2>1
<1>8. \A j \in 1 .. Len(d) : \/ j < p /\ j \in 1 .. Len(c) /\ d[j] = c[j] /\ c[j].num < n
                             \/ j = p /\ d[j] = e
                             \/ p < j /\ j - 1 \in 1 .. Len(c) /\ d[j] = c[j - 1] /\ n < c[j - 1].num
  <2> SUFFICES ASSUME NEW j \in 1 .. Len(c) + 1
               PROVE  \/ j < p /\ j \in 1 .. Len(c) /\ d[j] = c[j] /\ c[j].num < n
                      \/ j = p /\ d[j] = e
                      \/ p < j /\ j - 1 \in 1 .. Len(c) /\ d[j] = c[j - 1] /\ n < c[j - 1].num
    BY <1>4
  <2>1. CASE j < p
    <3>1. j \in 1 .. Len(c)
      BY <1>1, <1>3, <2>1
    <3>2. QED  BY <1>3, <1>5, <2>1, <3>1
  <2>2. CASE j = p
    BY <1>6, <2>2
  <2>3. CASE p < j
    <3>1. j - 1 \in 1 .. Len(c) /\ ~(j - 1 < p) /\ ~(j < p) /\ j # p
      BY <1>1, <1>3, <2>3
    <3>2. d[j] = c[j - 1]
      BY <1>4, <3>1
    <3>3. ~(c[j - 1].num < n) /\ c[j - 1].num # n /\ c[j - 1].num \in Nat
      BY <1>1, <1>3, <3>1
    <3>4. QED  BY <1>1, <2>3, <3>1, <3>2, <3>3
  <2>4. QED  BY <1>1, <1>3, <2>1, <2>2, <2>3
<1>9. Sorted(d)
  <2> SUFFICES ASSUME NEW i \in 1 .. Len(d), NEW j \in 1 .. Len(d), i < j PROVE d[i].num < d[j].num
    BY <1>4 DEF Sorted
  <2>1. i \in Int /\ j \in Int /\ p \in Int
    BY <1>1, <1>3, <1>4
  <2>2. CASE j < p
    <3>1. i < p /\ ~(p < i) /\ i # p /\ ~(p < j) /\ j # p
      BY <2>1, <2>2
    <3>2. i \in 1 .. Len(c) /\ j \in 1 .. Len(c) /\ d[i] = c[i] /\ d[j] = c[j]
      BY <1>8, <3>1
    <3>3. QED  BY <3>2 DEF Sorted
  <2>3. CASE p < i
    <3>1. p < j /\ ~(i < p) /\ i # p /\ ~(j < p) /\ j # p /\ i - 1 < j - 1
      BY <2>1, <2>3
    <3>2. i - 1 \in 1 .. Len(c) /\ j - 1 \in 1 .. Len(c) /\ d[i] = c[i - 1] /\ d[j] = c[j - 1]
      BY <1>8, <3>1
    <3>3. QED  BY <3>1, <3>2 DEF Sorted
  <2>4. CASE ~(j < p) /\ ~(p < i)
    <3>1. /\ d[i].num = n \/ (d[i].num < n /\ d[i].num \in Nat)
          /\ d[j].num = n \/ (n < d[j].num /\ d[j].num \in Nat)
      BY <1>1, <1>2, <1>8, <2>4
    <3>2. i # p \/ j # p
      BY <2>1
    <3>3. d[i].num < n \/ n < d[j].num
      BY <1>8, <2>4, <3>2
    <3>4. QED  BY <1>1, <3>1, <3>3
  <2>5. QED  BY <2>2, <2>3, <2>4
<1>10. Line(d, n, t)
  BY <1>2, <1>3, <1>4, <1>6 DEF Line
<1>11. ASSUME NEW m, NEW u, m # n PROVE Line(c, m, u) <=> Line(d, m, u)
  <2>1. ASSUME NEW i \in 1 .. Len(c), c[i].num = m, c[i].text = u PROVE Line(d, m, u)
    <3>1. CASE i < p
      BY <1>1, <1>4, <1>5, <2>1, <3>1 DEF Line
    <3>2. CASE p <= i
      BY <1>7, <2>1, <3>2 DEF Line
    <3>3. i < p \/ p <= i
      BY <1>1, <1>3
    <3>4. QED  BY <3>1, <3>2, <3>3
  <2>2. ASSUME NEW j \in 1 .. Len(d), d[j].num = m, d[j].text = u PROVE Line(c, m, u)
    BY <1>2, <1>8, <1>11, <2>2 DEF Line
  <2>3. QED  BY <2>1, <2>2 DEF Line
<1>12. TableOf(d) = [TableOf(c) EXCEPT ![n] = t]
  BY <1>9, <1>10, <1>11, Stored
<1>13. QED  BY <1>4, <1>9, <1>12 DEF d, p, e

LEMMA RemoveDeletes ==
  ASSUME ConstantsOK, NEW c, Sorted(c), NEW p \in 1 .. Len(c)
  PROVE  LET d == RemoveAt(c, p)
         IN  Sorted(d) /\ Len(d) = Len(c) - 1 /\ TableOf(d) = [TableOf(c) EXCEPT ![c[p].num] = "none"]
<1> DEFINE n == c[p].num
           d == RemoveAt(c, p)
<1>1. Len(c) \in Nat /\ c \in Seq(Entries) /\ n \in Numbers
  BY SortedTypes DEF Sorted
<1>2. /\ d \in Seq(Entries) /\ Len(d) = Len(c) - 1
      /\ \A i \in 1 .. Len(c) - 1 : d[i] = IF i < p THEN c[i] ELSE c[i + 1]
  BY <1>1, Removed
<1> HIDE DEF n, d
<1>3. \A j \in 1 .. Len(d) : \/ j < p /\ j \in 1 .. Len(c) /\ d[j] = c[j]
                             \/ p <= j /\ j + 1 \in 1 .. Len(c) /\ d[j] = c[j + 1]
  <2> SUFFICES ASSUME NEW j \in 1 .. Len(c) - 1
               PROVE  \/ j < p /\ j \in 1 .. Len(c) /\ d[j] = c[j]
                      \/ p <= j /\ j + 1 \in 1 .. Len(c) /\ d[j] = c[j + 1]
    BY <1>2
  <2>1. j \in 1 .. Len(c) /\ j + 1 \in 1 .. Len(c) /\ (j < p \/ (p <= j /\ ~(j < p)))
    BY <1>1
  <2>2. QED  BY <1>2, <2>1
<1>4. \A i \in 1 .. Len(c) : i # p => \/ i \in 1 .. Len(d) /\ d[i] = c[i]
                                      \/ i - 1 \in 1 .. Len(d) /\ d[i - 1] = c[i]
  <2> SUFFICES ASSUME NEW i \in 1 .. Len(c), i # p
               PROVE  \/ i \in 1 .. Len(d) /\ d[i] = c[i]
                      \/ i - 1 \in 1 .. Len(d) /\ d[i - 1] = c[i]
    OBVIOUS
  <2>1. CASE i < p
    <3>1. i \in 1 .. Len(c) - 1
      BY <1>1, <2>1
    <3>2. QED  BY <1>2, <2>1, <3>1
  <2>2. CASE p < i
    <3>1. i - 1 \in 1 .. Len(c) - 1 /\ ~(i - 1 < p) /\ (i - 1) + 1 = i
      BY <1>1, <2>2
    <3>2. QED  BY <1>2, <3>1
  <2>3. QED  BY <1>1, <2>1, <2>2
<1>5. Sorted(d)
  <2> SUFFICES ASSUME NEW i \in 1 .. Len(d), NEW j \in 1 .. Len(d), i < j PROVE d[i].num < d[j].num
    BY <1>2 DEF Sorted
  <2>1. i \in Int /\ j \in Int /\ p \in Int /\ i < j + 1 /\ i + 1 < j + 1 /\ (p <= i => ~(j < p))
    BY <1>1, <1>2
  <2>2. PICK k \in 1 .. Len(c) : d[i] = c[k] /\ (k = i \/ (k = i + 1 /\ p <= i))
    BY <1>3
  <2>3. PICK l \in 1 .. Len(c) : d[j] = c[l] /\ ((l = j /\ j < p) \/ l = j + 1)
    BY <1>3
  <2>4. k < l
    BY <2>1, <2>2, <2>3
  <2>5. QED  BY <2>2, <2>3, <2>4 DEF Sorted
<1>6. ASSUME NEW j \in 1 .. Len(d) PROVE d[j].num # n
  <2>1. j \in Int /\ p \in Int
    BY <1>1, <1>2
  <2>2. PICK k \in 1 .. Len(c) : d[j] = c[k] /\ ((k = j /\ j < p) \/ (k = j + 1 /\ p <= j))
    BY <1>3
  <2>3. k # p
    BY <2>1, <2>2
  <2>4. QED  BY <2>2, <2>3, OneLine DEF n
<1>7. ASSUME NEW m, NEW u, m # n PROVE Line(c, m, u) <=> Line(d, m, u)
  <2>1. ASSUME NEW i \in 1 .. Len(c), c[i].num = m, c[i].text = u PROVE Line(d, m, u)
    <3>1. i # p
      BY <1>7, <2>1 DEF n
    <3>2. QED  BY <1>4, <2>1, <3>1 DEF Line
  <2>2. ASSUME NEW j \in 1 .. Len(d), d[j].num = m, d[j].text = u PROVE Line(c, m, u)
    BY <1>3, <2>2 DEF Line
  <2>3. QED  BY <2>1, <2>2 DEF Line
<1>8. TableOf(d) = [TableOf(c) EXCEPT ![n] = "none"]
  BY <1>1, <1>5, <1>6, <1>7, Deleted
<1>9. QED  BY <1>2, <1>5, <1>8 DEF n, d

LEMMA UpdateStores ==
  ASSUME ConstantsOK, NEW c, Sorted(c), NEW p \in 1 .. Len(c), NEW t \in Texts
  PROVE  LET d == [c EXCEPT ![p].text = t]
         IN  Sorted(d) /\ Len(d) = Len(c) /\ TableOf(d) = [TableOf(c) EXCEPT ![c[p].num] = t]
<1> DEFINE n == c[p].num
           e == [c[p] EXCEPT !.text = t]
           d == [c EXCEPT ![p].text = t]
<1>1. c \in Seq(Entries) /\ n \in Numbers /\ c[p] \in Entries
  BY SortedTypes DEF Sorted
<1>2. e \in Entries /\ e.num = n /\ e.text = t
  BY <1>1 DEF Entries
<1>3. d = [c EXCEPT ![p] = e]
  OBVIOUS
<1> HIDE DEF n, e
<1>4. d \in Seq(Entries) /\ Len(d) = Len(c) /\ \A j \in 1 .. Len(c) : d[j] = IF j = p THEN e ELSE c[j]
  BY <1>1, <1>2, <1>3, ExceptSeq
<1> HIDE DEF d
<1>5. \A j \in 1 .. Len(c) : d[j].num = c[j].num
  BY <1>2, <1>4 DEF n
<1>6. Sorted(d)
  BY <1>4, <1>5 DEF Sorted
<1>7. Line(d, n, t)
  BY <1>2, <1>4 DEF Line
<1>8. \A m, u : m # n => (Line(c, m, u) <=> Line(d, m, u))
  BY <1>2, <1>4 DEF Line, n
<1>9. TableOf(d) = [TableOf(c) EXCEPT ![n] = t]
  BY <1>1, <1>6, <1>7, <1>8, Stored
<1>10. QED  BY <1>4, <1>6, <1>9 DEF d, n
-----------------------------------------------------------------------------
(* The steps of the editor are steps of the table *)

tab == [n \in Numbers |-> TextOf(n)]

LEMMA ReadsTable ==
  /\ tab = TableOf(lines) /\ tab' = TableOf(lines')
  /\ \A n : Point(n) = PointIn(lines, n)
  BY DEF tab, TextOf, TableOf, TextIn, Point, PointIn

LEMMA SameCardinality == \A S : Table!Cardinality(S) = Cardinality(S)
  BY DEF Table!Cardinality, Cardinality

LEMMA UsedLines ==
  ASSUME ConstantsOK, IInv
  PROVE  /\ Table!Used = NumsOf(lines, Len(lines))
         /\ Table!Cardinality(Table!Used) = Len(lines)
<1>1. Table!Used = UsedIn(lines)
  BY DEF Table!Used, Table!None, UsedIn, TextOf, TextIn
<1>2. Len(lines) \in 0 .. Len(lines)
  BY SortedTypes DEF IInv
<1>3. QED  BY <1>1, <1>2, UsedNums, CountNums, SameCardinality DEF IInv

(* store_line finds a line at the insertion point, or nowhere. *)
LEMMA FoundAtPoint ==
  ASSUME ConstantsOK, IInv, NEW n \in Numbers
  PROVE  /\ Found(n) => Point(n) \in 1 .. Len(lines) /\ lines[Point(n)].num = n
         /\ ~Found(n) => \A i \in 1 .. Len(lines) : lines[i].num # n
<1> DEFINE p == Point(n)
<1>1. /\ p \in 1 .. Len(lines) + 1
      /\ \A i \in 1 .. Len(lines) : lines[i].num < n <=> i < p
  BY PointParts, ReadsTable DEF IInv
<1>2. Len(lines) \in Nat /\ n \in Nat
  BY SortedTypes DEF IInv, ConstantsOK
<1> HIDE DEF p
<1>3. ASSUME NEW i \in 1 .. Len(lines), lines[i].num = n PROVE p <= Len(lines) /\ lines[p].num = n
  <2>1. ~(i < p)
    BY <1>1, <1>2, <1>3
  <2>2. p \in 1 .. Len(lines) /\ (p = i \/ p < i)
    BY <1>1, <1>2, <2>1
  <2>3. p < i => lines[p].num < n
    BY <1>3, <2>2 DEF IInv, Sorted
  <2>4. ~(lines[p].num < n)
    BY <1>1, <1>2, <2>2
  <2>5. QED  BY <1>2, <1>3, <2>2, <2>3, <2>4
<1>4. Found(n) => p \in 1 .. Len(lines) /\ lines[p].num = n
  BY <1>1, <1>2 DEF Found, p
<1>5. QED  BY <1>3, <1>4 DEF Found, p

LEMMA StoreStep ==
  ASSUME ConstantsOK, IInv, NEW n \in Numbers, NEW t \in Texts, store_line(n, t)
  PROVE  IInv' /\ Table!Put(n, t)
<1>1. /\ lbuf' = <<n, t>> /\ listed' = listed
      /\ answer' = IF Found(n) \/ Len(lines) < MAXLINES THEN "none" ELSE "OUT OF MEMORY"
  BY DEF store_line
<1>2. CASE Found(n)
  <2> DEFINE p == Point(n)
  <2>1. p \in 1 .. Len(lines) /\ lines[p].num = n
    BY <1>2, FoundAtPoint
  <2>2. lines' = [lines EXCEPT ![p].text = t]
    BY <1>2 DEF store_line
  <2> HIDE DEF p
  <2>3. Sorted(lines') /\ Len(lines') = Len(lines) /\ TableOf(lines') = [TableOf(lines) EXCEPT ![lines[p].num] = t]
    <3>1. LET d == [lines EXCEPT ![p].text = t]
          IN  Sorted(d) /\ Len(d) = Len(lines) /\ TableOf(d) = [TableOf(lines) EXCEPT ![lines[p].num] = t]
      BY <2>1, UpdateStores DEF IInv
    <3>2. QED  BY <2>2, <3>1
  <2>4. n \in Table!Used
    BY <2>1, UsedLines DEF NumsOf
  <2>5. tab' = [tab EXCEPT ![n] = t]
    BY <2>1, <2>3, ReadsTable
  <2>6. IInv'
    BY <2>3 DEF IInv
  <2>7. Table!HasRoom(n)
    BY <2>4 DEF Table!HasRoom
  <2>8. QED  BY <1>1, <1>2, <2>5, <2>6, <2>7 DEF Table!Put, Table!None, tab
<1>3. CASE ~Found(n) /\ Len(lines) < MAXLINES
  <2>1. \A i \in 1 .. Len(lines) : lines[i].num # n
    BY <1>3, FoundAtPoint
  <2>2. lines' = InsertAt(lines, PointIn(lines, n), [num |-> n, text |-> t])
    BY <1>3, ReadsTable DEF store_line
  <2>3. Sorted(lines') /\ Len(lines') = Len(lines) + 1 /\ TableOf(lines') = [TableOf(lines) EXCEPT ![n] = t]
    BY <2>1, <2>2, InsertStores DEF IInv
  <2>4. Table!Cardinality(Table!Used) < MAXLINES
    BY <1>3, UsedLines
  <2>5. tab' = [tab EXCEPT ![n] = t]
    BY <2>3, ReadsTable
  <2>6. Len(lines) + 1 <= MAXLINES
    BY <1>3, SortedTypes DEF IInv, ConstantsOK
  <2>7. IInv'
    BY <2>3, <2>6 DEF IInv
  <2>8. Table!HasRoom(n)
    BY <2>4 DEF Table!HasRoom
  <2>9. QED  BY <1>1, <1>3, <2>5, <2>7, <2>8 DEF Table!Put, Table!None, tab
<1>4. CASE ~Found(n) /\ ~(Len(lines) < MAXLINES)
  <2>1. lines' = lines
    BY <1>4 DEF store_line
  <2>2. \A i \in 1 .. Len(lines) : lines[i].num # n
    BY <1>4, FoundAtPoint
  <2>3. ~Table!HasRoom(n)
    BY <1>4, <2>2, UsedLines DEF Table!HasRoom, NumsOf
  <2>4. tab' = tab
    BY <2>1, ReadsTable
  <2>5. QED  BY <1>1, <1>4, <2>1, <2>3, <2>4 DEF IInv, Table!Put, tab
<1>5. QED  BY <1>2, <1>3, <1>4

LEMMA RemoveStep ==
  ASSUME ConstantsOK, IInv, NEW n \in Numbers, RemoveLine(n)
  PROVE  IInv' /\ Table!Delete(n)
<1>1. /\ lbuf' = <<n, "none">> /\ answer' = "none" /\ listed' = listed
      /\ DOMAIN lines = 1 .. Len(lines) /\ Len(lines) \in Nat /\ MAXLINES \in Nat
  BY SortedTypes DEF RemoveLine, IInv, ConstantsOK
<1>2. CASE \E i \in DOMAIN lines : lines[i].num = n
  <2>1. PICK p \in 1 .. Len(lines) : lines[p].num = n
    BY <1>1, <1>2
  <2>2. {i \in DOMAIN lines : lines[i].num = n} = {p}
    BY <1>1, <2>1, OneLine DEF IInv
  <2>3. p \in Int /\ \A x \in {p} : p =< x
    BY <1>1
  <2>4. Min({p}) = p
    BY <2>3 DEF Min
  <2>5. lines' = RemoveAt(lines, p)
    BY <1>2, <2>2, <2>4 DEF RemoveLine
  <2>6. Sorted(lines') /\ Len(lines') = Len(lines) - 1 /\ TableOf(lines') = [TableOf(lines) EXCEPT ![n] = "none"]
    BY <2>1, <2>5, RemoveDeletes DEF IInv
  <2>7. tab' = [tab EXCEPT ![n] = "none"]
    BY <2>6, ReadsTable
  <2>8. IInv'
    BY <1>1, <2>6 DEF IInv
  <2>9. QED  BY <1>1, <2>7, <2>8 DEF Table!Delete, Table!None, tab
<1>3. CASE ~\E i \in DOMAIN lines : lines[i].num = n
  <2>1. lines' = lines
    BY <1>3 DEF RemoveLine
  <2>2. TextIn(lines, n) = "none"
    BY <1>1, <1>3, NoText DEF IInv, Sorted
  <2>3. [TableOf(lines) EXCEPT ![n] = "none"] = TableOf(lines)
    BY <2>2 DEF TableOf
  <2>4. tab' = [tab EXCEPT ![n] = "none"]
    BY <2>1, <2>3, ReadsTable
  <2>5. QED  BY <1>1, <2>1, <2>4 DEF IInv, Table!Delete, Table!None, tab
<1>4. QED  BY <1>2, <1>3

(* LIST prints the numbers by position, and that is their order. *)
LEMMA ListStep ==
  ASSUME ConstantsOK, IInv, cmd_list
  PROVE  IInv' /\ Table!List
<1> DEFINE used == NumsOf(lines, Len(lines))
           Nth(i) == CHOOSE n \in used : Table!Cardinality({m \in used : m < n}) = i - 1
<1>1. /\ lines' = lines /\ listed' = lines /\ lbuf' = <<"LIST">> /\ answer' = "none"
      /\ DOMAIN lines = 1 .. Len(lines) /\ Len(lines) \in Nat /\ Sorted(lines)
  BY SortedTypes DEF cmd_list, IInv
<1>2. Table!Used = used /\ Table!Cardinality(used) = Len(lines)
  BY UsedLines
<1>3. ASSUME NEW j \in 1 .. Len(lines) PROVE Table!Cardinality({m \in used : m < lines[j].num}) = j - 1
  <2>1. j - 1 \in 0 .. Len(lines)
    BY <1>1
  <2>2. QED  BY <1>1, <2>1, NumsBelow, CountNums, SameCardinality
<1>4. ASSUME NEW i \in 1 .. Len(lines) PROVE Nth(i) = lines[i].num
  <2>1. lines[i].num \in used /\ Table!Cardinality({m \in used : m < lines[i].num}) = i - 1
    BY <1>3 DEF NumsOf
  <2>2. ASSUME NEW n \in used, Table!Cardinality({m \in used : m < n}) = i - 1 PROVE n = lines[i].num
    <3>1. PICK j \in 1 .. Len(lines) : n = lines[j].num
      BY DEF NumsOf
    <3>2. j - 1 = i - 1
      BY <1>3, <2>2, <3>1
    <3>3. QED  BY <1>1, <3>1, <3>2
  <2> HIDE DEF used
  <2>3. QED  BY <2>1, <2>2
<1>5. listed' = [i \in 1 .. Len(lines) |-> [num |-> Nth(i), text |-> tab[Nth(i)]]]
  <2>1. ASSUME NEW i \in 1 .. Len(lines) PROVE lines[i] = [num |-> Nth(i), text |-> tab[Nth(i)]]
    <3>1. lines[i] = [num |-> lines[i].num, text |-> lines[i].text] /\ lines[i].num \in Numbers
      BY <1>1, SortedTypes DEF Entries
    <3>2. tab[lines[i].num] = lines[i].text
      BY <1>1, <3>1, TextRead, ReadsTable DEF TableOf
    <3>3. QED  BY <1>4, <3>1, <3>2
  <2>2. lines = [i \in 1 .. Len(lines) |-> lines[i]]
    BY <1>1 DEF Sorted
  <2>3. QED  BY <1>1, <2>1, <2>2
<1>6. tab' = tab
  BY <1>1, ReadsTable
<1>7. Table!List
  BY <1>1, <1>2, <1>5, <1>6 DEF Table!List, Table!Nth, Table!None, tab
<1>8. QED  BY <1>1, <1>7 DEF IInv

(* The empty array. *)
LEMMA EmptyTable ==
  ASSUME ConstantsOK
  PROVE  /\ Sorted(<<>>) /\ Len(<<>>) <= MAXLINES
         /\ TableOf(<<>>) = [n \in Numbers |-> "none"]
<1> DEFINE e == <<>>
<1>1. e \in Seq(Entries) /\ Len(e) = 0
  OBVIOUS
<1> HIDE DEF e
<1>2. Sorted(e) /\ Len(e) <= MAXLINES
  BY <1>1 DEF Sorted, ConstantsOK
<1>3. ASSUME NEW n \in Numbers PROVE TextIn(e, n) = "none"
  <2>1. {i \in DOMAIN e : e[i].num = n} = {}
    BY <1>1
  <2>2. QED  BY <2>1 DEF TextIn
<1>4. TableOf(e) = [n \in Numbers |-> "none"]
  BY <1>3 DEF TableOf
<1>5. QED  BY <1>2, <1>4 DEF e

LEMMA NewStep ==
  ASSUME ConstantsOK, IInv, cmd_new
  PROVE  IInv' /\ Table!New
<1>1. lines' = <<>> /\ listed' = listed /\ lbuf' = <<"NEW">> /\ answer' = "none"
  BY DEF cmd_new
<1>2. IInv'
  BY <1>1, EmptyTable DEF IInv
<1>3. tab' = [n \in Numbers |-> "none"]
  BY <1>1, EmptyTable, ReadsTable
<1>4. QED  BY <1>1, <1>2, <1>3 DEF Table!New, Table!None, tab

LEMMA InitStep ==
  ASSUME ConstantsOK, EditorInit
  PROVE  IInv /\ Table!Init
<1>1. lines = <<>> /\ listed = <<>> /\ lbuf = <<"none">> /\ answer = "none"
  BY DEF EditorInit
<1>2. tab = [n \in Numbers |-> "none"]
  BY <1>1, EmptyTable, ReadsTable
<1>3. <<>> = [i \in {} |-> "none"]
  OBVIOUS
<1>4. QED  BY <1>1, <1>2, <1>3, EmptyTable DEF IInv, Table!Init, Table!None, tab

(* For any line numbers, any texts and any size of the array, main and store_line *)
(* do with each line that is typed what the table does: its number gets that    *)
(* text and no other number changes, or it is refused with OUT OF MEMORY, which  *)
(* happens just when it is new and the array is full; LIST prints the lines in  *)
(* order.  What is typed (lbuf) and what is answered are the same variables of   *)
(* both specifications, so a step cannot stand for another line, or for none.   *)
THEOREM EditorIsTable == ASSUME ConstantsOK PROVE EditorSpec => ImplementsTable
<1>1. EditorInit => IInv /\ Table!Init
  BY InitStep
<1>2. IInv /\ [EditorNext]_editor => IInv' /\ [Table!Next]_<<tab, listed, lbuf, answer>>
  <2> SUFFICES ASSUME IInv, [EditorNext]_editor PROVE IInv' /\ [Table!Next]_<<tab, listed, lbuf, answer>>
    OBVIOUS
  <2>1. CASE UNCHANGED editor
    BY <2>1, ReadsTable DEF editor, IInv
  <2>2. ASSUME NEW n \in Numbers, NEW t \in Texts, store_line(n, t) PROVE IInv' /\ [Table!Next]_<<tab, listed, lbuf, answer>>
    BY <2>2, StoreStep DEF Table!Next
  <2>3. ASSUME NEW n \in Numbers, RemoveLine(n) PROVE IInv' /\ [Table!Next]_<<tab, listed, lbuf, answer>>
    BY <2>3, RemoveStep DEF Table!Next
  <2>4. CASE cmd_list \/ cmd_new
    BY <2>4, ListStep, NewStep DEF Table!Next
  <2>5. QED  BY <2>1, <2>2, <2>3, <2>4 DEF EditorNext
<1>3. QED  BY <1>1, <1>2, PTL DEF EditorSpec, ImplementsTable, Table!Spec, tab
=============================================================================
