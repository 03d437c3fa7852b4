--------------------------- MODULE DownloadProofs ---------------------------
(***************************************************************************)
(* What the downloads return, for any books, histories, markets, page size  *)
(* and number of readers: an order dump misses no order that nothing        *)
(* shifted, an increment has the rows of its day, and readers that share a  *)
(* snapshot each read what the ESI answered.                                *)
(***************************************************************************)
EXTENDS HistoryFiles, OrderDump, SequenceTheorems, FiniteSetTheorems,
        WellFoundedInduction, TLAPS

\* Induction, for a set rather than a predicate.
LEMMA NatSets ==
  ASSUME NEW S, 0 \in S, \A n \in Nat : n \in S => n + 1 \in S
  PROVE  Nat \subseteq S
<1> DEFINE T == Nat \ S
<1> SUFFICES ASSUME T # {} PROVE FALSE
  OBVIOUS
<1>1. PICK x \in T : \A y \in T : ~ (<<y, x>> \in OpToRel(<, Nat))
  BY NatLessThanWellFounded, WFMin
<1>2. x \in Nat /\ x # 0 /\ x - 1 \in Nat /\ x - 1 < x
  OBVIOUS
<1>3. <<x - 1, x>> \in OpToRel(<, Nat)
  BY <1>2 DEF OpToRel
<1>4. x - 1 \in S
  BY <1>1, <1>2, <1>3
<1> QED
  BY <1>2, <1>4

\* The recursion of FlattenSeq, as a property of a function.
Flattens(f, s, m) ==
  \A k \in 1..m : f[k] = IF k = 1 THEN s[k] ELSE f[k - 1] \o s[k]

\* The function that FlattenSeq defines by recursion exists.
LEMMA FlattenLoop ==
  ASSUME NEW T, NEW s \in Seq(Seq(T)), s # <<>>
  PROVE  \E f : FlattenSeq(s) = f[Len(s)] /\ Flattens(f, s, Len(s))
<1> DEFINE N == Len(s)
           Exists(m) == \E f : f = [k \in 1..m |-> f[k]] /\ Flattens(f, s, m)
           S == {m \in Nat : m + 1 <= N => Exists(m + 1)}
<1>1. N \in Nat \ {0}
  OBVIOUS
<1>2. 0 \in S
  <2> DEFINE f == [k \in 1..1 |-> s[1]]
  <2>1. f = [k \in 1..1 |-> f[k]] /\ Flattens(f, s, 1)
    BY DEF Flattens
  <2> HIDE DEF f
  <2>2. Exists(0 + 1)
    BY <2>1
  <2> QED
    BY <2>2
<1>3. \A m \in Nat : m \in S => m + 1 \in S
  <2> SUFFICES ASSUME NEW m \in Nat, m + 2 <= N, Exists(m + 1) PROVE Exists(m + 2)
    <3> HIDE DEF Exists
    <3>1. \A m \in Nat : m + 1 + 1 = m + 2 /\ (m + 2 <= N => m + 1 <= N)
      BY <1>1
    <3> QED
      BY <1>1, <3>1
  <2>1. PICK f : f = [k \in 1..(m + 1) |-> f[k]] /\ Flattens(f, s, m + 1)
    OBVIOUS
  <2> DEFINE x == f[m + 1] \o s[m + 2]
             g == [k \in 1..(m + 2) |-> IF k = m + 2 THEN x ELSE f[k]]
  <2> HIDE DEF x
  <2>2. g = [k \in 1..(m + 2) |-> g[k]] /\ \A k \in 1..(m + 1) : g[k] = f[k]
    OBVIOUS
  <2>3. g[m + 2] = g[m + 1] \o s[m + 2]
    <3>1. g[m + 2] = x
      OBVIOUS
    <3>2. g[m + 1] = f[m + 1]
      OBVIOUS
    <3> HIDE DEF g
    <3> QED
      BY <3>1, <3>2 DEF x
  <2> HIDE DEF g
  <2>4. Flattens(g, s, m + 2)
    <3> SUFFICES ASSUME NEW k \in 1..(m + 2)
                 PROVE  g[k] = IF k = 1 THEN s[k] ELSE g[k - 1] \o s[k]
      BY DEF Flattens
    <3>1. CASE k = m + 2
      <4>1. k # 1 /\ k - 1 = m + 1
        BY <3>1
      <4> QED
        BY <2>3, <3>1, <4>1
    <3>2. CASE k \in 1..(m + 1)
      <4>1. k # 1 => k - 1 \in 1..(m + 1)
        BY <3>2
      <4> QED
        BY <2>1, <2>2, <3>2, <4>1 DEF Flattens
    <3> QED
      BY <3>1, <3>2
  <2> QED
    BY <2>2, <2>4
<1>4. N - 1 \in S
  <2>1. N - 1 \in Nat
    BY <1>1
  <2> HIDE DEF S
  <2> QED
    BY <1>2, <1>3, <2>1, NatSets
<1>5. PICK f : f = [k \in 1..N |-> f[k]] /\ Flattens(f, s, N)
  <2>1. Exists(N - 1 + 1)
    BY <1>1, <1>4
  <2>2. N - 1 + 1 = N
    BY <1>1
  <2> QED
    BY <2>1, <2>2
<1> DEFINE Loop(h) == h = [k \in 1..N |-> IF k = 1 THEN s[k] ELSE h[k - 1] \o s[k]]
           flatten == CHOOSE h : Loop(h)
<1>6. Loop(f)
  BY <1>5 DEF Flattens
<1>7. Loop(flatten)
  <2> HIDE DEF Loop
  <2> QED
    BY <1>6
<1>8. FlattenSeq(s) = flatten[N]
  <2>1. Len(s) # 0
    BY <1>1
  <2> QED
    BY <2>1, Zenon DEF FlattenSeq
<1>9. Flattens(flatten, s, N)
  BY <1>7 DEF Flattens
<1> QED
  BY <1>8, <1>9

\* A sequence more at the end of those that are flattened goes to the end.
LEMMA FlattenLast ==
  ASSUME NEW T, NEW s \in Seq(Seq(T)), NEW x \in Seq(T)
  PROVE  /\ FlattenSeq(s) \in Seq(T)
         /\ FlattenSeq(Append(s, x)) = FlattenSeq(s) \o x
<1> DEFINE N == Len(s)
           t == Append(s, x)
<1>1. /\ t \in Seq(Seq(T)) /\ t # <<>> /\ Len(t) = N + 1 /\ N \in Nat
      /\ \A k \in 1..N : t[k] = s[k] /\ t[k] \in Seq(T)
      /\ t[N + 1] = x
  BY AppendProperties, LenProperties, ElementOfSeq
<1>2. PICK g : FlattenSeq(t) = g[N + 1] /\ Flattens(g, t, N + 1)
  <2> HIDE DEF t
  <2> QED
    BY <1>1, FlattenLoop
<1> HIDE DEF t
<1>3. CASE s = <<>>
  <2>1. FlattenSeq(s) = <<>> /\ N = 0
    BY <1>3 DEF FlattenSeq
  <2>2. g[1] = x
    BY <1>1, <1>2, <2>1 DEF Flattens
  <2> QED
    BY <1>2, <2>1, <2>2, ConcatEmptySeq DEF t
<1>4. CASE s # <<>>
  <2>1. PICK f : FlattenSeq(s) = f[N] /\ Flattens(f, s, N)
    BY <1>4, FlattenLoop
  <2> DEFINE S == {m \in Nat : m + 1 <= N => g[m + 1] = f[m + 1] /\ f[m + 1] \in Seq(T)}
  <2>2. 0 \in S
    <3>1. N >= 1
      BY <1>1, <1>4
    <3>2. g[1] = f[1] /\ f[1] \in Seq(T)
      BY <1>1, <1>2, <2>1, <3>1 DEF Flattens
    <3> QED
      BY <3>2
  <2>3. \A m \in Nat : m \in S => m + 1 \in S
    <3> SUFFICES ASSUME NEW m \in Nat, m + 2 <= N,
                        g[m + 1] = f[m + 1], f[m + 1] \in Seq(T)
                 PROVE  g[m + 2] = f[m + 2] /\ f[m + 2] \in Seq(T)
      <4>1. \A m \in Nat : (m + 1) + 1 = m + 2 /\ (m + 2 <= N => m + 1 <= N)
        BY <1>1
      <4> QED
        BY <4>1
    <3>1. m + 2 \in 1..N /\ m + 2 \in 1..(N + 1) /\ m + 2 # 1 /\ (m + 2) - 1 = m + 1
      BY <1>1
    <3>2. f[m + 2] = f[m + 1] \o s[m + 2]
      BY <2>1, <3>1 DEF Flattens
    <3>3. g[m + 2] = g[m + 1] \o t[m + 2]
      BY <1>2, <3>1 DEF Flattens
    <3>4. t[m + 2] = s[m + 2] /\ s[m + 2] \in Seq(T)
      BY <1>1, <3>1
    <3> QED
      BY <3>2, <3>3, <3>4, ConcatProperties
  <2>4. N - 1 \in S
    <3>1. N - 1 \in Nat
      BY <1>1, <1>4
    <3> HIDE DEF S
    <3> QED
      BY <2>2, <2>3, <3>1, NatSets
  <2>5. g[N] = f[N] /\ f[N] \in Seq(T)
    BY <1>1, <1>4, <2>4
  <2>6. g[N + 1] = g[N] \o x
    <3>1. N + 1 \in 1..(N + 1) /\ N + 1 # 1 /\ (N + 1) - 1 = N
      BY <1>1, <1>4
    <3> QED
      BY <1>1, <1>2, <3>1 DEF Flattens
  <2> QED
    BY <1>2, <2>1, <2>5, <2>6 DEF t
<1> QED
  BY <1>3, <1>4

\* The orders there are, and those of a dump, with their region.
Order == NewOrders \cup UNION {ToSet(b) : b \in Books}
Tagged == [region : 1..Regions, order : Order]

\* InRegion tags the orders of a book, and leaves their number and places alone.
LEMMA InRegionIs ==
  ASSUME NEW b \in Seq(Order), NEW r \in 1..Regions
  PROVE  /\ InRegion(b, r) \in Seq(Tagged) /\ Len(InRegion(b, r)) = Len(b)
         /\ \A n \in 1..Len(b) : InRegion(b, r)[n] = [region |-> r, order |-> b[n]]
<1>1. DOMAIN b = 1..Len(b) /\ Len(b) \in Nat /\ \A n \in 1..Len(b) : b[n] \in Order
  BY LenProperties, ElementOfSeq
<1>2. InRegion(b, r) = [n \in 1..Len(b) |-> [region |-> r, order |-> b[n]]]
  BY <1>1 DEF InRegion
<1>3. \A n \in 1..Len(b) : [region |-> r, order |-> b[n]] \in Tagged
  BY <1>1 DEF Tagged
<1>4. InRegion(b, r) \in Seq(Tagged)
  BY <1>1, <1>2, <1>3
<1> QED
  BY <1>1, <1>2, <1>4

\* What the end of a book adds.
LEMMA InRegionJoins ==
  ASSUME NEW b \in Seq(Order), NEW r \in 1..Regions,
         NEW k \in 0..Len(b), NEW n \in k..Len(b)
  PROVE  InRegion(SubSeq(b, 1, k), r) \o InRegion(SubSeq(b, k + 1, n), r)
           = InRegion(SubSeq(b, 1, n), r)
<1> DEFINE u == SubSeq(b, 1, k)
           v == SubSeq(b, k + 1, n)
           w == SubSeq(b, 1, n)
<1>1. /\ Len(b) \in Nat /\ \A m \in 1..Len(b) : b[m] \in Order
      /\ k \in Nat /\ n \in Nat /\ k <= n /\ n <= Len(b)
  BY LenProperties, ElementOfSeq
<1>2. /\ u \in Seq(Order) /\ Len(u) = k /\ \A m \in 1..k : u[m] = b[m]
      /\ v \in Seq(Order) /\ Len(v) = n - k /\ \A m \in 1..(n - k) : v[m] = b[k + m]
      /\ w \in Seq(Order) /\ Len(w) = n /\ \A m \in 1..n : w[m] = b[m]
  <2>1. u \in Seq(Order) /\ Len(u) = k /\ \A m \in 1..k : u[m] = b[m]
    BY <1>1, SubSeqProperties
  <2>2. v \in Seq(Order) /\ Len(v) = n - k /\ \A m \in 1..(n - k) : v[m] = b[k + m]
    <3>1. /\ v \in Seq(Order) /\ Len(v) = IF k + 1 <= n THEN n - (k + 1) + 1 ELSE 0
          /\ \A m \in 1..(n - (k + 1) + 1) : v[m] = b[k + 1 + m - 1]
      <4>1. k + 1 \in Int /\ n \in Int /\ \A m \in (k + 1)..n : b[m] \in Order
        BY <1>1
      <4> HIDE DEF v
      <4> QED
        BY <4>1, SubSeqProperties DEF v
    <3>2. n - (k + 1) + 1 = n - k /\ \A m \in 1..(n - k) : k + 1 + m - 1 = k + m
      BY <1>1
    <3> HIDE DEF v
    <3> QED
      BY <1>1, <3>1, <3>2
  <2>3. w \in Seq(Order) /\ Len(w) = n /\ \A m \in 1..n : w[m] = b[m]
    BY <1>1, SubSeqProperties
  <2> HIDE DEF u, v, w
  <2> QED
    BY <2>1, <2>2, <2>3
<1> HIDE DEF u, v, w
<1> DEFINE iu == InRegion(u, r)
           iv == InRegion(v, r)
           iw == InRegion(w, r)
<1>3. /\ iu \in Seq(Tagged) /\ Len(iu) = k
      /\ \A m \in 1..k : iu[m] = [region |-> r, order |-> b[m]]
  <2>1. iu \in Seq(Tagged) /\ Len(iu) = Len(u)
    BY <1>2, InRegionIs
  <2>2. \A m \in 1..Len(u) : iu[m] = [region |-> r, order |-> u[m]]
    BY <1>2, InRegionIs
  <2> HIDE DEF iu
  <2> QED
    BY <1>2, <2>1, <2>2
<1>4. /\ iv \in Seq(Tagged) /\ Len(iv) = n - k
      /\ \A m \in 1..(n - k) : iv[m] = [region |-> r, order |-> b[k + m]]
  <2>1. iv \in Seq(Tagged) /\ Len(iv) = Len(v)
    BY <1>2, InRegionIs
  <2>2. \A m \in 1..Len(v) : iv[m] = [region |-> r, order |-> v[m]]
    BY <1>2, InRegionIs
  <2> HIDE DEF iv
  <2> QED
    BY <1>2, <2>1, <2>2
<1>5. /\ iw \in Seq(Tagged) /\ Len(iw) = n
      /\ \A m \in 1..n : iw[m] = [region |-> r, order |-> b[m]]
  <2>1. iw \in Seq(Tagged) /\ Len(iw) = Len(w)
    BY <1>2, InRegionIs
  <2>2. \A m \in 1..Len(w) : iw[m] = [region |-> r, order |-> w[m]]
    BY <1>2, InRegionIs
  <2> HIDE DEF iw
  <2> QED
    BY <1>2, <2>1, <2>2
<1> HIDE DEF iu, iv, iw
<1>6. /\ iu \o iv \in Seq(Tagged) /\ Len(iu \o iv) = n
      /\ \A m \in 1..n : (iu \o iv)[m] = IF m <= k THEN iu[m] ELSE iv[m - k]
  <2>1. k + (n - k) = n
    BY <1>1
  <2>2. /\ iu \o iv \in Seq(Tagged) /\ Len(iu \o iv) = Len(iu) + Len(iv)
        /\ \A m \in 1..(Len(iu) + Len(iv)) :
             (iu \o iv)[m] = IF m <= Len(iu) THEN iu[m] ELSE iv[m - Len(iu)]
    BY <1>3, <1>4, ConcatProperties
  <2> QED
    BY <1>3, <1>4, <2>1, <2>2
<1>7. \A m \in 1..n : (iu \o iv)[m] = iw[m]
  <2> TAKE m \in 1..n
  <2>1. CASE m <= k
    <3>1. m \in 1..k
      BY <1>1, <2>1
    <3> QED
      BY <1>3, <1>5, <1>6, <2>1, <3>1
  <2>2. CASE ~(m <= k)
    <3>1. m - k \in 1..(n - k) /\ k + (m - k) = m
      BY <1>1, <2>2
    <3> QED
      BY <1>4, <1>5, <1>6, <2>2, <3>1
  <2> QED
    BY <2>1, <2>2
<1> QED
  BY <1>5, <1>6, <1>7, SeqEqual DEF iu, iv, iw, u, v, w

\* A product grows with its factor.
LEMMA TimesPage ==
  ASSUME NEW p \in Nat, NEW q \in Nat, p <= q, NEW c \in Nat
  PROVE  p * c <= q * c
OBVIOUS

\* The pages before the last are full, and the last has the end of the book.
LEMMA PagesFit ==
  ASSUME NEW b \in Seq(Order), NEW p \in Nat \ {0}
  PROVE  /\ PagesOf(b) \in Nat \ {0}
         /\ p < PagesOf(b) => p * PageSize < Len(b)
         /\ p >= PagesOf(b) => p * PageSize >= Len(b)
<1> DEFINE L == Len(b)
           q == (L + PageSize - 1) \div PageSize
<1>1. L \in Nat /\ PageSize \in Nat \ {0}
  BY OrderAssumption, LenProperties
<1>2. CASE b = <<>>
  <2>1. L = 0 /\ PagesOf(b) = 1
    BY <1>2 DEF PagesOf
  <2>2. p * PageSize \in Nat
    BY <1>1
  <2> QED
    BY <2>1, <2>2
<1>3. CASE b # <<>>
  <2>1. PagesOf(b) = q /\ L > 0
    BY <1>1, <1>3, EmptySeq DEF PagesOf
  <2>2. /\ q \in Int /\ q * PageSize <= L + PageSize - 1
        /\ L + PageSize - 1 < q * PageSize + PageSize
    BY <1>1
  <2> HIDE DEF q, L
  <2>3. q >= 1
    <3> SUFFICES ASSUME q <= 0 PROVE FALSE
      BY <2>2
    <3>1. q * PageSize <= 0
      BY <1>1, <2>2
    <3> QED
      BY <1>1, <2>1, <2>2, <3>1
  <2>4. ASSUME p < q PROVE p * PageSize < L
    <3>1. (p + 1) * PageSize <= q * PageSize
      BY <1>1, <2>2, <2>3, <2>4, TimesPage
    <3>2. (p + 1) * PageSize = p * PageSize + PageSize /\ p * PageSize \in Nat
      BY <1>1
    <3> QED
      BY <1>1, <2>2, <3>1, <3>2
  <2>5. ASSUME p >= q PROVE p * PageSize >= L
    <3>1. q * PageSize <= p * PageSize
      BY <1>1, <2>2, <2>3, <2>5, TimesPage
    <3>2. p * PageSize \in Nat /\ q * PageSize \in Int
      BY <1>1, <2>2
    <3> QED
      BY <1>1, <2>2, <3>1, <3>2
  <2> QED
    BY <2>1, <2>2, <2>3, <2>4, <2>5 DEF L
<1> QED
  BY <1>2, <1>3

-----------------------------------------------------------------------------
\* The values among the first k of a book that a download does not have.
First(b, k) == {b[n] : n \in {m \in 1..Len(b) : m <= k}}
Missed(o, b, k, r) == {x \in First(b, k) : [region |-> r, order |-> x] \notin ToSet(o)}

\* While pages are to come, each order that ended took at most one order of the
\* pages behind the cursor away, and left at most one place empty there.
OnCourse(o, b, e, k, r) ==
  /\ Cardinality(Missed(o, b, k, r)) <= e
  /\ Cardinality(Missed(o, b, k, r)) + k <= e + Len(b)

\* No more orders of a book are missing than ended.
FewMissed(o, b, e, r) == Cardinality(Missed(o, b, Len(b), r)) <= e

\* A count of them makes sense.
LEMMA MissedIsFinite ==
  ASSUME NEW o, NEW b \in Seq(Order), NEW k \in Nat, NEW r
  PROVE  /\ IsFiniteSet(Missed(o, b, k, r))
         /\ Cardinality(Missed(o, b, k, r)) \in Nat
<1> DEFINE D == {m \in 1..Len(b) : m <= k}
<1>1. IsFiniteSet(1..Len(b))
  BY LenProperties, FS_Interval
<1>2. IsFiniteSet(D)
  BY <1>1, FS_Subset
<1> HIDE DEF D
<1>3. First(b, k) = {b[n] : n \in D}
  BY DEF First, D
<1>4. IsFiniteSet(First(b, k))
  <2>1. [n \in D |-> b[n]] \in Surjection(D, First(b, k))
    BY <1>3 DEF Surjection
  <2> QED
    BY <1>2, <2>1, FS_Surjection
<1>5. IsFiniteSet(Missed(o, b, k, r))
  BY <1>4, FS_Subset DEF Missed
<1> QED
  BY <1>5, FS_CardinalityType

\* A set with one element more counts one more.
LEMMA AtMostOneMore ==
  ASSUME NEW X, NEW Y, NEW x, IsFiniteSet(Y), X \subseteq Y \cup {x}
  PROVE  Cardinality(X) <= Cardinality(Y) + 1
<1>1. /\ IsFiniteSet(Y \cup {x}) /\ Cardinality(Y \cup {x}) <= Cardinality(Y) + 1
      /\ Cardinality(Y) \in Nat
  BY FS_AddElement, FS_CardinalityType
<1>2. IsFiniteSet(X) /\ Cardinality(X) <= Cardinality(Y \cup {x})
  BY <1>1, FS_Subset
<1> QED
  BY <1>1, <1>2, FS_CardinalityType

\* An order placed at the end of the book.
LEMMA PlaceOnCourse ==
  ASSUME NEW o, NEW b \in Seq(Order), NEW x \in Order, NEW e \in Nat, NEW k \in Nat,
         NEW r, OnCourse(o, b, e, k, r)
  PROVE  OnCourse(o, Append(b, x), e, k, r)
<1> DEFINE c == Append(b, x)
<1>1. /\ Len(b) \in Nat /\ c \in Seq(Order) /\ Len(c) = Len(b) + 1
      /\ \A n \in 1..Len(b) : c[n] = b[n]
      /\ c[Len(b) + 1] = x
  BY AppendProperties, LenProperties
<1> HIDE DEF c
<1> DEFINE M == Missed(o, b, k, r)
           N == Missed(o, c, k, r)
<1>2. /\ IsFiniteSet(M) /\ Cardinality(M) \in Nat
      /\ IsFiniteSet(N) /\ Cardinality(N) \in Nat
  BY <1>1, MissedIsFinite
<1>3. Cardinality(M) <= e /\ Cardinality(M) + k <= e + Len(b)
  BY DEF OnCourse
<1>4. CASE k <= Len(b)
  <2>1. First(c, k) \subseteq First(b, k)
    <3> SUFFICES ASSUME NEW m \in 1..Len(c), m <= k PROVE c[m] \in First(b, k)
      BY DEF First
    <3>1. m \in 1..Len(b) /\ c[m] = b[m]
      BY <1>1, <1>4
    <3> QED
      BY <3>1 DEF First
  <2>2. N \subseteq M
    BY <2>1 DEF Missed
  <2>3. Cardinality(N) <= Cardinality(M)
    <3> HIDE DEF M, N
    <3> QED
      BY <1>2, <2>2, FS_Subset
  <2> HIDE DEF M, N
  <2>4. Cardinality(N) <= e /\ Cardinality(N) + k <= e + Len(c)
    BY <1>1, <1>2, <1>3, <2>3
  <2> QED
    BY <2>4 DEF OnCourse, c, N
<1>5. CASE k > Len(b)
  <2>1. First(c, k) \subseteq First(b, k) \cup {x}
    <3> SUFFICES ASSUME NEW m \in 1..Len(c), m <= k
                 PROVE  c[m] \in First(b, k) \cup {x}
      BY DEF First
    <3>1. m \in 1..Len(b) \/ m = Len(b) + 1
      BY <1>1
    <3>2. CASE m \in 1..Len(b)
      <4>1. c[m] = b[m]
        BY <1>1, <3>2
      <4> QED
        BY <3>2, <4>1 DEF First
    <3>3. CASE m = Len(b) + 1
      BY <1>1, <3>3
    <3> QED
      BY <3>1, <3>2, <3>3
  <2>2. N \subseteq M \cup {x}
    BY <2>1 DEF Missed
  <2>3. Cardinality(N) <= Cardinality(M) + 1
    <3> HIDE DEF M, N
    <3> QED
      BY <1>2, <2>2, AtMostOneMore
  <2> HIDE DEF M, N
  <2>4. Cardinality(N) <= e /\ Cardinality(N) + k <= e + Len(c)
    BY <1>1, <1>2, <1>3, <1>5, <2>3
  <2> QED
    BY <2>4 DEF OnCourse, c, N
<1> QED
  BY <1>1, <1>4, <1>5

\* What is left of a book without its nth order.
LEMMA RemoveAtIs ==
  ASSUME NEW b \in Seq(Order), NEW n \in 1..Len(b)
  PROVE  /\ RemoveAt(b, n) \in Seq(Order) /\ Len(RemoveAt(b, n)) = Len(b) - 1
         /\ \A m \in 1..(Len(b) - 1) :
              RemoveAt(b, n)[m] = IF m < n THEN b[m] ELSE b[m + 1]
<1> DEFINE u == SubSeq(b, 1, n - 1)
           v == SubSeq(b, n + 1, Len(b))
<1>1. /\ Len(b) \in Nat /\ \A m \in 1..Len(b) : b[m] \in Order
      /\ n \in Nat /\ n >= 1 /\ n <= Len(b)
  BY LenProperties, ElementOfSeq
<1>2. u \in Seq(Order) /\ Len(u) = n - 1 /\ \A m \in 1..(n - 1) : u[m] = b[m]
  <2>1. /\ u \in Seq(Order) /\ Len(u) = IF 1 <= n - 1 THEN n - 1 - 1 + 1 ELSE 0
        /\ \A m \in 1..(n - 1 - 1 + 1) : u[m] = b[1 + m - 1]
    <3>1. 1 \in Int /\ n - 1 \in Int /\ \A m \in 1..(n - 1) : b[m] \in Order
      BY <1>1
    <3> HIDE DEF u
    <3> QED
      BY <3>1, SubSeqProperties DEF u
  <2> HIDE DEF u
  <2> QED
    BY <1>1, <2>1
<1>3. /\ v \in Seq(Order) /\ Len(v) = Len(b) - n
      /\ \A m \in 1..(Len(b) - n) : v[m] = b[n + m]
  <2>1. /\ v \in Seq(Order)
        /\ Len(v) = IF n + 1 <= Len(b) THEN Len(b) - (n + 1) + 1 ELSE 0
        /\ \A m \in 1..(Len(b) - (n + 1) + 1) : v[m] = b[n + 1 + m - 1]
    <3>1. n + 1 \in Int /\ Len(b) \in Int /\ \A m \in (n + 1)..Len(b) : b[m] \in Order
      BY <1>1
    <3> HIDE DEF v
    <3> QED
      BY <3>1, SubSeqProperties DEF v
  <2>2. Len(b) - (n + 1) + 1 = Len(b) - n
    BY <1>1
  <2> HIDE DEF v
  <2>3. Len(v) = Len(b) - n
    BY <1>1, <2>1
  <2>4. ASSUME NEW m \in 1..(Len(b) - n) PROVE v[m] = b[n + m]
    <3>1. m \in 1..(Len(b) - (n + 1) + 1) /\ n + 1 + m - 1 = n + m
      BY <1>1, <2>2
    <3> QED
      BY <2>1, <3>1
  <2> QED
    BY <2>1, <2>3, <2>4
<1>4. RemoveAt(b, n) = u \o v
  BY DEF RemoveAt
<1> HIDE DEF u, v
<1>5. /\ u \o v \in Seq(Order) /\ Len(u \o v) = Len(u) + Len(v)
      /\ \A m \in 1..(Len(u) + Len(v)) :
           (u \o v)[m] = IF m <= Len(u) THEN u[m] ELSE v[m - Len(u)]
  BY <1>2, <1>3, ConcatProperties
<1>6. Len(u) + Len(v) = Len(b) - 1
  BY <1>1, <1>2, <1>3
<1>7. ASSUME NEW m \in 1..(Len(b) - 1)
      PROVE  (u \o v)[m] = IF m < n THEN b[m] ELSE b[m + 1]
  <2>1. CASE m < n
    BY <1>1, <1>2, <1>5, <1>6, <2>1
  <2>2. CASE ~(m < n)
    <3>1. m - (n - 1) \in 1..(Len(b) - n) /\ n + (m - (n - 1)) = m + 1 /\ ~(m <= n - 1)
      BY <1>1, <2>2
    <3>2. (u \o v)[m] = v[m - (n - 1)]
      BY <1>2, <1>5, <1>6, <3>1
    <3> QED
      BY <1>3, <2>2, <3>1, <3>2
  <2> QED
    BY <2>1, <2>2
<1> QED
  BY <1>4, <1>5, <1>6, <1>7

\* An order that ends.
LEMMA ExpireOnCourse ==
  ASSUME NEW o, NEW b \in Seq(Order), NEW n \in 1..Len(b), NEW e \in Nat, NEW k \in Nat,
         NEW r, OnCourse(o, b, e, k, r)
  PROVE  OnCourse(o, RemoveAt(b, n), e + 1, k, r)
<1> DEFINE c == RemoveAt(b, n)
<1>1. /\ Len(b) \in Nat /\ c \in Seq(Order) /\ Len(c) = Len(b) - 1
      /\ \A m \in 1..(Len(b) - 1) : c[m] = IF m < n THEN b[m] ELSE b[m + 1]
  BY RemoveAtIs, LenProperties
<1> HIDE DEF c
<1> DEFINE M == Missed(o, b, k, r)
           N == Missed(o, c, k, r)
<1>2. /\ IsFiniteSet(M) /\ Cardinality(M) \in Nat
      /\ IsFiniteSet(N) /\ Cardinality(N) \in Nat
  BY <1>1, MissedIsFinite
<1>3. Cardinality(M) <= e /\ Cardinality(M) + k <= e + Len(b)
  BY DEF OnCourse
<1>4. CASE Len(b) <= k
  <2>1. First(c, k) \subseteq First(b, k)
    <3> SUFFICES ASSUME NEW m \in 1..Len(c) PROVE c[m] \in First(b, k)
      BY DEF First
    <3>1. \E j \in 1..Len(b) : c[m] = b[j]
      BY <1>1
    <3>2. \A j \in 1..Len(b) : j <= k
      BY <1>1, <1>4
    <3> QED
      BY <3>1, <3>2 DEF First
  <2>2. N \subseteq M
    BY <2>1 DEF Missed
  <2>3. Cardinality(N) <= Cardinality(M)
    <3> HIDE DEF M, N
    <3> QED
      BY <1>2, <2>2, FS_Subset
  <2> HIDE DEF M, N
  <2>4. Cardinality(N) <= e + 1 /\ Cardinality(N) + k <= e + 1 + Len(c)
    BY <1>1, <1>2, <1>3, <2>3
  <2> QED
    BY <2>4 DEF OnCourse, c, N
<1>5. CASE Len(b) > k
  <2>1. First(c, k) \subseteq First(b, k) \cup {b[k + 1]}
    <3> SUFFICES ASSUME NEW m \in 1..Len(c), m <= k
                 PROVE  c[m] \in First(b, k) \cup {b[k + 1]}
      BY DEF First
    <3>1. \A j \in 1..Len(b) : j <= k => b[j] \in First(b, k)
      BY DEF First
    <3>2. CASE m < n \/ m < k
      <4>1. \E j \in 1..Len(b) : j <= k /\ c[m] = b[j]
        BY <1>1, <3>2
      <4> QED
        BY <3>1, <4>1
    <3>3. CASE ~(m < n) /\ m = k
      BY <1>1, <3>3
    <3> QED
      BY <3>2, <3>3
  <2>2. N \subseteq M \cup {b[k + 1]}
    <3> SUFFICES ASSUME NEW y \in N PROVE y \in M \cup {b[k + 1]}
      OBVIOUS
    <3>1. y \in First(c, k) /\ [region |-> r, order |-> y] \notin ToSet(o)
      BY DEF Missed
    <3> QED
      BY <2>1, <3>1 DEF Missed
  <2>3. Cardinality(N) <= Cardinality(M) + 1
    <3> HIDE DEF M, N
    <3> QED
      BY <1>2, <2>2, AtMostOneMore
  <2> HIDE DEF M, N
  <2>4. Cardinality(N) <= e + 1 /\ Cardinality(N) + k <= e + 1 + Len(c)
    BY <1>1, <1>2, <1>3, <1>5, <2>3
  <2> QED
    BY <2>4 DEF OnCourse, c, N
<1> QED
  BY <1>1, <1>4, <1>5

\* Two sequences joined have what each of them has.
LEMMA JoinHas ==
  ASSUME NEW o \in Seq(Tagged), NEW s \in Seq(Tagged)
  PROVE  ToSet(o) \subseteq ToSet(o \o s) /\ ToSet(s) \subseteq ToSet(o \o s)
<1>1. /\ Len(o) \in Nat /\ DOMAIN o = 1..Len(o) /\ Len(s) \in Nat /\ DOMAIN s = 1..Len(s)
      /\ o \o s \in Seq(Tagged) /\ Len(o \o s) = Len(o) + Len(s)
      /\ DOMAIN (o \o s) = 1..(Len(o) + Len(s))
  BY ConcatProperties, LenProperties
<1>2. \A n \in 1..(Len(o) + Len(s)) :
        (o \o s)[n] = IF n <= Len(o) THEN o[n] ELSE s[n - Len(o)]
  BY ConcatProperties
<1>3. ASSUME NEW n \in DOMAIN o PROVE o[n] \in ToSet(o \o s)
  <2>1. n \in DOMAIN (o \o s) /\ (o \o s)[n] = o[n]
    BY <1>1, <1>2
  <2> QED
    BY <2>1 DEF ToSet
<1>4. ASSUME NEW n \in DOMAIN s PROVE s[n] \in ToSet(o \o s)
  <2>1. /\ Len(o) + n \in DOMAIN (o \o s)
        /\ ~(Len(o) + n <= Len(o)) /\ Len(o) + n - Len(o) = n
    BY <1>1
  <2>2. (o \o s)[Len(o) + n] = s[n]
    BY <1>1, <1>2, <2>1
  <2> QED
    BY <2>1, <2>2 DEF ToSet
<1> QED
  BY <1>3, <1>4 DEF ToSet

\* What a download has only grows, and so does what ended.
LEMMA MissedShrinks ==
  ASSUME NEW o \in Seq(Tagged), NEW s \in Seq(Tagged), NEW b \in Seq(Order),
         NEW e \in Nat, NEW f \in Nat, e <= f, NEW r, FewMissed(o, b, e, r)
  PROVE  FewMissed(o \o s, b, f, r)
<1>1. ToSet(o) \subseteq ToSet(o \o s)
  BY JoinHas
<1>2. Missed(o \o s, b, Len(b), r) \subseteq Missed(o, b, Len(b), r)
  BY <1>1 DEF Missed
<1>3. Cardinality(Missed(o \o s, b, Len(b), r)) <= Cardinality(Missed(o, b, Len(b), r))
  BY <1>2, MissedIsFinite, LenProperties, FS_Subset
<1> QED
  BY <1>3, MissedIsFinite, LenProperties DEF FewMissed

\* A page of the book as it is.
LEMMA PageIs ==
  ASSUME NEW b \in Seq(Order), NEW p \in Nat \ {0}, p <= PagesOf(b), NEW k \in Nat,
         k = (p - 1) * PageSize
  PROVE  /\ k <= Len(b) /\ k + PageSize = p * PageSize
         /\ \E n \in k..Len(b) :
              /\ PageOf(b, p) = SubSeq(b, k + 1, n)
              /\ n = IF p * PageSize < Len(b) THEN p * PageSize ELSE Len(b)
<1>1. PageSize \in Nat \ {0} /\ Len(b) \in Nat
  BY OrderAssumption, LenProperties
<1>2. k + PageSize = p * PageSize
  BY <1>1
<1>3. k <= Len(b)
  <2>1. CASE p = 1
    BY <1>1, <2>1
  <2>2. CASE p # 1
    <3>1. p - 1 \in Nat \ {0} /\ p - 1 < PagesOf(b)
      BY <2>2, PagesFit
    <3> QED
      BY <1>1, <3>1, PagesFit
  <2> QED
    BY <2>1, <2>2
<1> DEFINE n == IF p * PageSize < Len(b) THEN p * PageSize ELSE Len(b)
<1>4. n \in k..Len(b)
  BY <1>1, <1>2, <1>3
<1>5. PageOf(b, p) = SubSeq(b, k + 1, n)
  BY DEF PageOf
<1> HIDE DEF n
<1> QED
  BY <1>2, <1>3, <1>4, <1>5 DEF n

\* A page more: nothing of it is missed, and after the last one only what was
\* missed before it.
LEMMA FetchOnCourse ==
  ASSUME NEW o \in Seq(Tagged), NEW b \in Seq(Order), NEW e \in Nat,
         NEW p \in Nat \ {0}, p <= PagesOf(b), NEW r \in 1..Regions,
         OnCourse(o, b, e, (p - 1) * PageSize, r)
  PROVE  /\ InRegion(PageOf(b, p), r) \in Seq(Tagged)
         /\ p < PagesOf(b) =>
              OnCourse(o \o InRegion(PageOf(b, p), r), b, e, p * PageSize, r)
         /\ p = PagesOf(b) => FewMissed(o \o InRegion(PageOf(b, p), r), b, e, r)
<1> DEFINE k == (p - 1) * PageSize
           l == p * PageSize
           g == PageOf(b, p)
           s == InRegion(g, r)
           M == Missed(o, b, k, r)
<1>1. /\ PageSize \in Nat \ {0} /\ Len(b) \in Nat /\ k \in Nat /\ l \in Nat
      /\ \A m \in 1..Len(b) : b[m] \in Order
  BY OrderAssumption, LenProperties, ElementOfSeq
<1>2. PICK n \in k..Len(b) :
        g = SubSeq(b, k + 1, n) /\ n = IF l < Len(b) THEN l ELSE Len(b)
  <2>1. \A q \in Nat : q = k => \E n \in q..Len(b) :
              /\ PageOf(b, p) = SubSeq(b, q + 1, n)
              /\ n = IF p * PageSize < Len(b) THEN p * PageSize ELSE Len(b)
    BY PageIs
  <2> QED
    BY <1>1, <2>1
<1>3. /\ p < PagesOf(b) => l < Len(b)
      /\ p = PagesOf(b) => l >= Len(b)
  BY PagesFit
<1> HIDE DEF k, l, g, s, M
<1>4. /\ g \in Seq(Order) /\ Len(g) = n - k
      /\ \A m \in 1..(n - k) : g[m] = b[k + m]
  <2> DEFINE v == SubSeq(b, k + 1, n)
  <2> HIDE DEF v
  <2>0. /\ v \in Seq(Order)
        /\ Len(v) = IF k + 1 <= n THEN n - (k + 1) + 1 ELSE 0
        /\ \A m \in 1..(n - (k + 1) + 1) : v[m] = b[k + 1 + m - 1]
    <3>1. k + 1 \in Int /\ n \in Int /\ \A m \in (k + 1)..n : b[m] \in Order
      BY <1>1
    <3> QED
      BY <3>1, SubSeqProperties DEF v
  <2>1. /\ g \in Seq(Order)
        /\ Len(g) = IF k + 1 <= n THEN n - (k + 1) + 1 ELSE 0
        /\ \A m \in 1..(n - (k + 1) + 1) : g[m] = b[k + 1 + m - 1]
    <3>1. g = v
      BY <1>2 DEF v
    <3> QED
      BY <2>0, <3>1
  <2>2. Len(g) = n - k
    BY <1>1, <2>1
  <2>3. ASSUME NEW m \in 1..(n - k) PROVE g[m] = b[k + m]
    <3>1. m \in 1..(n - (k + 1) + 1) /\ k + 1 + m - 1 = k + m
      BY <1>1
    <3> QED
      BY <2>1, <3>1
  <2> QED
    BY <2>1, <2>2, <2>3
<1>5. s \in Seq(Tagged) /\ Len(s) = n - k
  BY <1>4, InRegionIs DEF s
<1>6. \A m \in 1..(n - k) : s[m] = [region |-> r, order |-> b[k + m]]
  <2>1. \A m \in 1..Len(g) : s[m] = [region |-> r, order |-> g[m]]
    BY <1>4, InRegionIs DEF s
  <2> QED
    BY <1>4, <2>1
<1>7. \A m \in (k + 1)..n : [region |-> r, order |-> b[m]] \in ToSet(o \o s)
  <2> TAKE m \in (k + 1)..n
  <2>1. m - k \in 1..(n - k) /\ k + (m - k) = m
    BY <1>1
  <2>2. s[m - k] = [region |-> r, order |-> b[m]] /\ m - k \in DOMAIN s
    BY <1>5, <1>6, <2>1, LenProperties
  <2>3. [region |-> r, order |-> b[m]] \in ToSet(s)
    BY <2>2 DEF ToSet
  <2> QED
    BY <1>5, <2>3, JoinHas
<1>8. ASSUME NEW j \in Nat, \A m \in 1..Len(b) : m <= j => m <= n
      PROVE  Missed(o \o s, b, j, r) \subseteq M
  <2>1. ToSet(o) \subseteq ToSet(o \o s)
    BY <1>5, JoinHas
  <2> SUFFICES ASSUME NEW m \in 1..Len(b), m <= j,
                      [region |-> r, order |-> b[m]] \notin ToSet(o \o s)
               PROVE  b[m] \in M
    BY DEF Missed, First
  <2>2. m <= n /\ m \in Nat
    BY <1>8
  <2>3. m <= k
    BY <1>1, <1>7, <2>2
  <2> QED
    BY <2>1, <2>3 DEF M, Missed, First
<1>9. Cardinality(M) <= e /\ Cardinality(M) + k <= e + Len(b)
  BY DEF OnCourse, M, k
<1>10. IsFiniteSet(M) /\ Cardinality(M) \in Nat
  BY <1>1, MissedIsFinite DEF M
<1>11. ASSUME p < PagesOf(b) PROVE OnCourse(o \o s, b, e, l, r)
  <2>1. n = l /\ l < Len(b)
    BY <1>1, <1>2, <1>3, <1>11
  <2>2. Missed(o \o s, b, l, r) \subseteq M
    BY <1>1, <1>8, <2>1
  <2>3. Cardinality(Missed(o \o s, b, l, r)) <= Cardinality(M)
    BY <1>10, <2>2, FS_Subset
  <2>4. Cardinality(Missed(o \o s, b, l, r)) \in Nat
    BY <1>1, MissedIsFinite
  <2> QED
    BY <1>1, <1>9, <1>10, <2>1, <2>3, <2>4 DEF OnCourse
<1>12. ASSUME p = PagesOf(b) PROVE FewMissed(o \o s, b, e, r)
  <2>1. n = Len(b)
    BY <1>1, <1>2, <1>3, <1>12
  <2>2. Missed(o \o s, b, Len(b), r) \subseteq M
    BY <1>1, <1>8, <2>1
  <2>3. Cardinality(Missed(o \o s, b, Len(b), r)) <= Cardinality(M)
    BY <1>10, <2>2, FS_Subset
  <2>4. Cardinality(Missed(o \o s, b, Len(b), r)) \in Nat
    BY <1>1, MissedIsFinite
  <2> QED
    BY <1>9, <1>10, <2>3, <2>4 DEF FewMissed
<1> QED
  BY <1>5, <1>11, <1>12 DEF s, g, l

-----------------------------------------------------------------------------

\* The types of OrderDump's variables.
OrderTypes ==
  /\ book \in [1..Regions -> Seq(Order)] /\ atLastPage \in [1..Regions -> Seq(Order)]
  /\ expired \in [1..Regions -> Nat] /\ unplaced \subseteq Order
  /\ region \in 1..(Regions + 1) /\ page \in Nat \ {0} /\ pages \in Nat
  /\ orders \in Seq(Tagged)

\* The number of pages is that of the book of which a page was last asked for.
Cursor ==
  /\ page = 1 => pages = 0
  /\ page # 1 /\ region <= Regions => pages = PagesOf(atLastPage[region])
  /\ outcome = "ok" => region > Regions

\* A region is done when no page of it is to come.
Shifted ==
  outcome # "error" =>
    /\ \A r \in 1..Regions :
         r < region \/ (r = region /\ page # 1 /\ page > pages) =>
           FewMissed(orders, atLastPage[r], expired[r], r)
    /\ region <= Regions /\ (page = 1 \/ page <= pages) =>
         OnCourse(orders, book[region], expired[region], (page - 1) * PageSize, region)

ShiftInv == OrderTypes /\ Cursor /\ Shifted

\* The books the ESI starts with are sequences of orders.
LEMMA BooksAreSeqs == \A b \in Books : b \in Seq(Order)
<1> TAKE b \in Books
<1>1. b \in Seq(UNION {ToSet(c) : c \in Books})
  BY OrderAssumption
<1>2. /\ Len(b) \in Nat /\ b \in [1..Len(b) -> UNION {ToSet(c) : c \in Books}]
  BY <1>1, LenProperties
<1>3. b \in [1..Len(b) -> Order]
  BY <1>2 DEF Order
<1> QED
  BY <1>2, <1>3

\* At the beginning of a region nothing of it is behind the cursor.
LEMMA StartsOnCourse ==
  ASSUME NEW o, NEW b \in Seq(Order), NEW e \in Nat, NEW r
  PROVE  OnCourse(o, b, e, (1 - 1) * PageSize, r)
<1>1. PageSize \in Nat /\ (1 - 1) * PageSize = 0 /\ Len(b) \in Nat
  BY OrderAssumption, LenProperties
<1>2. Missed(o, b, 0, r) = {}
  BY <1>1 DEF Missed, First
<1>3. Cardinality(Missed(o, b, 0, r)) = 0
  BY <1>2, FS_EmptySet
<1> HIDE DEF Missed
<1> QED
  BY <1>1, <1>3 DEF OnCourse

\* No page is asked for yet.
LEMMA InitShift == OrderInit => ShiftInv
<1> SUFFICES ASSUME OrderInit PROVE ShiftInv
  OBVIOUS
<1>1. OrderTypes
  <2>1. book \in [1..Regions -> Seq(Order)]
    BY BooksAreSeqs DEF OrderInit
  <2>2. Regions \in Nat /\ orders \in Seq(Tagged)
    BY OrderAssumption DEF OrderInit
  <2> QED
    BY <2>1, <2>2 DEF OrderInit, OrderTypes, Order
<1>2. Cursor
  BY DEF OrderInit, Cursor
<1>3. Shifted
  <2>1. ASSUME region <= Regions
        PROVE  OnCourse(orders, book[region], expired[region], (page - 1) * PageSize, region)
    BY <1>1, <2>1, StartsOnCourse DEF OrderInit, OrderTypes
  <2>2. \A r \in 1..Regions : ~(r < region) /\ page = 1
    BY DEF OrderInit
  <2> QED
    BY <2>1, <2>2 DEF Shifted
<1> QED
  BY <1>1, <1>2, <1>3 DEF ShiftInv

\* An order placed: of the region being downloaded, or of another one.
LEMMA PlaceShift == ShiftInv /\ Place => ShiftInv'
<1> SUFFICES ASSUME ShiftInv, Place PROVE ShiftInv'
  OBVIOUS
<1> USE DEF ShiftInv
<1>1. PICK r \in 1..Regions, x \in unplaced :
        book' = [book EXCEPT ![r] = Append(@, x)] /\ unplaced' = unplaced \ {x}
  BY DEF Place
<1>2. UNCHANGED <<expired, region, page, pages, outcome, orders, atLastPage>>
  BY DEF Place
<1>3. x \in Order /\ book[r] \in Seq(Order)
  BY DEF OrderTypes
<1>4. OrderTypes'
  <2>1. Append(book[r], x) \in Seq(Order)
    BY <1>3, AppendProperties
  <2> QED
    BY <1>1, <1>2, <2>1 DEF OrderTypes
<1>5. Cursor'
  BY <1>2 DEF Cursor
<1>6. Shifted'
  <2> SUFFICES ASSUME outcome # "error", region <= Regions, page = 1 \/ page <= pages
               PROVE  OnCourse(orders, book'[region], expired[region],
                               (page - 1) * PageSize, region)
    BY <1>2 DEF Shifted
  <2>1. OnCourse(orders, book[region], expired[region], (page - 1) * PageSize, region)
    BY DEF Shifted
  <2>2. CASE region = r
    <3>1. book'[region] = Append(book[region], x)
      BY <1>1, <2>2 DEF OrderTypes
    <3>2. (page - 1) * PageSize \in Nat /\ expired[region] \in Nat
      BY OrderAssumption, <2>2 DEF OrderTypes
    <3> QED
      BY <1>3, <2>1, <2>2, <3>1, <3>2, PlaceOnCourse
  <2>3. CASE region # r
    BY <1>1, <2>1, <2>3 DEF OrderTypes
  <2> QED
    BY <2>2, <2>3
<1> QED
  BY <1>4, <1>5, <1>6

\* An order that ends: of the region being downloaded, or of another one.
LEMMA ExpireShift == ShiftInv /\ Expire => ShiftInv'
<1> SUFFICES ASSUME ShiftInv, Expire PROVE ShiftInv'
  OBVIOUS
<1> USE DEF ShiftInv
<1>0. PICK r \in 1..Regions : \E n \in DOMAIN book[r] :
        /\ expired' = [expired EXCEPT ![r] = @ + 1]
        /\ book' = [book EXCEPT ![r] = RemoveAt(@, n)]
  BY DEF Expire
<1>1. PICK n \in DOMAIN book[r] :
        /\ expired' = [expired EXCEPT ![r] = @ + 1]
        /\ book' = [book EXCEPT ![r] = RemoveAt(@, n)]
  BY <1>0
<1>2. UNCHANGED <<unplaced, region, page, pages, outcome, orders, atLastPage>>
  BY DEF Expire
<1>3. book[r] \in Seq(Order) /\ n \in 1..Len(book[r]) /\ expired[r] \in Nat
  BY LenProperties DEF OrderTypes
<1>4. OrderTypes'
  <2>1. RemoveAt(book[r], n) \in Seq(Order)
    BY <1>3, RemoveAtIs
  <2> QED
    BY <1>1, <1>2, <1>3, <2>1 DEF OrderTypes
<1>5. Cursor'
  BY <1>2 DEF Cursor
<1>6. \A q \in 1..Regions : expired[q] \in Nat /\ expired'[q] \in Nat /\ expired[q] <= expired'[q]
  BY <1>1, <1>3 DEF OrderTypes
<1>7. Shifted'
  <2>1. ASSUME outcome # "error", NEW q \in 1..Regions,
               q < region \/ (q = region /\ page # 1 /\ page > pages)
        PROVE  FewMissed(orders, atLastPage[q], expired'[q], q)
    <3>1. FewMissed(orders, atLastPage[q], expired[q], q)
      BY <2>1 DEF Shifted
    <3>2. Cardinality(Missed(orders, atLastPage[q], Len(atLastPage[q]), q)) \in Nat
      BY MissedIsFinite, LenProperties DEF OrderTypes
    <3> QED
      BY <1>6, <3>1, <3>2 DEF FewMissed
  <2>2. ASSUME outcome # "error", region <= Regions, page = 1 \/ page <= pages
        PROVE  OnCourse(orders, book'[region], expired'[region],
                        (page - 1) * PageSize, region)
    <3>1. OnCourse(orders, book[region], expired[region], (page - 1) * PageSize, region)
      BY <2>2 DEF Shifted
    <3>2. CASE region = r
      <4>1. book'[region] = RemoveAt(book[region], n) /\ expired'[region] = expired[region] + 1
        BY <1>1, <3>2 DEF OrderTypes
      <4>2. (page - 1) * PageSize \in Nat
        BY OrderAssumption DEF OrderTypes
      <4> QED
        BY <1>3, <3>1, <3>2, <4>1, <4>2, ExpireOnCourse
    <3>3. CASE region # r
      BY <1>1, <3>1, <3>3 DEF OrderTypes
    <3> QED
      BY <3>2, <3>3
  <2> QED
    BY <1>2, <2>1, <2>2 DEF Shifted
<1> QED
  BY <1>4, <1>5, <1>7

\* A page moves the cursor, or is the last one and ends the region.
LEMMA FetchShift == ShiftInv /\ FetchPage => ShiftInv'
<1> SUFFICES ASSUME ShiftInv, FetchPage PROVE ShiftInv'
  OBVIOUS
<1> USE DEF ShiftInv
<1> DEFINE b == book[region]
           s == InRegion(PageOf(b, page), region)
<1>1. /\ outcome = "none" /\ region \in 1..Regions /\ page <= PagesOf(b)
      /\ (page = 1 \/ page <= pages)
      /\ orders' = orders \o s /\ pages' = PagesOf(b) /\ page' = page + 1
      /\ atLastPage' = [atLastPage EXCEPT ![region] = b]
      /\ UNCHANGED <<book, unplaced, expired, region, outcome>>
  BY DEF FetchPage, MorePages, OrderTypes
<1>2. /\ b \in Seq(Order) /\ PagesOf(b) \in Nat \ {0} /\ page \in Nat \ {0}
      /\ expired[region] \in Nat /\ orders \in Seq(Tagged)
  BY <1>1, PagesFit DEF OrderTypes
<1>3. OnCourse(orders, b, expired[region], (page - 1) * PageSize, region)
  BY <1>1 DEF Shifted
<1>4. /\ s \in Seq(Tagged)
      /\ page < PagesOf(b) => OnCourse(orders', b, expired[region], page * PageSize, region)
      /\ page = PagesOf(b) => FewMissed(orders', b, expired[region], region)
  BY <1>1, <1>2, <1>3, FetchOnCourse
<1> HIDE DEF s
<1>5. OrderTypes'
  BY <1>1, <1>2, <1>4, ConcatProperties DEF OrderTypes
<1>6. atLastPage'[region] = b
  BY <1>1 DEF OrderTypes
<1>7. Cursor'
  BY <1>1, <1>2, <1>6 DEF Cursor
<1>8. Shifted'
  <2>1. ASSUME NEW r \in 1..Regions, r < region
        PROVE  FewMissed(orders', atLastPage'[r], expired'[r], r)
    <3>1. FewMissed(orders, atLastPage[r], expired[r], r)
      BY <1>1, <2>1 DEF Shifted
    <3>2. atLastPage'[r] = atLastPage[r] /\ expired'[r] = expired[r]
      BY <1>1, <2>1 DEF OrderTypes
    <3>3. atLastPage[r] \in Seq(Order) /\ expired[r] \in Nat /\ expired[r] <= expired[r]
      BY DEF OrderTypes
    <3> QED
      BY <1>1, <1>2, <1>4, <3>1, <3>2, <3>3, MissedShrinks
  <2>2. ASSUME page' > pages'
        PROVE  FewMissed(orders', atLastPage'[region], expired'[region], region)
    <3>1. page = PagesOf(b)
      BY <1>1, <1>2, <2>2
    <3> QED
      BY <1>1, <1>4, <1>6, <3>1
  <2>3. ASSUME page' <= pages'
        PROVE  OnCourse(orders', book'[region], expired'[region],
                        (page' - 1) * PageSize, region)
    <3>1. page < PagesOf(b) /\ page' - 1 = page
      BY <1>1, <1>2, <2>3
    <3> QED
      BY <1>1, <1>4, <3>1
  <2>4. page' # 1
    BY <1>1, <1>2
  <2> QED
    BY <1>1, <2>1, <2>2, <2>3, <2>4 DEF Shifted
<1> QED
  BY <1>5, <1>7, <1>8

\* The cursor moves to the first page of the next region.
LEMMA NextRegionShift == ShiftInv /\ NextRegion => ShiftInv'
<1> SUFFICES ASSUME ShiftInv, NextRegion PROVE ShiftInv'
  OBVIOUS
<1> USE DEF ShiftInv
<1>1. /\ outcome = "none" /\ region \in 1..Regions /\ page # 1 /\ page > pages
      /\ region' = region + 1 /\ page' = 1 /\ pages' = 0 /\ region' \in 1..(Regions + 1)
      /\ UNCHANGED <<book, unplaced, expired, outcome, orders, atLastPage>>
  <2>1. /\ outcome = "none" /\ region <= Regions /\ ~(page <= pages \/ page = 1)
        /\ region' = region + 1 /\ page' = 1 /\ pages' = 0
        /\ UNCHANGED <<book, unplaced, expired, outcome, orders, atLastPage>>
    BY DEF NextRegion, MorePages
  <2>2. region \in 1..(Regions + 1) /\ page \in Nat /\ pages \in Nat /\ Regions \in Nat
    BY OrderAssumption DEF OrderTypes
  <2>3. region \in 1..Regions /\ region + 1 \in 1..(Regions + 1) /\ page > pages
    BY <2>1, <2>2
  <2> QED
    BY <2>1, <2>3
<1>2. OrderTypes'
  BY <1>1 DEF OrderTypes
<1>3. Cursor'
  BY <1>1 DEF Cursor
<1>4. Shifted'
  <2>1. ASSUME NEW r \in 1..Regions, r < region'
        PROVE  FewMissed(orders, atLastPage[r], expired[r], r)
    <3>1. r < region \/ r = region
      BY <1>1, <2>1
    <3> QED
      BY <1>1, <3>1 DEF Shifted
  <2>2. ASSUME region' <= Regions
        PROVE  OnCourse(orders, book[region'], expired[region'], (page' - 1) * PageSize, region')
    <3>1. book[region'] \in Seq(Order) /\ expired[region'] \in Nat
      BY <1>1, <2>2 DEF OrderTypes
    <3> QED
      BY <1>1, <3>1, StartsOnCourse
  <2> QED
    BY <1>1, <2>1, <2>2 DEF Shifted
<1> QED
  BY <1>2, <1>3, <1>4

\* Every step keeps the invariant.
LEMMA NextShift == ShiftInv /\ [OrderNext]_orderVars => ShiftInv'
<1> SUFFICES ASSUME ShiftInv, [OrderNext]_orderVars PROVE ShiftInv'
  OBVIOUS
<1>1. CASE FailPage
  <2>1. orders' \in Seq(Tagged)
    BY <1>1 DEF FailPage
  <2> QED
    BY <1>1, <2>1 DEF FailPage, ShiftInv, OrderTypes, Cursor, Shifted
<1>2. CASE ReturnOrders
  BY <1>2 DEF ReturnOrders, ShiftInv, OrderTypes, Cursor, Shifted
<1>3. CASE UNCHANGED orderVars
  BY <1>3 DEF orderVars, ShiftInv, OrderTypes, Cursor, Shifted
<1> QED
  BY <1>1, <1>2, <1>3, PlaceShift, ExpireShift, FetchShift, NextRegionShift
     DEF OrderNext, OrderStep

\* When the download returns, every region is done.
LEMMA ShiftMeans == ShiftInv => MissesOnlyShifted
<1> SUFFICES ASSUME ShiftInv, outcome = "ok", NEW r \in 1..Regions
             PROVE  Cardinality(ToSet(InRegion(atLastPage[r], r)) \ ToSet(orders)) <= expired[r]
  BY DEF MissesOnlyShifted
<1> DEFINE b == atLastPage[r]
           M == Missed(orders, b, Len(b), r)
           U == ToSet(InRegion(b, r)) \ ToSet(orders)
<1>1. r < region /\ b \in Seq(Order) /\ expired[r] \in Nat
  BY OrderAssumption DEF ShiftInv, OrderTypes, Cursor
<1>2. Cardinality(M) <= expired[r] /\ IsFiniteSet(M) /\ Cardinality(M) \in Nat
  BY <1>1, MissedIsFinite, LenProperties DEF ShiftInv, Shifted, FewMissed
<1>3. U = {[region |-> r, order |-> x] : x \in M}
  <2>1. DOMAIN b = 1..Len(b) /\ Len(b) \in Nat
    BY <1>1, LenProperties
  <2>2. ToSet(InRegion(b, r)) = {[region |-> r, order |-> x] : x \in First(b, Len(b))}
    <3> HIDE DEF b
    <3>1. InRegion(b, r) = [n \in 1..Len(b) |-> [region |-> r, order |-> b[n]]]
      BY <2>1 DEF InRegion
    <3>2. ToSet(InRegion(b, r)) = {[region |-> r, order |-> b[n]] : n \in 1..Len(b)}
      BY <3>1 DEF ToSet
    <3>3. First(b, Len(b)) = {b[n] : n \in 1..Len(b)}
      BY <2>1 DEF First
    <3> QED
      BY <3>2, <3>3
  <2> HIDE DEF b
  <2> QED
    BY <2>2 DEF Missed
<1> HIDE DEF U, M
<1>4. Cardinality(U) <= Cardinality(M) /\ IsFiniteSet(U)
  <2>1. [x \in M |-> [region |-> r, order |-> x]] \in Surjection(M, U)
    BY <1>3 DEF Surjection
  <2> QED
    BY <1>2, <2>1, FS_Surjection
<1>5. Cardinality(U) \in Nat
  BY <1>4, FS_CardinalityType
<1> QED
  BY <1>1, <1>2, <1>4, <1>5 DEF U

\* Of the orders a region had when its last page was asked for, a download that
\* returns misses no more than ended in that region meanwhile, for any books,
\* pages and players (DownloadOrderDump, order_download_universe).
THEOREM FewAreMissed == OrderSpec => []MissesOnlyShifted
  BY InitShift, NextShift, ShiftMeans, PTL DEF OrderSpec

-----------------------------------------------------------------------------
\* The orders of the first m regions.
Whole(a, m) == FlattenSeq([r \in 1..m |-> InRegion(a[r], r)])

\* How many orders of a book the pages behind the cursor had.
Reached(b) ==
  IF (page - 1) * PageSize <= Len(b) THEN (page - 1) * PageSize ELSE Len(b)

\* The book since it was last asked for: orders were added to its end.
Grown(r) ==
  /\ Len(atLastPage[r]) <= Len(book[r])
  /\ \A n \in 1..Len(atLastPage[r]) : book[r][n] = atLastPage[r][n]

\* No order ended during the download.
NoneEnded == \A r \in 1..Regions : expired[r] = 0

\* The regions before the cursor whole, and of its region the pages it passed.
Got ==
  IF region <= Regions
  THEN LET b == atLastPage[region]
       IN  Whole(atLastPage, region - 1) \o InRegion(SubSeq(b, 1, Reached(b)), region)
  ELSE Whole(atLastPage, Regions)

\* While no order ends the download has all that the cursor passed.
Complete ==
  outcome # "error" /\ NoneEnded =>
    orders = Got /\ \A r \in 1..Regions : Grown(r)

CompleteInv == OrderTypes /\ Cursor /\ Complete

\* A region more goes to the end of the dump.
LEMMA WholeIs ==
  ASSUME NEW a \in [1..Regions -> Seq(Order)], NEW m \in 0..Regions
  PROVE  /\ Whole(a, m) \in Seq(Tagged)
         /\ Whole(a, 0) = <<>>
         /\ m < Regions => Whole(a, m + 1) = Whole(a, m) \o InRegion(a[m + 1], m + 1)
<1>1. Regions \in Nat /\ m \in Nat
  BY OrderAssumption
<1>2. \A r \in 1..Regions : InRegion(a[r], r) \in Seq(Tagged)
  BY InRegionIs
<1> DEFINE s == [r \in 1..m |-> InRegion(a[r], r)]
<1>3. s \in Seq(Seq(Tagged)) /\ Len(s) = m
  BY <1>1, <1>2
<1>4. Whole(a, 0) = <<>>
  <2> DEFINE z == [r \in 1..0 |-> InRegion(a[r], r)]
  <2>1. z = <<>>
    OBVIOUS
  <2>2. Whole(a, 0) = FlattenSeq(z)
    BY DEF Whole
  <2> HIDE DEF z
  <2> QED
    BY <2>1, <2>2 DEF FlattenSeq
<1>5. Whole(a, m) \in Seq(Tagged)
  <2> HIDE DEF s
  <2>1. <<>> \in Seq(Tagged)
    OBVIOUS
  <2> QED
    BY <1>3, <2>1, FlattenLast DEF Whole, s
<1>6. ASSUME m < Regions
      PROVE  Whole(a, m + 1) = Whole(a, m) \o InRegion(a[m + 1], m + 1)
  <2> DEFINE x == InRegion(a[m + 1], m + 1)
             t == [r \in 1..(m + 1) |-> InRegion(a[r], r)]
  <2>1. x \in Seq(Tagged)
    BY <1>1, <1>2, <1>6
  <2>2. /\ t \in Seq(Seq(Tagged)) /\ Len(t) = m + 1
        /\ t[m + 1] = x /\ \A r \in 1..m : t[r] = s[r]
    BY <1>1, <1>2, <1>6
  <2>3. Whole(a, m) = FlattenSeq(s) /\ Whole(a, m + 1) = FlattenSeq(t)
    BY DEF Whole
  <2> HIDE DEF s, t, x
  <2>4. /\ Append(s, x) \in Seq(Seq(Tagged)) /\ Len(Append(s, x)) = m + 1
        /\ Append(s, x)[m + 1] = x /\ \A r \in 1..m : Append(s, x)[r] = s[r]
    BY <1>3, <2>1, AppendProperties
  <2>5. t = Append(s, x)
    <3>1. \A r \in 1..(m + 1) : t[r] = Append(s, x)[r]
      BY <1>1, <2>2, <2>4
    <3> QED
      BY <2>2, <2>4, <3>1, SeqEqual
  <2> QED
    BY <1>3, <2>1, <2>3, <2>5, FlattenLast DEF x
<1> QED
  BY <1>4, <1>5, <1>6

\* Only the books of the regions that are done matter.
LEMMA WholeAgrees ==
  ASSUME NEW a, NEW c, NEW m \in Nat, \A r \in 1..m : a[r] = c[r]
  PROVE  Whole(a, m) = Whole(c, m)
BY DEF Whole

\* Before its first page nothing of a region is there.
LEMMA NoneBefore ==
  ASSUME NEW b \in Seq(Order), NEW r \in 1..Regions
  PROVE  InRegion(SubSeq(b, 1, 0), r) = <<>>
<1>1. SubSeq(b, 1, 0) = <<>>
  BY SubSeqEmpty
<1> QED
  BY <1>1 DEF InRegion

\* The cursor at the first page of a region, the ones before it whole.
LEMMA StartsWhole ==
  ASSUME NEW a \in [1..Regions -> Seq(Order)], NEW m \in 1..Regions,
         NEW o, o = Whole(a, m - 1)
  PROVE  o = Whole(a, m - 1) \o InRegion(SubSeq(a[m], 1, 0), m)
<1>1. m - 1 \in 0..Regions
  BY OrderAssumption
<1>2. Whole(a, m - 1) \in Seq(Tagged)
  BY <1>1, WholeIs
<1>3. InRegion(SubSeq(a[m], 1, 0), m) = <<>>
  BY NoneBefore
<1> QED
  BY <1>2, <1>3, ConcatEmptySeq

\* The cursor at the first page has passed nothing.
LEMMA ReachedNone ==
  ASSUME NEW b \in Seq(Order), page = 1
  PROVE  Reached(b) = 0
<1>1. (page - 1) * PageSize = 0 /\ Len(b) \in Nat
  BY OrderAssumption, LenProperties
<1> QED
  BY <1>1 DEF Reached

\* Nothing is downloaded and nothing is passed.
LEMMA InitComplete == OrderInit => CompleteInv
<1> SUFFICES ASSUME OrderInit PROVE CompleteInv
  OBVIOUS
<1>1. OrderTypes /\ Cursor
  BY InitShift DEF ShiftInv
<1>2. \A r \in 1..Regions : Grown(r)
  BY <1>1, LenProperties DEF OrderInit, OrderTypes, Grown
<1>3. orders = Got
  <2>1. region = 1 /\ page = 1 /\ orders = <<>> /\ Regions \in Nat
    BY OrderAssumption DEF OrderInit
  <2>2. Whole(atLastPage, 0) = <<>>
    BY <2>1, <1>1, WholeIs DEF OrderTypes
  <2>3. CASE Regions = 0
    BY <2>1, <2>2, <2>3 DEF Got
  <2>4. CASE Regions # 0
    <3>1. region \in 1..Regions /\ region - 1 = 0
      BY <2>1, <2>4
    <3>2. atLastPage[region] \in Seq(Order)
      BY <1>1, <3>1 DEF OrderTypes
    <3>3. Reached(atLastPage[region]) = 0
      BY <2>1, <3>2, ReachedNone
    <3>4. orders = Whole(atLastPage, region - 1)
                     \o InRegion(SubSeq(atLastPage[region], 1, 0), region)
      BY <1>1, <2>1, <2>2, <3>1, StartsWhole DEF OrderTypes
    <3> QED
      BY <3>1, <3>3, <3>4 DEF Got
  <2> QED
    BY <2>3, <2>4
<1> QED
  BY <1>1, <1>2, <1>3 DEF CompleteInv, Complete

\* An order placed goes to the end of a book, behind what is downloaded of it.
LEMMA PlaceComplete == CompleteInv /\ Place => Complete'
<1> SUFFICES ASSUME CompleteInv, Place, outcome # "error", NoneEnded
             PROVE  orders' = Got' /\ \A r \in 1..Regions : Grown(r)'
  BY DEF Place, Complete, NoneEnded
<1>1. PICK q \in 1..Regions, x \in unplaced : book' = [book EXCEPT ![q] = Append(@, x)]
  BY DEF Place
<1>2. UNCHANGED <<expired, region, page, pages, outcome, orders, atLastPage>>
  BY DEF Place
<1>3. orders' = Got'
  BY <1>2 DEF CompleteInv, Complete, Got, Reached
<1>4. ASSUME NEW r \in 1..Regions PROVE Grown(r)'
  <2>1. Grown(r)
    BY DEF CompleteInv, Complete
  <2>2. CASE r # q
    BY <1>1, <1>2, <2>1, <2>2 DEF Grown, CompleteInv, OrderTypes
  <2>3. CASE r = q
    <3>1. /\ book'[r] = Append(book[r], x)
          /\ book[r] \in Seq(Order) /\ atLastPage[r] \in Seq(Order)
      BY <1>1, <2>3 DEF CompleteInv, OrderTypes
    <3>2. x \in Order
      BY DEF CompleteInv, OrderTypes
    <3>3. /\ Len(book'[r]) = Len(book[r]) + 1 /\ Len(book[r]) \in Nat
          /\ \A n \in 1..Len(book[r]) : book'[r][n] = book[r][n]
      BY <3>1, <3>2, AppendProperties, LenProperties
    <3>4. Len(atLastPage[r]) \in Nat
      BY <3>1, LenProperties
    <3> QED
      BY <1>2, <2>1, <3>3, <3>4 DEF Grown
  <2> QED
    BY <2>2, <2>3
<1> QED
  BY <1>3, <1>4

\* Once an order ended, nothing more is claimed.
LEMMA ExpireComplete == CompleteInv /\ Expire => Complete'
<1> SUFFICES ASSUME CompleteInv, Expire PROVE ~NoneEnded'
  BY DEF Complete
<1>1. PICK r \in 1..Regions : expired' = [expired EXCEPT ![r] = @ + 1]
  BY DEF Expire
<1>2. expired[r] \in Nat /\ expired'[r] = expired[r] + 1
  BY <1>1 DEF CompleteInv, OrderTypes
<1> QED
  BY <1>2 DEF NoneEnded

\* While no order ends, a page continues where the one before it stopped.
LEMMA FetchComplete == CompleteInv /\ FetchPage => Complete'
<1> SUFFICES ASSUME CompleteInv, FetchPage, NoneEnded
             PROVE  orders' = Got' /\ \A r \in 1..Regions : Grown(r)'
  BY DEF FetchPage, Complete, NoneEnded
<1> DEFINE b == book[region]
           c == atLastPage[region]
           k == (page - 1) * PageSize
           s == InRegion(PageOf(b, page), region)
           before == Whole(atLastPage, region - 1)
<1>1. /\ outcome = "none" /\ region \in 1..Regions /\ page <= PagesOf(b)
      /\ (page = 1 \/ page <= pages)
      /\ orders' = orders \o s /\ page' = page + 1
      /\ atLastPage' = [atLastPage EXCEPT ![region] = b]
      /\ UNCHANGED <<book, expired, region, outcome>>
  BY DEF FetchPage, MorePages, CompleteInv, OrderTypes
<1>2. /\ b \in Seq(Order) /\ c \in Seq(Order) /\ page \in Nat \ {0} /\ Regions \in Nat
      /\ Len(b) \in Nat /\ Len(c) \in Nat /\ PageSize \in Nat \ {0} /\ k \in Nat
  BY <1>1, OrderAssumption, LenProperties DEF CompleteInv, OrderTypes
<1>3. Grown(region) /\ orders = Got
  BY <1>1 DEF CompleteInv, Complete
<1>4. k <= Len(c)
  <2>1. CASE page = 1
    BY <1>2, <2>1
  <2>2. CASE page # 1
    <3>1. page <= PagesOf(c)
      BY <1>1, <2>2 DEF CompleteInv, Cursor
    <3>2. page - 1 \in Nat \ {0} /\ PagesOf(c) \in Nat
      BY <1>2, <2>2, PagesFit
    <3>3. page - 1 < PagesOf(c)
      BY <1>2, <3>1, <3>2
    <3>4. (page - 1) * PageSize < Len(c)
      BY <1>2, <3>2, <3>3, PagesFit
    <3> QED
      BY <1>2, <3>4
  <2> QED
    BY <2>1, <2>2
<1>5. Reached(c) = k
  BY <1>4 DEF Reached
<1>6. PICK n \in k..Len(b) :
        /\ PageOf(b, page) = SubSeq(b, k + 1, n)
        /\ n = IF page * PageSize < Len(b) THEN page * PageSize ELSE Len(b)
  <2>1. \A q \in Nat : q = k => \E n \in q..Len(b) :
              /\ PageOf(b, page) = SubSeq(b, q + 1, n)
              /\ n = IF page * PageSize < Len(b) THEN page * PageSize ELSE Len(b)
    BY <1>1, <1>2, PageIs
  <2> QED
    BY <1>2, <2>1
<1>7. SubSeq(c, 1, k) = SubSeq(b, 1, k)
  <2>1. \A m \in 1..k : c[m] = b[m] /\ c[m] \in Order /\ b[m] \in Order
    BY <1>2, <1>3, <1>4, ElementOfSeq DEF Grown
  <2>2. /\ SubSeq(c, 1, k) \in Seq(Order) /\ Len(SubSeq(c, 1, k)) = k
        /\ \A m \in 1..k : SubSeq(c, 1, k)[m] = c[m]
    BY <1>2, <2>1, SubSeqProperties
  <2>3. /\ SubSeq(b, 1, k) \in Seq(Order) /\ Len(SubSeq(b, 1, k)) = k
        /\ \A m \in 1..k : SubSeq(b, 1, k)[m] = b[m]
    BY <1>2, <2>1, SubSeqProperties
  <2> HIDE DEF b, c, k
  <2> QED
    BY <2>1, <2>2, <2>3, SeqEqual
<1> DEFINE u == InRegion(SubSeq(b, 1, k), region)
           v == InRegion(SubSeq(b, 1, n), region)
<1>8. orders = before \o u
  <2>1. orders = before \o InRegion(SubSeq(c, 1, Reached(c)), region)
    BY <1>1, <1>3 DEF Got
  <2> HIDE DEF before, b, c, k
  <2> QED
    BY <1>5, <1>7, <2>1
<1>9. u \o s = v
  <2>1. k \in 0..Len(b) /\ n \in k..Len(b)
    BY <1>2, <1>6
  <2>2. u \o InRegion(SubSeq(b, k + 1, n), region) = v
    BY <1>1, <1>2, <2>1, InRegionJoins
  <2> QED
    BY <1>6, <2>2
<1>10. before \in Seq(Tagged) /\ u \in Seq(Tagged) /\ s \in Seq(Tagged)
  <2>1. before \in Seq(Tagged)
    <3>1. region - 1 \in 0..Regions
      BY <1>1, <1>2
    <3> QED
      BY <3>1, WholeIs DEF CompleteInv, OrderTypes
  <2>2. SubSeq(b, 1, k) \in Seq(Order) /\ SubSeq(b, k + 1, n) \in Seq(Order)
    <3>1. \A m \in 1..Len(b) : b[m] \in Order
      BY <1>2, ElementOfSeq
    <3> HIDE DEF b, k
    <3>2. (\A m \in 1..k : b[m] \in Order) /\ (\A m \in (k + 1)..n : b[m] \in Order)
      BY <1>2, <3>1
    <3>3. k \in Int /\ k + 1 \in Int /\ n \in Int
      BY <1>2, <1>6
    <3>4. SubSeq(b, 1, k) \in Seq(Order)
      BY <3>2, <3>3, SubSeqProperties
    <3>5. SubSeq(b, k + 1, n) \in Seq(Order)
      BY <3>2, <3>3, SubSeqProperties
    <3> QED
      BY <3>4, <3>5
  <2> QED
    BY <1>1, <1>6, <2>1, <2>2, InRegionIs
<1>11. orders' = before \o v
  <2> HIDE DEF before, u, v, s
  <2>1. (before \o u) \o s = before \o (u \o s)
    BY <1>10, ConcatAssociative
  <2> QED
    BY <1>1, <1>8, <1>9, <2>1
<1>12. /\ atLastPage'[region] = b
       /\ \A r \in 1..Regions : r # region => atLastPage'[r] = atLastPage[r]
  BY <1>1 DEF CompleteInv, OrderTypes
<1>13. before = Whole(atLastPage', region - 1)
  <2>1. region - 1 \in Nat /\ \A r \in 1..(region - 1) : atLastPage[r] = atLastPage'[r]
    BY <1>1, <1>2, <1>12
  <2> QED
    BY <2>1, WholeAgrees
<1>14. Reached(b)' = n
  <2>1. (page' - 1) * PageSize = page * PageSize /\ page * PageSize \in Nat
    BY <1>1, <1>2
  <2>2. b' = b
    BY <1>1
  <2> QED
    BY <1>2, <1>6, <2>1, <2>2 DEF Reached
<1>15. orders' = Got'
  <2>1. Got' = Whole(atLastPage', region - 1)
                 \o InRegion(SubSeq(b, 1, Reached(atLastPage[region])'), region)
    <3>1. region' = region /\ region <= Regions /\ atLastPage'[region] = b
      BY <1>1, <1>2, <1>12
    <3> HIDE DEF b
    <3> QED
      BY <3>1 DEF Got
  <2>2. Reached(atLastPage[region])' = n
    BY <1>1, <1>12, <1>14 DEF Reached
  <2> QED
    BY <1>11, <1>13, <2>1, <2>2
<1>16. ASSUME NEW r \in 1..Regions PROVE Grown(r)'
  <2>1. CASE r = region
    BY <1>1, <1>2, <1>12, <2>1 DEF Grown
  <2>2. CASE r # region
    BY <1>1, <1>12, <2>2 DEF CompleteInv, Complete, Grown
  <2> QED
    BY <2>1, <2>2
<1> QED
  BY <1>15, <1>16

\* Past its last page a region is whole.
LEMMA NextRegionComplete == CompleteInv /\ NextRegion => Complete'
<1> SUFFICES ASSUME CompleteInv, NextRegion, NoneEnded
             PROVE  orders' = Got' /\ \A r \in 1..Regions : Grown(r)'
  BY DEF NextRegion, Complete, NoneEnded
<1> DEFINE c == atLastPage[region]
<1>1. /\ outcome = "none" /\ region \in 1..Regions /\ page # 1 /\ page > pages
      /\ region' = region + 1 /\ page' = 1
      /\ UNCHANGED <<book, expired, outcome, orders, atLastPage>>
  <2>1. /\ outcome = "none" /\ region <= Regions /\ ~(page <= pages \/ page = 1)
        /\ region' = region + 1 /\ page' = 1
        /\ UNCHANGED <<book, expired, outcome, orders, atLastPage>>
    BY DEF NextRegion, MorePages
  <2>2. region \in 1..(Regions + 1) /\ page \in Nat /\ pages \in Nat /\ Regions \in Nat
    BY OrderAssumption DEF CompleteInv, OrderTypes
  <2> QED
    BY <2>1, <2>2
<1>2. /\ c \in Seq(Order) /\ Len(c) \in Nat /\ page \in Nat \ {0} /\ Regions \in Nat
      /\ atLastPage \in [1..Regions -> Seq(Order)]
  BY <1>1, OrderAssumption, LenProperties DEF CompleteInv, OrderTypes
<1>3. (page - 1) * PageSize >= Len(c)
  <2>1. pages = PagesOf(c) /\ PagesOf(c) \in Nat \ {0}
    BY <1>1, <1>2, PagesFit DEF CompleteInv, Cursor
  <2>2. page - 1 \in Nat \ {0} /\ page - 1 >= PagesOf(c)
    BY <1>1, <1>2, <2>1
  <2> QED
    BY <1>2, <2>2, PagesFit
<1>4. Reached(c) = Len(c)
  <2>1. (page - 1) * PageSize \in Nat
    BY <1>2, OrderAssumption
  <2> QED
    BY <1>2, <1>3, <2>1 DEF Reached
<1>5. orders = Whole(atLastPage, region)
  <2>1. orders = Whole(atLastPage, region - 1) \o InRegion(SubSeq(c, 1, Len(c)), region)
    BY <1>1, <1>4 DEF CompleteInv, Complete, Got
  <2>2. SubSeq(c, 1, Len(c)) = c
    BY <1>2, SubSeqFull
  <2>3. region - 1 \in 0..Regions /\ region - 1 < Regions /\ (region - 1) + 1 = region
    BY <1>1, <1>2
  <2>4. Whole(atLastPage, region) = Whole(atLastPage, region - 1) \o InRegion(c, region)
    BY <1>2, <2>3, WholeIs
  <2> QED
    BY <2>1, <2>2, <2>4
<1>6. orders = Got'
  <2>1. CASE region = Regions
    <3>1. ~(region' <= Regions)
      BY <1>1, <1>2, <2>1
    <3> QED
      BY <1>1, <1>5, <2>1, <3>1 DEF Got
  <2>2. CASE region # Regions
    <3>1. region' \in 1..Regions /\ region' - 1 = region
      BY <1>1, <1>2, <2>2
    <3>2. Got' = Whole(atLastPage, region)
                   \o InRegion(SubSeq(atLastPage[region'], 1,
                                      Reached(atLastPage[region])'), region')
      BY <1>1, <3>1 DEF Got
    <3>3. Reached(atLastPage[region])' = 0
      <4>1. atLastPage'[region'] \in Seq(Order) /\ Len(atLastPage'[region']) \in Nat
        BY <1>1, <1>2, <3>1, LenProperties
      <4>2. (page' - 1) * PageSize = 0
        BY <1>1, OrderAssumption
      <4> QED
        BY <4>1, <4>2 DEF Reached
    <3>4. orders = Whole(atLastPage, region' - 1)
                     \o InRegion(SubSeq(atLastPage[region'], 1, 0), region')
      BY <1>2, <1>5, <3>1, StartsWhole
    <3> QED
      BY <3>1, <3>2, <3>3, <3>4
  <2> QED
    BY <2>1, <2>2
<1>7. \A r \in 1..Regions : Grown(r)'
  BY <1>1 DEF CompleteInv, Complete, Grown
<1> QED
  BY <1>1, <1>6, <1>7

\* Every step keeps the invariant.
LEMMA NextComplete == CompleteInv /\ ShiftInv /\ [OrderNext]_orderVars => CompleteInv'
<1> SUFFICES ASSUME CompleteInv, ShiftInv, [OrderNext]_orderVars PROVE CompleteInv'
  OBVIOUS
<1>1. OrderTypes' /\ Cursor'
  BY NextShift DEF ShiftInv
<1>2. CASE FailPage
  BY <1>1, <1>2 DEF FailPage, CompleteInv, Complete
<1>3. CASE ReturnOrders
  BY <1>1, <1>3 DEF ReturnOrders, CompleteInv, Complete, Got, Reached, Grown, NoneEnded
<1>4. CASE UNCHANGED orderVars
  BY <1>1, <1>4 DEF orderVars, CompleteInv, Complete, Got, Reached, Grown, NoneEnded
<1> QED
  BY <1>1, <1>2, <1>3, <1>4, PlaceComplete, ExpireComplete, FetchComplete,
     NextRegionComplete DEF OrderNext, OrderStep, CompleteInv

\* When the download returns, the cursor is past the last region.
LEMMA CompleteMeans == CompleteInv => DumpIsComplete
<1> SUFFICES ASSUME CompleteInv, outcome = "ok", NoneEnded
             PROVE  orders = Whole(atLastPage, Regions)
  BY DEF DumpIsComplete, NoneEnded, Whole
<1>1. ~(region <= Regions)
  BY OrderAssumption DEF CompleteInv, Cursor, OrderTypes
<1> QED
  BY <1>1 DEF CompleteInv, Complete, Got

\* While no order ends, a download that returns has each region as it was when
\* its last page was asked for, in order and once, whatever is placed meanwhile.
THEOREM DumpComplete == OrderSpec => []DumpIsComplete
  BY InitShift, NextShift, InitComplete, NextComplete, CompleteMeans, PTL DEF OrderSpec

-----------------------------------------------------------------------------

\* The days of the histories the ESI answers, and the rows of a download.
Day == UNION {ToSet(days) : days \in Answers}
Row == [market : ToSet(Markets), day : Day \cup {RequestDay}]

\* The rows that the answer for market n leaves, and those of all answers.
KeptAt(n, days) ==
  IF kind = "full" THEN [k \in DOMAIN days |-> [market |-> Markets[n], day |-> days[k]]]
  ELSE IF Contains(days, RequestDay) THEN <<[market |-> Markets[n], day |-> RequestDay]>>
  ELSE <<>>
KeptOf(a) == [n \in DOMAIN a |-> KeptAt(n, a[n])]

\* The types of HistoryDownload's variables.
DownloadTypes ==
  /\ kind \in {"full", "incremental"}
  /\ pc \in {"market", "fetch", "sleep", "done"}
  /\ i \in 0..Len(Markets)
  /\ tempFile \in {"none", "open", "handed"}
  /\ result \in {"none", "ok", "error"}
  /\ answered \in Seq(Seq(Day)) /\ rows \in Seq(Row) /\ dates \in Seq(Day)

\* How far the download is.
Progress ==
  /\ pc = "market" => Len(answered) = i
  /\ pc \in {"fetch", "sleep"} => Len(answered) + 1 = i
  /\ pc = "done" <=> result # "none"
  /\ result = "ok" => Len(answered) = Len(Markets)
  /\ tempFile = "handed" => result = "ok" /\ kind = "full"

\* The rows are those the answers leave, and the dates have their days.
RowsKept ==
  /\ rows = FlattenSeq(KeptOf(answered))
  /\ kind = "full" => \A n \in DOMAIN rows : Contains(dates, rows[n].day)

\* The invariant of HistoryDownload.
DownloadInv == DownloadTypes /\ Progress /\ RowsKept

\* An answer is a sequence of days.
LEMMA AnswersAre == \A days \in Answers : days \in Seq(Day)
BY DownloadAssumption DEF Day

\* The markets are a sequence.
LEMMA MarketsAre ==
  Len(Markets) \in Nat /\ \A n \in 1..Len(Markets) : Markets[n] \in ToSet(Markets)
BY DownloadAssumption, LenProperties, ElementOfSeq

\* An answer leaves rows.
LEMMA KeptAtIs ==
  ASSUME NEW n \in 1..Len(Markets), NEW days \in Seq(Day)
  PROVE  KeptAt(n, days) \in Seq(Row)
<1>1. /\ DOMAIN days = 1..Len(days) /\ Len(days) \in Nat
      /\ \A k \in 1..Len(days) : days[k] \in Day
  BY LenProperties, ElementOfSeq
<1>2. Markets[n] \in ToSet(Markets)
  BY MarketsAre
<1>3. CASE kind = "full"
  <2>1. KeptAt(n, days) = [k \in 1..Len(days) |-> [market |-> Markets[n], day |-> days[k]]]
    BY <1>1, <1>3 DEF KeptAt
  <2>2. \A k \in 1..Len(days) : [market |-> Markets[n], day |-> days[k]] \in Row
    BY <1>1, <1>2 DEF Row
  <2> QED
    BY <1>1, <2>1, <2>2
<1>4. CASE kind # "full"
  <2> DEFINE row == [market |-> Markets[n], day |-> RequestDay]
  <2>1. row \in Row
    BY <1>2 DEF Row
  <2>2. KeptAt(n, days) = <<>> \/ KeptAt(n, days) = <<row>>
    BY <1>4 DEF KeptAt
  <2> HIDE DEF row
  <2>3. <<row>> \in Seq(Row)
    BY <2>1
  <2>4. <<>> \in Seq(Row)
    OBVIOUS
  <2> QED
    BY <2>2, <2>3, <2>4
<1> QED
  BY <1>3, <1>4

\* And each of the answers does.
LEMMA KeptOfIs ==
  ASSUME NEW a \in Seq(Seq(Day)), Len(a) <= Len(Markets)
  PROVE  KeptOf(a) \in Seq(Seq(Row)) /\ Len(KeptOf(a)) = Len(a)
<1>1. DOMAIN a = 1..Len(a) /\ Len(a) \in Nat /\ \A n \in 1..Len(a) : a[n] \in Seq(Day)
  BY LenProperties, ElementOfSeq
<1>2. \A n \in 1..Len(a) : n \in 1..Len(Markets)
  BY <1>1, MarketsAre
<1>3. \A n \in 1..Len(a) : KeptAt(n, a[n]) \in Seq(Row)
  BY <1>1, <1>2, KeptAtIs
<1> QED
  BY <1>1, <1>3 DEF KeptOf

\* The rows of an answer more go to the end.
LEMMA KeptLast ==
  ASSUME NEW a \in Seq(Seq(Day)), NEW days \in Seq(Day), Len(a) + 1 <= Len(Markets)
  PROVE  FlattenSeq(KeptOf(Append(a, days)))
           = FlattenSeq(KeptOf(a)) \o KeptAt(Len(a) + 1, days)
<1> DEFINE N == Len(a)
           x == KeptAt(N + 1, days)
           c == Append(a, days)
<1>1. /\ N \in Nat /\ c \in Seq(Seq(Day)) /\ Len(c) = N + 1 /\ DOMAIN a = 1..N
      /\ DOMAIN c = 1..(N + 1)
      /\ \A n \in 1..N : c[n] = a[n]
      /\ c[N + 1] = days
  BY AppendProperties, LenProperties
<1>2. N + 1 \in 1..Len(Markets) /\ N <= Len(Markets)
  BY <1>1, MarketsAre
<1>3. x \in Seq(Row)
  BY <1>2, KeptAtIs
<1>4. KeptOf(a) \in Seq(Seq(Row)) /\ Len(KeptOf(a)) = N
  BY <1>2, KeptOfIs
<1> HIDE DEF c, x
<1>5. KeptOf(c) \in Seq(Seq(Row)) /\ Len(KeptOf(c)) = N + 1
  BY <1>1, KeptOfIs
<1>6. \A n \in 1..N : KeptOf(c)[n] = KeptOf(a)[n]
  <2>1. \A n \in 1..N : n \in 1..(N + 1)
    BY <1>1
  <2> QED
    BY <1>1, <2>1 DEF KeptOf
<1>7. KeptOf(c)[N + 1] = x
  <2>1. N + 1 \in 1..(N + 1)
    BY <1>1
  <2> QED
    BY <1>1, <2>1 DEF KeptOf, x
<1>8. KeptOf(c) = Append(KeptOf(a), x)
  <2> DEFINE u == KeptOf(c)
             v == KeptOf(a)
  <2> HIDE DEF u, v
  <2>1. /\ Append(v, x) \in Seq(Seq(Row)) /\ Len(Append(v, x)) = N + 1
        /\ Append(v, x)[N + 1] = x /\ \A n \in 1..N : Append(v, x)[n] = v[n]
    BY <1>3, <1>4, AppendProperties DEF v
  <2>2. \A n \in 1..(N + 1) : u[n] = Append(v, x)[n]
    BY <1>1, <1>6, <1>7, <2>1 DEF u, v
  <2>3. u \in Seq(Seq(Row)) /\ Len(u) = N + 1
    BY <1>5 DEF u
  <2>4. u = Append(v, x)
    BY <2>1, <2>2, <2>3, SeqEqual
  <2> QED
    BY <2>4 DEF u, v
<1> QED
  BY <1>3, <1>4, <1>8, FlattenLast DEF c, x

\* The recursion of AddDates, as a property of a function.
AddsDates(f, ds, days, m) ==
  \A n \in 0..m : f[n] = IF n = 0 THEN ds ELSE AddDate(f[n - 1], days[n])

\* The function that AddDates defines by recursion exists.
LEMMA AddDatesLoop ==
  ASSUME NEW ds, NEW days \in Seq(Day)
  PROVE  \E f : AddDates(ds, days) = f[Len(days)] /\ AddsDates(f, ds, days, Len(days))
<1> DEFINE N == Len(days)
           Exists(m) == \E f : f = [n \in 0..m |-> f[n]] /\ AddsDates(f, ds, days, m)
           S == {m \in Nat : Exists(m)}
<1>1. N \in Nat
  OBVIOUS
<1>2. 0 \in S
  <2> DEFINE f == [n \in 0..0 |-> ds]
  <2>1. f = [n \in 0..0 |-> f[n]] /\ AddsDates(f, ds, days, 0)
    BY DEF AddsDates
  <2> HIDE DEF f
  <2>2. Exists(0)
    BY <2>1
  <2> QED
    BY <2>2
<1>3. \A m \in Nat : m \in S => m + 1 \in S
  <2> SUFFICES ASSUME NEW m \in Nat, Exists(m) PROVE Exists(m + 1)
    <3> HIDE DEF Exists
    <3> QED
      OBVIOUS
  <2>1. PICK f : f = [n \in 0..m |-> f[n]] /\ AddsDates(f, ds, days, m)
    OBVIOUS
  <2> DEFINE x == AddDate(f[m], days[m + 1])
             g == [n \in 0..(m + 1) |-> IF n = m + 1 THEN x ELSE f[n]]
  <2> HIDE DEF x
  <2>2. /\ g = [n \in 0..(m + 1) |-> g[n]] /\ g[m + 1] = x
        /\ \A n \in 0..m : g[n] = f[n]
    OBVIOUS
  <2> HIDE DEF g
  <2>3. AddsDates(g, ds, days, m + 1)
    <3> SUFFICES ASSUME NEW n \in 0..(m + 1)
                 PROVE  g[n] = IF n = 0 THEN ds ELSE AddDate(g[n - 1], days[n])
      BY DEF AddsDates
    <3>1. CASE n = m + 1
      <4>1. n # 0 /\ n - 1 = m /\ m \in 0..m
        BY <3>1
      <4>2. g[n - 1] = f[m]
        BY <2>2, <4>1
      <4> QED
        BY <2>2, <3>1, <4>1, <4>2 DEF x
    <3>2. CASE n \in 0..m
      <4>1. n # 0 => n - 1 \in 0..m
        BY <3>2
      <4> QED
        BY <2>1, <2>2, <3>2, <4>1 DEF AddsDates
    <3> QED
      BY <3>1, <3>2
  <2> QED
    BY <2>2, <2>3
<1>4. N \in S
  <2> HIDE DEF S
  <2> QED
    BY <1>1, <1>2, <1>3, NatSets
<1>5. PICK f : f = [n \in 0..N |-> f[n]] /\ AddsDates(f, ds, days, N)
  BY <1>4
<1> DEFINE Loop(h) ==
             h = [n \in 0..N |-> IF n = 0 THEN ds ELSE AddDate(h[n - 1], days[n])]
           with == CHOOSE h : Loop(h)
<1>6. Loop(f)
  BY <1>5 DEF AddsDates
<1>7. Loop(with)
  <2> HIDE DEF Loop
  <2> QED
    BY <1>6
<1>8. AddDates(ds, days) = with[N]
  BY Zenon DEF AddDates
<1>9. AddsDates(with, ds, days, N)
  BY <1>7 DEF AddsDates
<1> QED
  BY <1>8, <1>9

\* A date is added if it is not there, and no other is lost.
LEMMA AddDateAdds ==
  ASSUME NEW ds \in Seq(Day), NEW d \in Day
  PROVE  /\ AddDate(ds, d) \in Seq(Day) /\ Contains(AddDate(ds, d), d)
         /\ \A e : Contains(ds, e) => Contains(AddDate(ds, d), e)
<1>1. CASE Contains(ds, d)
  BY <1>1 DEF AddDate
<1>2. CASE ~Contains(ds, d)
  <2> DEFINE t == Append(ds, d)
  <2>1. /\ t \in Seq(Day) /\ Len(t) = Len(ds) + 1 /\ Len(ds) \in Nat /\ t[Len(ds) + 1] = d
        /\ \A n \in 1..Len(ds) : t[n] = ds[n]
    BY AppendProperties, LenProperties
  <2>2. AddDate(ds, d) = t
    BY <1>2 DEF AddDate
  <2> HIDE DEF t
  <2>3. Contains(t, d)
    <3>1. Len(ds) + 1 \in 1..Len(t)
      BY <2>1
    <3> QED
      BY <2>1, <3>1 DEF Contains
  <2>4. \A e : Contains(ds, e) => Contains(t, e)
    <3> SUFFICES ASSUME NEW e, NEW n \in 1..Len(ds), ds[n] = e PROVE Contains(t, e)
      BY DEF Contains
    <3>1. n \in 1..Len(t) /\ t[n] = e
      BY <2>1
    <3> QED
      BY <3>1 DEF Contains
  <2> QED
    BY <2>1, <2>2, <2>3, <2>4
<1> QED
  BY <1>1, <1>2

\* All dates of an answer are added, and no other is lost.
LEMMA AddDatesAdds ==
  ASSUME NEW ds \in Seq(Day), NEW days \in Seq(Day)
  PROVE  /\ AddDates(ds, days) \in Seq(Day)
         /\ \A e : Contains(ds, e) \/ Contains(days, e) => Contains(AddDates(ds, days), e)
<1> DEFINE N == Len(days)
<1>1. PICK f : AddDates(ds, days) = f[N] /\ AddsDates(f, ds, days, N)
  BY AddDatesLoop
<1> DEFINE Good(m) == /\ f[m] \in Seq(Day)
                      /\ \A e : Contains(ds, e) => Contains(f[m], e)
                      /\ \A n \in 1..m : Contains(f[m], days[n])
           S == {m \in Nat : m <= N => Good(m)}
<1>2. N \in Nat /\ \A n \in 1..N : days[n] \in Day
  BY LenProperties, ElementOfSeq
<1>3. 0 \in S
  <2>1. f[0] = ds
    BY <1>1, <1>2 DEF AddsDates
  <2>2. Good(0)
    BY <2>1
  <2> HIDE DEF Good
  <2> QED
    BY <2>2
<1>4. \A m \in Nat : m \in S => m + 1 \in S
  <2> SUFFICES ASSUME NEW m \in Nat, m + 1 <= N, Good(m) PROVE Good(m + 1)
    <3> HIDE DEF Good
    <3> QED
      BY <1>2
  <2>1. m + 1 \in 1..N /\ m + 1 \in 0..N /\ m + 1 # 0 /\ m + 1 - 1 = m
    BY <1>2
  <2>2. f[m + 1] = AddDate(f[m], days[m + 1])
    BY <1>1, <2>1 DEF AddsDates
  <2>3. /\ f[m + 1] \in Seq(Day) /\ Contains(f[m + 1], days[m + 1])
        /\ \A e : Contains(f[m], e) => Contains(f[m + 1], e)
    <3> DEFINE now == f[m]
               d == days[m + 1]
    <3>1. now \in Seq(Day) /\ d \in Day
      BY <1>2, <2>1
    <3> HIDE DEF Good, now, d
    <3>2. AddDate(now, d) \in Seq(Day) /\ Contains(AddDate(now, d), d)
      BY <3>1, AddDateAdds
    <3>3. \A e : Contains(now, e) => Contains(AddDate(now, d), e)
      BY <3>1, AddDateAdds
    <3>4. AddDate(now, d) = f[m + 1]
      BY <2>2 DEF now, d
    <3> QED
      BY <3>2, <3>3, <3>4, Zenon DEF now, d
  <2>4. \A n \in 1..(m + 1) : n \in 1..m \/ n = m + 1
    OBVIOUS
  <2> QED
    BY <2>3, <2>4
<1>5. Good(N)
  <2>1. N \in S
    <3> HIDE DEF S
    <3> QED
      BY <1>2, <1>3, <1>4, NatSets
  <2> HIDE DEF Good
  <2> QED
    BY <1>2, <2>1
<1> QED
  BY <1>1, <1>5 DEF Contains

\* Sorting keeps the dates.
LEMMA SortedKeeps ==
  ASSUME NEW ds \in Seq(Day), NEW s \in Sorted(ds)
  PROVE  s \in Seq(Day) /\ \A e : Contains(ds, e) => Contains(s, e)
<1>1. /\ DOMAIN ds = 1..Len(ds) /\ Len(ds) \in Nat
      /\ \A n \in 1..Len(ds) : ds[n] \in Day
  BY LenProperties, ElementOfSeq
<1>2. s \in [1..Len(ds) -> ToSet(ds)] /\ ToSet(s) = ToSet(ds)
  BY <1>1 DEF Sorted
<1>3. ToSet(ds) \subseteq Day
  BY <1>1 DEF ToSet
<1>4. s \in Seq(Day) /\ Len(s) = Len(ds) /\ DOMAIN s = 1..Len(s)
  BY <1>1, <1>2, <1>3
<1>5. ASSUME NEW e, Contains(ds, e) PROVE Contains(s, e)
  <2>1. e \in ToSet(ds)
    BY <1>1, <1>5 DEF Contains, ToSet
  <2>2. e \in ToSet(s)
    BY <1>2, <2>1
  <2> QED
    BY <1>4, <2>2 DEF Contains, ToSet
<1> QED
  BY <1>4, <1>5

\* What the program keeps of an answer.
LEMMA KeepIs ==
  ASSUME NEW days \in Seq(Day), i \in 1..Len(Markets), kind \in {"full", "incremental"}
  PROVE  Keep(days) = KeptAt(i, days)
<1>1. CASE kind = "full"
  BY <1>1 DEF Keep, RowsOf, KeptAt
<1>2. CASE kind # "full"
  <2> DEFINE row == [market |-> Markets[i], day |-> RequestDay]
             one == <<RequestDay>>
  <2>1. DOMAIN one = 1..1 /\ one[1] = RequestDay
    OBVIOUS
  <2>2. RowsOf(one) = [n \in 1..1 |-> row]
    <3>1. RowsOf(one) = [n \in 1..1 |-> [market |-> Markets[i], day |-> one[n]]]
      BY <2>1 DEF RowsOf
    <3>2. \A n \in 1..1 : one[n] = RequestDay
      BY <2>1
    <3> HIDE DEF one
    <3> QED
      BY <3>1, <3>2
  <2> HIDE DEF row
  <2>3. [n \in 1..1 |-> row] = <<row>>
    OBVIOUS
  <2> QED
    BY <1>2, <2>2, <2>3 DEF Keep, KeptAt, Wanted, row
<1> QED
  BY <1>1, <1>2

\* What an answer adds: its rows, and its days.
LEMMA DoneKeeps ==
  ASSUME DownloadInv, NEW days \in Seq(Day), pc = "fetch", Done(days)
  PROVE  DownloadInv'
<1> USE DEF DownloadInv
<1>1. /\ pc' = "market" /\ rows' = rows \o Keep(days)
      /\ dates' = IF kind = "full" THEN AddDates(dates, days) ELSE dates
      /\ answered' = Append(answered, days)
      /\ UNCHANGED <<kind, i, tempFile, result>>
  BY DEF Done
<1>2. /\ rows \in Seq(Row) /\ dates \in Seq(Day) /\ answered \in Seq(Seq(Day))
      /\ kind \in {"full", "incremental"} /\ i \in 0..Len(Markets)
      /\ Len(answered) + 1 = i /\ Len(answered) \in Nat /\ Len(rows) \in Nat
      /\ Len(Markets) \in Nat
  BY MarketsAre, LenProperties DEF DownloadTypes, Progress
<1>3. i \in 1..Len(Markets) /\ Len(answered) + 1 <= Len(Markets)
  BY <1>2
<1> DEFINE x == KeptAt(i, days)
<1>4. Keep(days) = x /\ x \in Seq(Row)
  BY <1>2, <1>3, KeepIs, KeptAtIs
<1>5. answered' \in Seq(Seq(Day)) /\ Len(answered') = i
  BY <1>1, <1>2, AppendProperties
<1>6. rows' \in Seq(Row)
  <2> HIDE DEF x
  <2> QED
    BY <1>1, <1>2, <1>4, ConcatProperties
<1>7. kind = "full" => \A e : Contains(dates, e) \/ Contains(days, e) => Contains(dates', e)
  BY <1>1, <1>2, AddDatesAdds
<1>8. dates' \in Seq(Day)
  BY <1>1, <1>2, AddDatesAdds
<1>9. DownloadTypes'
  BY <1>1, <1>5, <1>6, <1>8 DEF DownloadTypes
<1>10. Progress'
  BY <1>1, <1>5 DEF Progress
<1>11. rows' = FlattenSeq(KeptOf(answered))'
  <2>1. FlattenSeq(KeptOf(answered)) = rows
    BY DEF RowsKept
  <2>2. FlattenSeq(KeptOf(Append(answered, days))) = rows \o x
    BY <1>2, <1>3, <2>1, KeptLast
  <2>3. FlattenSeq(KeptOf(answered))' = FlattenSeq(KeptOf(Append(answered, days)))
    BY <1>1 DEF KeptOf, KeptAt
  <2> QED
    BY <1>1, <1>4, <2>2, <2>3
<1>12. ASSUME kind = "full", NEW n \in DOMAIN rows' PROVE Contains(dates', rows'[n].day)
  <2>1. /\ DOMAIN days = 1..Len(days) /\ Len(days) \in Nat
        /\ x = [k \in 1..Len(days) |-> [market |-> Markets[i], day |-> days[k]]]
    BY <1>12, LenProperties DEF KeptAt
  <2>2. Len(x) = Len(days) /\ \A k \in 1..Len(days) : x[k].day = days[k]
    BY <1>4, <2>1
  <2> HIDE DEF x
  <2>3. rows' = rows \o x
    BY <1>1, <1>4
  <2>4. Len(rows') = Len(rows) + Len(days) /\ DOMAIN rows' = 1..Len(rows')
    BY <1>2, <1>4, <2>1, <2>2, <2>3, ConcatProperties, LenProperties
  <2>5. n \in 1..(Len(rows) + Len(days))
    BY <2>4
  <2>6. CASE n <= Len(rows)
    <3>1. n \in 1..Len(rows) /\ DOMAIN rows = 1..Len(rows)
      BY <1>2, <2>5, <2>6, LenProperties
    <3>2. rows'[n] = rows[n]
      BY <1>2, <1>4, <2>3, <3>1, ConcatProperties
    <3>3. Contains(dates, rows[n].day)
      BY <1>12, <3>1 DEF RowsKept
    <3> QED
      BY <1>7, <1>12, <3>2, <3>3
  <2>7. CASE n > Len(rows)
    <3>1. n - Len(rows) \in 1..Len(days)
      BY <1>2, <2>1, <2>5, <2>7
    <3>2. rows'[n] = x[n - Len(rows)]
      <4> DEFINE k == n - Len(rows)
      <4>1. n \in 1..(Len(rows) + Len(x))
        BY <2>2, <2>5
      <4>2. ~(n <= Len(rows))
        BY <1>2, <2>5, <2>7
      <4> QED
        BY <1>2, <1>4, <2>3, <4>1, <4>2, ConcatProperties
    <3>3. Contains(days, days[n - Len(rows)])
      BY <3>1 DEF Contains
    <3> QED
      BY <1>7, <1>12, <2>2, <3>1, <3>2, <3>3
  <2> QED
    BY <1>2, <2>5, <2>6, <2>7
<1>13. RowsKept'
  BY <1>1, <1>11, <1>12 DEF RowsKept
<1> QED
  BY <1>9, <1>10, <1>13

\* The download begins with no row, no date and no answer.
LEMMA DownloadInit == Init => DownloadInv
<1> SUFFICES ASSUME Init PROVE DownloadInv
  OBVIOUS
<1>1. /\ kind \in {"full", "incremental"} /\ pc = "market" /\ i = 0
      /\ tempFile \in {"open", "none"}
      /\ rows = <<>> /\ dates = <<>> /\ answered = <<>> /\ result = "none"
  BY DEF Init
<1>2. KeptOf(<<>>) = <<>>
  BY DEF KeptOf
<1>3. RowsKept
  BY <1>1, <1>2 DEF RowsKept, FlattenSeq
<1> QED
  BY <1>1, <1>3, MarketsAre DEF DownloadInv, DownloadTypes, Progress

\* Every step of the download keeps its invariant.
LEMMA DownloadStep == DownloadInv /\ [Next]_vars => DownloadInv'
<1> SUFFICES ASSUME DownloadInv, [Next]_vars PROVE DownloadInv'
  OBVIOUS
<1> USE DEF DownloadInv
<1>1. ASSUME UNCHANGED <<kind, rows, answered>>, dates' = dates PROVE RowsKept'
  BY <1>1 DEF RowsKept, KeptOf, KeptAt
<1>2. ASSUME Fail, pc # "done" PROVE DownloadInv'
  <2>1. /\ pc' = "done" /\ result' = "error"
        /\ UNCHANGED <<kind, i, tempFile, rows, dates, answered>>
    BY <1>2 DEF Fail
  <2>2. tempFile # "handed"
    BY <1>2 DEF Progress
  <2> QED
    BY <1>1, <2>1, <2>2 DEF DownloadTypes, Progress
<1>3. CASE NextMarket
  <2>1. CASE cancelled /\ Fail
    BY <1>2, <1>3, <2>1 DEF NextMarket
  <2>2. CASE ~(cancelled /\ Fail)
    <3>1. /\ pc = "market" /\ i < Len(Markets) /\ pc' = "fetch" /\ i' = i + 1
          /\ UNCHANGED <<kind, tempFile, rows, dates, result, answered>>
      BY <1>3, <2>2 DEF NextMarket
    <3>2. i' \in 0..Len(Markets)
      BY <3>1, MarketsAre DEF DownloadTypes
    <3> QED
      BY <1>1, <3>1, <3>2 DEF DownloadTypes, Progress
  <2> QED
    BY <2>1, <2>2
<1>4. CASE FetchOk
  BY <1>4, AnswersAre, DoneKeeps DEF FetchOk
<1>5. CASE FetchSkip
  <2>1. <<>> \in Seq(Day)
    OBVIOUS
  <2> QED
    BY <1>5, <2>1, DoneKeeps DEF FetchSkip
<1>6. CASE FetchTransient
  <2>1. /\ pc = "fetch" /\ pc' = "sleep"
        /\ UNCHANGED <<kind, i, tempFile, rows, dates, result, answered>>
    BY <1>6 DEF FetchTransient
  <2> QED
    BY <1>1, <2>1 DEF DownloadTypes, Progress
<1>7. CASE FetchFatal
  BY <1>2, <1>7 DEF FetchFatal
<1>8. CASE Sleep
  <2>1. CASE cancelled /\ Fail
    BY <1>2, <1>8, <2>1 DEF Sleep
  <2>2. CASE ~(cancelled /\ Fail)
    <3>1. /\ pc = "sleep" /\ pc' = "fetch"
          /\ UNCHANGED <<kind, i, tempFile, rows, dates, result, answered>>
      BY <1>8, <2>2 DEF Sleep
    <3> QED
      BY <1>1, <3>1 DEF DownloadTypes, Progress
  <2> QED
    BY <2>1, <2>2
<1>9. CASE Return
  <2>1. /\ pc = "market" /\ i = Len(Markets) /\ pc' = "done" /\ result' = "ok"
        /\ dates' \in Sorted(dates)
        /\ tempFile' = IF kind = "full" THEN "handed" ELSE "none"
        /\ UNCHANGED <<kind, i, rows, answered>>
    BY <1>9 DEF Return
  <2>2. dates' \in Seq(Day) /\ \A e : Contains(dates, e) => Contains(dates', e)
    BY <2>1, SortedKeeps DEF DownloadTypes
  <2>3. RowsKept'
    <3>1. FlattenSeq(KeptOf(answered))' = FlattenSeq(KeptOf(answered))
      BY <2>1 DEF KeptOf, KeptAt
    <3> QED
      BY <2>1, <2>2, <3>1 DEF RowsKept
  <2>4. Len(answered') = Len(Markets)
    BY <2>1 DEF Progress
  <2> QED
    BY <2>1, <2>2, <2>3, <2>4 DEF DownloadTypes, Progress
<1>10. CASE Cancel
  BY <1>1, <1>10 DEF Cancel, DownloadTypes, Progress
<1>11. CASE UNCHANGED vars
  BY <1>1, <1>11 DEF vars, DownloadTypes, Progress
<1> QED
  BY <1>3, <1>4, <1>5, <1>6, <1>7, <1>8, <1>9, <1>10, <1>11 DEF Next, Download

\* An increment that succeeds has the rows of all answers.
LEMMA IncrementMeans == DownloadInv => IncrementIsExact
BY DEF DownloadInv, Progress, RowsKept, KeptOf, KeptAt, IncrementIsExact

\* Whoever uses the handle.
Process == Reader \cup Closer

\* The rows of a day among the first m rows: one more row adds itself if it is
\* of that day.
LEMMA OfDayNext ==
  ASSUME NEW all \in Seq(Row), NEW d, NEW m \in 0..Len(all)
  PROVE  /\ OfDay(SubSeq(all, 1, m), d) \in Seq(Row)
         /\ OfDay(SubSeq(all, 1, 0), d) = <<>>
         /\ m < Len(all) =>
              OfDay(SubSeq(all, 1, m + 1), d) =
                IF all[m + 1].day = d
                THEN Append(OfDay(SubSeq(all, 1, m), d), all[m + 1])
                ELSE OfDay(SubSeq(all, 1, m), d)
<1>1. /\ Len(all) \in Nat /\ m \in Nat /\ m <= Len(all)
      /\ \A k \in 1..Len(all) : all[k] \in Row
  BY LenProperties, ElementOfSeq
<1> DEFINE Part(k) == SubSeq(all, 1, k)
           One(row) == IF row.day = d THEN <<row>> ELSE <<>>
           Ones(k) == [n \in 1..k |-> One(all[n])]
<1>2. ASSUME NEW k \in 0..Len(all)
      PROVE  /\ OfDay(Part(k), d) = FlattenSeq(Ones(k))
             /\ Ones(k) \in Seq(Seq(Row)) /\ Len(Ones(k)) = k
  <2>1. /\ Part(k) \in Seq(Row) /\ Len(Part(k)) = k /\ k \in Nat
        /\ \A n \in 1..k : Part(k)[n] = all[n] /\ all[n] \in Row
    BY <1>1, SubSeqProperties
  <2>2. \A row \in Row : One(row) \in Seq(Row)
    <3> SUFFICES ASSUME NEW row \in Row PROVE One(row) \in Seq(Row)
      OBVIOUS
    <3>1. <<row>> \in Seq(Row)
      OBVIOUS
    <3>2. <<>> \in Seq(Row)
      OBVIOUS
    <3> QED
      BY <3>1, <3>2
  <2> HIDE DEF Part, One
  <2>3. DOMAIN Part(k) = 1..k
    BY <2>1, LenProperties
  <2>4. OfDay(Part(k), d) = FlattenSeq([n \in 1..k |-> One(Part(k)[n])])
    BY <2>3 DEF OfDay, One
  <2>5. [n \in 1..k |-> One(Part(k)[n])] = Ones(k)
    BY <2>1
  <2> QED
    BY <2>1, <2>2, <2>4, <2>5
<1>3. OfDay(Part(m), d) \in Seq(Row)
  <2> DEFINE u == Ones(m)
  <2>1. u \in Seq(Seq(Row)) /\ OfDay(Part(m), d) = FlattenSeq(u)
    BY <1>2
  <2> HIDE DEF u, Part
  <2>2. <<>> \in Seq(Row)
    OBVIOUS
  <2> QED
    BY <2>1, <2>2, FlattenLast
<1>4. OfDay(Part(0), d) = <<>>
  <2>1. 0 \in 0..Len(all)
    BY <1>1
  <2>2. Ones(0) = <<>>
    OBVIOUS
  <2>3. OfDay(Part(0), d) = FlattenSeq(Ones(0))
    BY <1>2, <2>1
  <2> HIDE DEF Ones, Part
  <2> QED
    BY <2>2, <2>3 DEF FlattenSeq
<1>5. ASSUME m < Len(all)
      PROVE  OfDay(Part(m + 1), d) = IF all[m + 1].day = d
                                     THEN Append(OfDay(Part(m), d), all[m + 1])
                                     ELSE OfDay(Part(m), d)
  <2> DEFINE u == Ones(m)
             v == Ones(m + 1)
             x == One(all[m + 1])
             row == all[m + 1]
  <2>1. m + 1 \in 0..Len(all) /\ m + 1 \in 1..Len(all)
    BY <1>1, <1>5
  <2>2. /\ u \in Seq(Seq(Row)) /\ Len(u) = m /\ OfDay(Part(m), d) = FlattenSeq(u)
    BY <1>2
  <2>3. /\ v \in Seq(Seq(Row)) /\ Len(v) = m + 1 /\ OfDay(Part(m + 1), d) = FlattenSeq(v)
    BY <1>2, <2>1
  <2>4. v[m + 1] = x /\ \A n \in 1..m : v[n] = u[n]
    BY <1>1
  <2>5. x \in Seq(Row)
    <3>1. v[m + 1] \in Seq(Row)
      <4> HIDE DEF v
      <4> QED
        BY <1>1, <2>3, ElementOfSeq
    <3> QED
      BY <2>4, <3>1
  <2>6. row \in Row
    BY <1>1, <2>1
  <2> HIDE DEF u, v, x, Part
  <2>7. /\ Append(u, x) \in Seq(Seq(Row)) /\ Len(Append(u, x)) = m + 1
        /\ Append(u, x)[m + 1] = x /\ \A n \in 1..m : Append(u, x)[n] = u[n]
    BY <1>1, <2>2, <2>5, AppendProperties
  <2>8. \A n \in 1..(m + 1) : v[n] = Append(u, x)[n]
    BY <1>1, <2>4, <2>7
  <2>9. v = Append(u, x)
    BY <2>3, <2>7, <2>8, SeqEqual
  <2>10. FlattenSeq(u) \in Seq(Row) /\ FlattenSeq(v) = FlattenSeq(u) \o x
    BY <2>2, <2>5, <2>9, FlattenLast
  <2>11. CASE row.day = d
    <3>1. x = <<row>>
      BY <2>11 DEF x
    <3> DEFINE w == FlattenSeq(u)
    <3> HIDE DEF row, w
    <3>2. w \o <<row>> = Append(w, row)
      BY <2>6, <2>10 DEF w
    <3> QED
      BY <2>2, <2>3, <2>10, <2>11, <3>1, <3>2 DEF row, w
  <2>12. CASE row.day # d
    <3>1. x = <<>>
      BY <2>12 DEF x
    <3> DEFINE w == FlattenSeq(u)
    <3> HIDE DEF w
    <3>2. w \o <<>> = w
      BY <2>10, ConcatEmptySeq DEF w
    <3> QED
      BY <2>2, <2>3, <2>10, <2>12, <3>1, <3>2 DEF w
  <2> QED
    BY <2>11, <2>12
<1> QED
  BY <1>3, <1>4, <1>5

\* A day that no row has.
LEMMA NoneOfDay ==
  ASSUME NEW all \in Seq(Row), NEW d, \A n \in DOMAIN all : all[n].day # d
  PROVE  OfDay(all, d) = <<>>
<1> DEFINE None(m) == OfDay(SubSeq(all, 1, m), d) = <<>>
           S == {m \in Nat : m <= Len(all) => None(m)}
<1>1. Len(all) \in Nat /\ DOMAIN all = 1..Len(all)
  BY LenProperties
<1>2. SubSeq(all, 1, Len(all)) = all
  BY SubSeqFull
<1>3. 0 \in S
  <2>1. 0 \in 0..Len(all)
    BY <1>1
  <2> QED
    BY <2>1, OfDayNext
<1>4. \A m \in Nat : m \in S => m + 1 \in S
  <2> SUFFICES ASSUME NEW m \in Nat, m + 1 <= Len(all),
                      OfDay(SubSeq(all, 1, m), d) = <<>>
               PROVE  OfDay(SubSeq(all, 1, m + 1), d) = <<>>
    BY <1>1
  <2>1. m \in 0..Len(all) /\ m < Len(all) /\ m + 1 \in DOMAIN all
    BY <1>1
  <2>2. all[m + 1].day # d
    BY <2>1
  <2> QED
    BY <2>1, <2>2, OfDayNext
<1> HIDE DEF S, None
<1>5. Len(all) \in S
  BY <1>1, <1>3, <1>4, NatSets
<1>6. None(Len(all))
  BY <1>1, <1>5 DEF S
<1> QED
  BY <1>2, <1>6, Zenon DEF None

\* Where a goroutine is while it holds the lock.
Inside == {"seek", "read", "close", "remove"}

\* The types of the handle's variables.
HandleTypes ==
  /\ at \in [Process -> {"idle", "lock"} \cup Inside]
  /\ returned \in [Process -> {"none", "ok", "error", "canceled"}]
  /\ found \in [Reader -> Seq(Row)]
  /\ request \in [Reader -> Requests]

\* Before the file is handed out nobody has used it.
Unused ==
  tempFile # "handed" => \A p \in Process : at[p] = "idle" /\ returned[p] = "none"

\* Whoever is inside holds the lock.
Exclusive == \A p \in Process : at[p] \in Inside => fileMu = p

\* What a reader has found.
FoundBy(r) ==
  /\ at[r] \in {"lock", "seek"} => found[r] = <<>>
  /\ at[r] = "read" => /\ offset \in 0..Len(rows)
                       /\ found[r] = OfDay(SubSeq(rows, 1, offset), request[r].day)
  /\ at[r] = "idle" /\ returned[r] = "ok" /\ request[r].loc = "Local" =>
       found[r] = OfDay(rows, request[r].day)

\* The invariant of the handle, and that of the whole.
HandleInv == HandleTypes /\ Unused /\ Exclusive /\ \A r \in Reader : FoundBy(r)

FilesInv == DownloadInv /\ HandleInv

\* A step of p leaves the others alone, and the offset to whoever is inside.
LEMMA OthersKept ==
  ASSUME HandleInv, HandleTypes', tempFile = "handed", UNCHANGED <<tempFile, rows>>,
         NEW p \in Process,
         \A q \in Process : q # p => at'[q] = at[q] /\ returned'[q] = returned[q],
         \A r \in Reader : r # p => found'[r] = found[r] /\ request'[r] = request[r],
         \A q \in Process : q # p /\ fileMu = q => fileMu' = q,
         offset' = offset \/ at[p] \in Inside,
         at'[p] \in Inside => fileMu' = p,
         p \in Reader => FoundBy(p)'
  PROVE  HandleInv'
<1> USE DEF HandleInv
<1>1. Unused'
  BY DEF Unused
<1>2. Exclusive'
  BY DEF Exclusive
<1>3. ASSUME NEW r \in Reader PROVE FoundBy(r)'
  <2>1. CASE r = p
    BY <2>1
  <2>2. CASE r # p
    <3>1. r \in Process
      BY DEF Process
    <3>2. at[r] = "read" => offset' = offset
      BY <2>2, <3>1 DEF Exclusive, Inside
    <3>3. FoundBy(r)
      OBVIOUS
    <3> QED
      BY <2>2, <3>1, <3>2, <3>3 DEF FoundBy
  <2> QED
    BY <2>1, <2>2
<1> QED
  BY <1>1, <1>2, <1>3

\* A reader that asks for a day not in Dates finds nothing, and no row is of it:
\* Dates has the day of every row.
LEMMA GetBeginsKeeps ==
  ASSUME FilesInv, tempFile = "handed", UNCHANGED <<tempFile, rows>>, NEW r \in Reader,
         Snapshot!GetBegins(r)
  PROVE  HandleInv'
<1> USE DEF FilesInv, HandleInv
<1>1. PICK t \in Requests :
        /\ request' = [request EXCEPT ![r] = t]
        /\ found' = [found EXCEPT ![r] = <<>>]
        /\ \/ t \notin Snapshot!Dates /\ Snapshot!Return(r, "ok")
           \/ /\ at' = [at EXCEPT ![r] = "lock"]
              /\ UNCHANGED <<returned, fileMu>>
  BY DEF Snapshot!GetBegins
<1>2. offset' = offset /\ at[r] = "idle" /\ r \in Process
  BY DEF Snapshot!GetBegins, Snapshot!disk, Process
<1>3. /\ found' \in [Reader -> Seq(Row)] /\ found'[r] = <<>>
      /\ request' \in [Reader -> Requests] /\ request'[r] = t
      /\ \A q \in Reader : q # r => found'[q] = found[q] /\ request'[q] = request[q]
  BY <1>1 DEF HandleTypes
<1>4. CASE t \notin Snapshot!Dates /\ Snapshot!Return(r, "ok")
  <2>1. /\ at' = [at EXCEPT ![r] = "idle"] /\ returned' = [returned EXCEPT ![r] = "ok"]
        /\ fileMu' = IF fileMu = r THEN "no one" ELSE fileMu
    BY <1>4 DEF Snapshot!Return, Snapshot!NoOne
  <2>2. HandleTypes'
    BY <1>2, <1>3, <2>1 DEF HandleTypes
  <2>3. /\ at'[r] = "idle"
        /\ \A q \in Process : q # r => at'[q] = at[q] /\ returned'[q] = returned[q]
    BY <1>2, <2>1 DEF HandleTypes
  <2>4. ASSUME t.loc = "Local" PROVE found'[r] = OfDay(rows, t.day)
    <3>1. t = [day |-> t.day, loc |-> "Local"]
      BY <2>4, FilesAssumption
    <3>2. kind = "full" /\ rows \in Seq(Row) /\ dates \in Seq(Day)
      BY DEF DownloadInv, DownloadTypes, Progress
    <3>3. ~Contains(dates, t.day)
      <4>1. DOMAIN dates = 1..Len(dates)
        BY <3>2, LenProperties
      <4>2. \A n \in DOMAIN dates : t # [day |-> dates[n], loc |-> "Local"]
        BY <1>4 DEF Snapshot!Dates, Snapshot!Local
      <4> QED
        BY <3>1, <4>1, <4>2 DEF Contains
    <3>4. \A n \in DOMAIN rows : rows[n].day # t.day
      BY <3>2, <3>3 DEF DownloadInv, RowsKept
    <3> QED
      BY <1>3, <3>2, <3>4, NoneOfDay
  <2>5. FoundBy(r)'
    BY <1>3, <2>3, <2>4 DEF FoundBy
  <2>6. \A q \in Process : q # r /\ fileMu = q => fileMu' = q
    BY <2>1
  <2> QED
    BY <1>2, <1>3, <2>2, <2>3, <2>5, <2>6, OthersKept DEF Inside
<1>5. CASE at' = [at EXCEPT ![r] = "lock"] /\ UNCHANGED <<returned, fileMu>>
  <2>1. HandleTypes'
    BY <1>2, <1>3, <1>5 DEF HandleTypes
  <2>2. at'[r] = "lock" /\ \A q \in Process : q # r => at'[q] = at[q]
    BY <1>2, <1>5 DEF HandleTypes
  <2>3. FoundBy(r)'
    BY <1>3, <2>2 DEF FoundBy
  <2> QED
    BY <1>2, <1>3, <1>5, <2>1, <2>2, <2>3, OthersKept DEF Inside
<1> QED
  BY <1>1, <1>4, <1>5

\* The lock is taken when nobody is inside.
LEMMA LockKeeps ==
  ASSUME FilesInv, tempFile = "handed", UNCHANGED <<tempFile, rows>>, NEW p \in Process,
         Snapshot!Lock(p)
  PROVE  HandleInv'
<1> USE DEF FilesInv, HandleInv
<1>1. /\ at[p] = "lock" /\ fileMu = "no one" /\ fileMu' = p
      /\ at' = [at EXCEPT ![p] = IF p \in Reader THEN "seek" ELSE "close"]
      /\ UNCHANGED <<offset, request, found, returned>>
  BY DEF Snapshot!Lock, Snapshot!NoOne, Snapshot!disk
<1>2. HandleTypes'
  BY <1>1 DEF HandleTypes, Inside
<1>3. /\ p \in Reader => at'[p] = "seek"
      /\ \A q \in Process : q # p => at'[q] = at[q]
  BY <1>1 DEF HandleTypes
<1>4. p \in Reader => FoundBy(p)'
  BY <1>1, <1>3 DEF FoundBy
<1>5. \A q \in Process : fileMu # q
  BY <1>1, FilesAssumption DEF Process
<1> QED
  BY <1>1, <1>2, <1>3, <1>4, <1>5, OthersKept

\* The reader that holds the lock goes to the beginning of the file.
LEMMA SeekKeeps ==
  ASSUME FilesInv, tempFile = "handed", UNCHANGED <<tempFile, rows>>, NEW r \in Reader,
         Snapshot!Seek(r)
  PROVE  HandleInv'
<1> USE DEF FilesInv, HandleInv
<1>1. at[r] = "seek" /\ r \in Process /\ UNCHANGED <<request, found>>
  BY DEF Snapshot!Seek, Process
<1>2. fileMu = r /\ found[r] = <<>> /\ at[r] \in Inside
  BY <1>1 DEF Exclusive, FoundBy, Inside
<1>3. CASE offset' = 0 /\ at' = [at EXCEPT ![r] = "read"] /\ UNCHANGED <<fileMu, returned>>
  <2>1. HandleTypes'
    BY <1>1, <1>3 DEF HandleTypes, Inside
  <2>2. at'[r] = "read" /\ \A q \in Process : q # r => at'[q] = at[q]
    BY <1>1, <1>3 DEF HandleTypes
  <2>3. rows \in Seq(Row) /\ 0 \in 0..Len(rows)
    BY LenProperties DEF DownloadInv, DownloadTypes
  <2>4. OfDay(SubSeq(rows, 1, 0), request[r].day) = <<>>
    BY <2>3, OfDayNext
  <2>5. FoundBy(r)'
    BY <1>1, <1>2, <1>3, <2>2, <2>3, <2>4 DEF FoundBy
  <2> QED
    BY <1>1, <1>2, <1>3, <2>1, <2>2, <2>5, OthersKept
<1>4. CASE Snapshot!Return(r, "error") /\ UNCHANGED offset
  <2>1. /\ at' = [at EXCEPT ![r] = "idle"] /\ returned' = [returned EXCEPT ![r] = "error"]
        /\ fileMu' = IF fileMu = r THEN "no one" ELSE fileMu
    BY <1>4 DEF Snapshot!Return, Snapshot!NoOne
  <2>2. HandleTypes'
    BY <1>1, <2>1 DEF HandleTypes
  <2>3. /\ at'[r] = "idle" /\ returned'[r] = "error"
        /\ \A q \in Process : q # r => at'[q] = at[q] /\ returned'[q] = returned[q]
    BY <1>1, <2>1 DEF HandleTypes
  <2>4. FoundBy(r)'
    BY <2>3 DEF FoundBy
  <2> QED
    BY <1>1, <1>4, <2>1, <2>2, <2>3, <2>4, OthersKept DEF Inside
<1> QED
  BY <1>3, <1>4 DEF Snapshot!Seek

\* One row more is read, or the reader returns: at the end of the file, with
\* the rows of the day.
LEMMA ReadKeeps ==
  ASSUME FilesInv, tempFile = "handed", UNCHANGED <<tempFile, rows>>, NEW r \in Reader,
         Snapshot!Read(r)
  PROVE  HandleInv'
<1> USE DEF FilesInv, HandleInv
<1>1. at[r] = "read" /\ r \in Process /\ request' = request
  BY DEF Snapshot!Read, Process
<1> DEFINE d == request[r].day
<1>2. /\ fileMu = r /\ at[r] \in Inside /\ offset \in 0..Len(rows)
      /\ found[r] = OfDay(SubSeq(rows, 1, offset), d)
  BY <1>1 DEF Exclusive, FoundBy, Inside
<1>3. rows \in Seq(Row) /\ Len(rows) \in Nat /\ found \in [Reader -> Seq(Row)]
  BY LenProperties DEF DownloadInv, DownloadTypes, HandleTypes
<1>4. ASSUME NEW how \in {"ok", "error", "canceled"}, Snapshot!Return(r, how),
             UNCHANGED <<offset, found>>, how = "ok" => offset = Len(rows)
      PROVE  HandleInv'
  <2>1. /\ at' = [at EXCEPT ![r] = "idle"] /\ returned' = [returned EXCEPT ![r] = how]
        /\ fileMu' = IF fileMu = r THEN "no one" ELSE fileMu
    BY <1>4 DEF Snapshot!Return, Snapshot!NoOne
  <2>2. HandleTypes'
    BY <1>1, <1>4, <2>1 DEF HandleTypes
  <2>3. /\ at'[r] = "idle" /\ returned'[r] = how
        /\ \A q \in Process : q # r => at'[q] = at[q] /\ returned'[q] = returned[q]
    BY <1>1, <2>1 DEF HandleTypes
  <2>4. how = "ok" => found[r] = OfDay(rows, d)
    <3>1. SubSeq(rows, 1, Len(rows)) = rows
      BY <1>3, SubSeqFull
    <3> QED
      BY <1>2, <1>4, <3>1
  <2>5. FoundBy(r)'
    BY <1>1, <1>4, <2>3, <2>4 DEF FoundBy
  <2> QED
    BY <1>1, <1>4, <2>1, <2>2, <2>3, <2>5, OthersKept DEF Inside
<1>5. ASSUME offset < Len(rows), offset' = offset + 1,
             found' = IF rows[offset'].day = d
                      THEN [found EXCEPT ![r] = Append(@, rows[offset'])] ELSE found,
             UNCHANGED <<at, fileMu, returned>>
      PROVE  HandleInv'
  <2>1. offset + 1 \in 1..Len(rows) /\ offset' \in 0..Len(rows)
    BY <1>2, <1>3, <1>5
  <2>2. rows[offset + 1] \in Row
    BY <1>3, <2>1, ElementOfSeq
  <2>3. Append(found[r], rows[offset + 1]) \in Seq(Row)
    BY <1>3, <2>2, AppendProperties
  <2>4. found' \in [Reader -> Seq(Row)] /\ \A q \in Reader : q # r => found'[q] = found[q]
    BY <1>3, <1>5, <2>3
  <2>5. found'[r] = IF rows[offset + 1].day = d THEN Append(found[r], rows[offset + 1])
                    ELSE found[r]
    BY <1>3, <1>5
  <2>6. found'[r] = OfDay(SubSeq(rows, 1, offset + 1), d)
    <3> DEFINE now == OfDay(SubSeq(rows, 1, offset), d)
               then == OfDay(SubSeq(rows, 1, offset + 1), d)
    <3>1. then = IF rows[offset + 1].day = d THEN Append(now, rows[offset + 1]) ELSE now
      BY <1>2, <1>3, <1>5, OfDayNext
    <3>2. found[r] = now
      BY <1>2
    <3> HIDE DEF now, then
    <3>3. found'[r] = then
      BY <2>5, <3>1, <3>2
    <3> QED
      BY <3>3 DEF then
  <2>7. FoundBy(r)'
    BY <1>1, <1>5, <2>1, <2>6 DEF FoundBy
  <2>8. HandleTypes'
    BY <1>1, <1>5, <2>4 DEF HandleTypes
  <2> QED
    BY <1>1, <1>2, <1>5, <2>4, <2>7, <2>8, OthersKept
<1> QED
  BY <1>4, <1>5 DEF Snapshot!Read

\* Closing leaves the offset and what readers found alone.
LEMMA CloseKeeps ==
  ASSUME FilesInv, tempFile = "handed", UNCHANGED <<tempFile, rows>>, NEW c \in Closer,
         Snapshot!CloseBegins(c) \/ Snapshot!CloseFile(c) \/ Snapshot!RemoveFile(c)
  PROVE  HandleInv'
<1> USE DEF FilesInv, HandleInv
<1>1. c \in Process /\ c \notin Reader
  BY FilesAssumption DEF Process
<1>2. UNCHANGED <<offset, request, found>>
  BY DEF Snapshot!CloseBegins, Snapshot!CloseFile, Snapshot!RemoveFile, Snapshot!disk
<1>3. ASSUME NEW how \in {"ok", "error"}, Snapshot!Return(c, how) PROVE HandleInv'
  <2>1. /\ at' = [at EXCEPT ![c] = "idle"] /\ returned' = [returned EXCEPT ![c] = how]
        /\ fileMu' = IF fileMu = c THEN "no one" ELSE fileMu
    BY <1>3 DEF Snapshot!Return, Snapshot!NoOne
  <2>2. HandleTypes'
    BY <1>1, <1>2, <2>1 DEF HandleTypes
  <2>3. /\ at'[c] = "idle"
        /\ \A q \in Process : q # c => at'[q] = at[q] /\ returned'[q] = returned[q]
    BY <1>1, <2>1 DEF HandleTypes
  <2> QED
    BY <1>1, <1>2, <2>1, <2>2, <2>3, OthersKept DEF Inside
<1>4. ASSUME NEW next \in {"lock", "remove"}, at' = [at EXCEPT ![c] = next],
             next = "remove" => fileMu = c, UNCHANGED <<returned, fileMu>>
      PROVE  HandleInv'
  <2>1. HandleTypes'
    BY <1>1, <1>2, <1>4 DEF HandleTypes, Inside
  <2>2. at'[c] = next /\ \A q \in Process : q # c => at'[q] = at[q]
    BY <1>1, <1>4 DEF HandleTypes
  <2> QED
    BY <1>1, <1>2, <1>4, <2>1, <2>2, OthersKept DEF Inside
<1>5. CASE Snapshot!CloseBegins(c)
  BY <1>3, <1>4, <1>5 DEF Snapshot!CloseBegins
<1>6. CASE Snapshot!CloseFile(c)
  <2>1. fileMu = c
    BY <1>1, <1>6 DEF Snapshot!CloseFile, Exclusive, Inside
  <2> QED
    BY <1>3, <1>4, <1>6, <2>1 DEF Snapshot!CloseFile
<1>7. CASE Snapshot!RemoveFile(c)
  BY <1>3, <1>7 DEF Snapshot!RemoveFile
<1> QED
  BY <1>5, <1>6, <1>7

\* Every use of the handle keeps the invariant.
LEMMA UseKeeps == FilesInv /\ UseSnapshot => FilesInv'
<1> SUFFICES ASSUME FilesInv, UseSnapshot PROVE FilesInv'
  OBVIOUS
<1>1. /\ tempFile = "handed" /\ Snapshot!Next
      /\ UNCHANGED <<kind, pc, i, trails, cancelled, tempFile, rows, dates, result,
                     answered>>
  BY DEF UseSnapshot, Snapshot!Next
<1>2. DownloadInv'
  BY <1>1, DownloadStep DEF FilesInv, vars
<1>3. HandleInv'
  <2>1. ASSUME NEW r \in Reader, Snapshot!Get(r) PROVE HandleInv'
    <3>1. r \in Process
      BY DEF Process
    <3> QED
      BY <1>1, <2>1, <3>1, GetBeginsKeeps, LockKeeps, SeekKeeps, ReadKeeps DEF Snapshot!Get
  <2>2. ASSUME NEW c \in Closer, Snapshot!CloseSteps(c) PROVE HandleInv'
    <3>1. c \in Process
      BY DEF Process
    <3> QED
      BY <1>1, <2>2, <3>1, LockKeeps, CloseKeeps DEF Snapshot!CloseSteps
  <2> QED
    BY <1>1, <2>1, <2>2 DEF Snapshot!Next
<1> QED
  BY <1>2, <1>3 DEF FilesInv

\* While the download runs nobody has the handle, and once it is handed out the
\* download is over.
LEMMA WriteKeeps == FilesInv /\ WriteSnapshot => FilesInv'
<1> SUFFICES ASSUME FilesInv, WriteSnapshot PROVE FilesInv'
  OBVIOUS
<1>1. Next /\ UNCHANGED handleVars
  BY DEF WriteSnapshot
<1>2. DownloadInv'
  BY <1>1, DownloadStep DEF FilesInv
<1>3. tempFile # "handed"
  <2>1. pc # "done"
    BY <1>1 DEF Next, Download, NextMarket, FetchOk, FetchSkip, FetchTransient, FetchFatal,
                Sleep, Return, Cancel
  <2> QED
    BY <2>1 DEF FilesInv, DownloadInv, Progress
<1>4. HandleTypes'
  BY <1>1 DEF FilesInv, HandleInv, HandleTypes, handleVars
<1>5. \A p \in Process : at'[p] = "idle" /\ returned'[p] = "none"
  BY <1>1, <1>3 DEF FilesInv, HandleInv, Unused, handleVars
<1>6. Unused' /\ Exclusive' /\ \A r \in Reader : FoundBy(r)'
  BY <1>5 DEF Unused, Exclusive, FoundBy, Inside, Process
<1> QED
  BY <1>2, <1>4, <1>6 DEF FilesInv, HandleInv

\* At first nobody uses the handle.
LEMMA FilesStart == FilesInit => FilesInv
<1> SUFFICES ASSUME FilesInit PROVE FilesInv
  OBVIOUS
<1>1. DownloadInv
  BY DownloadInit DEF FilesInit
<1>2. /\ at = [p \in Process |-> "idle"] /\ returned = [p \in Process |-> "none"]
      /\ found = [r \in Reader |-> <<>>]
      /\ request = [r \in Reader |-> CHOOSE t \in Requests : TRUE]
  BY DEF FilesInit, Snapshot!Init, Snapshot!Process, Process
<1>3. HandleTypes
  <2> DEFINE t == CHOOSE t \in Requests : TRUE
  <2>1. t \in Requests
    BY FilesAssumption
  <2>2. request = [r \in Reader |-> t]
    BY <1>2
  <2> HIDE DEF t
  <2>3. request \in [Reader -> Requests]
    BY <2>1, <2>2
  <2>4. <<>> \in Seq(Row)
    OBVIOUS
  <2>5. found \in [Reader -> Seq(Row)]
    BY <1>2, <2>4
  <2> QED
    BY <1>2, <2>3, <2>5 DEF HandleTypes
<1>4. Unused /\ Exclusive /\ \A r \in Reader : FoundBy(r)
  BY <1>2 DEF Unused, Exclusive, FoundBy, Inside, Process
<1> QED
  BY <1>1, <1>3, <1>4 DEF FilesInv, HandleInv

\* Every step keeps the invariant.
LEMMA FilesStep == FilesInv /\ [FilesNext]_filesVars => FilesInv'
<1> SUFFICES ASSUME FilesInv, UNCHANGED filesVars PROVE FilesInv'
  BY UseKeeps, WriteKeeps DEF FilesNext
<1>1. DownloadInv'
  BY DownloadStep DEF FilesInv, filesVars
<1>2. HandleInv'
  BY DEF FilesInv, HandleInv, HandleTypes, Unused, Exclusive, FoundBy, filesVars, vars,
         handleVars
<1> QED
  BY <1>1, <1>2 DEF FilesInv

\* The rows of a full download are those the ESI answered.
LEMMA FilesMean == FilesInv => ReadsWhatWasAnswered
<1> SUFFICES ASSUME FilesInv, NEW r \in Reader, at[r] = "idle", returned[r] = "ok",
                    request[r].loc = "Local"
             PROVE  /\ Len(answered) = Len(Markets)
                    /\ found[r] = OfDay(AnsweredRows, request[r].day)
  BY DEF ReadsWhatWasAnswered
<1>1. r \in Process /\ tempFile = "handed"
  BY DEF FilesInv, HandleInv, Unused, Process
<1>2. result = "ok" /\ kind = "full" /\ Len(answered) = Len(Markets)
  BY <1>1 DEF FilesInv, DownloadInv, Progress
<1>3. rows = AnsweredRows
  BY <1>2 DEF FilesInv, DownloadInv, RowsKept, KeptOf, KeptAt, AnsweredRows
<1> QED
  BY <1>2, <1>3 DEF FilesInv, HandleInv, FoundBy

\* Whatever is answered, skipped, retried or cancelled, an incremental download
\* that succeeds has one row for each market whose history holds the day, in the
\* order asked for, and no other: DownloadIncrementalHistoryDump of src/history.go.
THEOREM IncrementExact == FilesSpec => []IncrementIsExact
<1>1. FilesInv => IncrementIsExact
  BY IncrementMeans DEF FilesInv
<1> QED
  BY <1>1, FilesStart, FilesStep, PTL DEF FilesSpec

\* A reader of a Local day that succeeds has exactly the rows that were answered
\* for it, however many readers move the file's offset and whoever closes it:
\* GetHistoryDataForDay of src/history.go, under fileMu.
THEOREM ReadersAgree == FilesSpec => []ReadsWhatWasAnswered
  BY FilesStart, FilesStep, FilesMean, PTL DEF FilesSpec
=============================================================================
