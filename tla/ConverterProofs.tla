--------------------------- MODULE ConverterProofs --------------------------
(***************************************************************************)
(* Converter implements TupleCopy, for all files and all plain command     *)
(* lines.                                                                  *)
(***************************************************************************)
EXTENDS Converter, ReadersProofs

(***************************************************************************)
(* Sequences of sequences.                                                 *)
(***************************************************************************)
\* FlattenSeq, sequence by sequence.
Flattens(g, ss, T) ==
  /\ g \in [0 .. Len(ss) -> Seq(T)]
  /\ FlattenSeq(ss) = g[Len(ss)]
  /\ g[0] = <<>>
  /\ \A n \in 1 .. Len(ss) : g[n] = g[n - 1] \o ss[n]

LEMMA FlattenIs ==
  ASSUME NEW T, NEW ss \in Seq(Seq(T))
  PROVE  \E g : Flattens(g, ss, T)
<1> DEFINE N == Len(ss)
           e == <<>>
           step == [a \in (1 .. N) \X Seq(T) |-> a[2] \o ss[a[1]]]
           Body(h) == [i \in 1 .. N |-> IF i = 1 THEN ss[i] ELSE h[i - 1] \o ss[i]]
           flatten == CHOOSE h : h = Body(h)
<1>1. N \in Nat /\ DOMAIN ss = 1 .. N /\ \A n \in 1 .. N : ss[n] \in Seq(T)
  OBVIOUS
<1>2. \A a, b \in Seq(T) : a \o b \in Seq(T)
  OBVIOUS
<1>3. step \in [(1 .. N) \X Seq(T) -> Seq(T)]
  <2>1. ASSUME NEW a \in (1 .. N) \X Seq(T) PROVE a[2] \o ss[a[1]] \in Seq(T)
    <3>1. a[2] \in Seq(T) /\ ss[a[1]] \in Seq(T)
      BY <1>1
    <3> QED BY <1>2, <3>1
  <2> QED BY <2>1
<1>4. PICK g \in [0 .. N -> Seq(T)] :
        g[0] = e /\ \A n \in 1 .. N : g[n] = step[<<n, g[n - 1]>>]
  <2>1. e \in Seq(T)
    OBVIOUS
  <2> HIDE DEF step, e, N
  <2>2. PICK g : Recurs(g, Seq(T), N, e, step)
    BY <1>1, <1>3, <2>1, Recursion
  <2> QED BY <2>2 DEF Recurs
<1>5. \A n \in 1 .. N : n - 1 \in 0 .. N /\ g[n - 1] \in Seq(T)
  <2>1. \A n \in 1 .. N : n - 1 \in 0 .. N
    BY <1>1
  <2> HIDE DEF N
  <2> QED BY <1>4, <2>1
<1>6. \A n \in 1 .. N : g[n] = g[n - 1] \o ss[n]
  BY <1>4, <1>5
<1>7. CASE N = 0
  <2>1. FlattenSeq(ss) = ss /\ ss = <<>>
    BY <1>1, <1>7, EmptySeq DEF FlattenSeq
  <2> QED BY <1>1, <1>4, <1>6, <1>7, <2>1 DEF Flattens
<1>8. CASE N # 0
  <2> DEFINE h == [i \in 1 .. N |-> g[i]]
  <2>1. FlattenSeq(ss) = flatten[N]
    BY <1>8 DEF FlattenSeq
  <2>2. ASSUME NEW i \in 1 .. N
        PROVE  h[i] = IF i = 1 THEN ss[i] ELSE h[i - 1] \o ss[i]
    <3>1. CASE i = 1
      <4>0. 1 \in 1 .. N /\ 1 - 1 = 0
        BY <1>1, <3>1
      <4>1. g[1] = g[0] \o ss[1] /\ g[0] = <<>>
        BY <1>4, <1>6, <4>0
      <4>2. \A t \in Seq(T) : <<>> \o t = t
        OBVIOUS
      <4> QED BY <1>1, <3>1, <4>1, <4>2
    <3>2. CASE i # 1
      BY <1>1, <1>6, <3>2
    <3> QED BY <3>1, <3>2
  <2>3. h = Body(h)
    <3>1. h = [i \in 1 .. N |-> h[i]]
      OBVIOUS
    <3> HIDE DEF h
    <3> QED BY <2>2, <3>1
  <2>4. flatten = Body(flatten)
    BY <2>3
  <2> HIDE DEF flatten
  <2>5. ASSUME NEW i \in 1 .. N
        PROVE  flatten[i] = IF i = 1 THEN ss[i] ELSE flatten[i - 1] \o ss[i]
    BY <2>4
  <2> DEFINE S == {n \in Nat : n + 1 <= N => flatten[n + 1] = h[n + 1]}
  <2> HIDE DEF h
  <2>6. 0 \in S
    BY <1>1, <1>8, <2>2, <2>5
  <2>7. ASSUME NEW n \in Nat, n \in S PROVE n + 1 \in S
    <3> SUFFICES ASSUME (n + 1) + 1 <= N PROVE flatten[(n + 1) + 1] = h[(n + 1) + 1]
      OBVIOUS
    <3>1. /\ (n + 1) + 1 \in 1 .. N /\ (n + 1) + 1 # 1 /\ ((n + 1) + 1) - 1 = n + 1
          /\ n + 1 <= N
      BY <1>1
    <3>2. flatten[n + 1] = h[n + 1]
      BY <2>7, <3>1
    <3> QED BY <2>2, <2>5, <3>1, <3>2
  <2>8. \A n \in Nat : n \in S
    <3> HIDE DEF S
    <3> QED BY <2>6, <2>7, SetInduction
  <2>9. N - 1 \in Nat /\ (N - 1) + 1 = N
    BY <1>1, <1>8
  <2>10. flatten[N] = h[N]
    <3>1. \A n \in Nat : n + 1 <= N => flatten[n + 1] = h[n + 1]
      BY <2>8
    <3>2. (N - 1) + 1 <= N => flatten[(N - 1) + 1] = h[(N - 1) + 1]
      BY <2>9, <3>1
    <3> QED BY <1>1, <2>9, <3>2
  <2>11. h[N] = g[N]
    BY <1>1, <1>8 DEF h
  <2> QED BY <1>4, <1>6, <2>1, <2>10, <2>11 DEF Flattens
<1> QED BY <1>7, <1>8

\* The first n of the sequences, one after the other.
UpTo(ss, n) == FlattenSeq([i \in 1 .. n |-> ss[i]])

LEMMA UpToIs ==
  ASSUME NEW T, NEW ss \in Seq(Seq(T))
  PROVE  /\ \A n \in 0 .. Len(ss) : UpTo(ss, n) \in Seq(T)
         /\ UpTo(ss, 0) = <<>>
         /\ \A n \in 1 .. Len(ss) : UpTo(ss, n) = UpTo(ss, n - 1) \o ss[n]
         /\ UpTo(ss, Len(ss)) = FlattenSeq(ss)
<1> DEFINE N == Len(ss)
<1>0. PICK g : Flattens(g, ss, T)
  BY FlattenIs
<1>1. /\ N \in Nat /\ DOMAIN ss = 1 .. N /\ \A i \in 1 .. N : ss[i] \in Seq(T)
      /\ g \in [0 .. N -> Seq(T)] /\ FlattenSeq(ss) = g[N] /\ g[0] = <<>>
      /\ \A n \in 1 .. N : g[n] = g[n - 1] \o ss[n]
  <2>1. N \in Nat /\ DOMAIN ss = 1 .. N /\ \A i \in 1 .. N : ss[i] \in Seq(T)
    OBVIOUS
  <2>2. /\ g \in [0 .. N -> Seq(T)] /\ FlattenSeq(ss) = g[N] /\ g[0] = <<>>
        /\ \A n \in 1 .. N : g[n] = g[n - 1] \o ss[n]
    BY <1>0 DEF Flattens
  <2> QED BY <2>1, <2>2
<1>2. ASSUME NEW n \in 0 .. N PROVE UpTo(ss, n) = g[n]
  <2> DEFINE first == [i \in 1 .. n |-> ss[i]]
  <2>1. first \in Seq(Seq(T)) /\ Len(first) = n
    <3>1. n \in Nat /\ \A i \in 1 .. n : i \in 1 .. N
      BY <1>1
    <3>2. first \in [1 .. n -> Seq(T)]
      BY <3>1
    <3> HIDE DEF first
    <3> QED BY <3>1, <3>2, AsSeq
  <2>2. PICK h : Flattens(h, first, T)
    BY <2>1, FlattenIs
  <2>3. \A k \in 1 .. n : first[k] = ss[k] /\ k \in 1 .. N
    BY <1>1
  <2> HIDE DEF first
  <2>4. FlattenSeq(first) = h[n] /\ h[0] = <<>> /\ \A k \in 1 .. n : h[k] = h[k - 1] \o ss[k]
    BY <2>1, <2>2, <2>3 DEF Flattens
  <2> DEFINE S == {k \in Nat : k <= n => h[k] = g[k]}
  <2>5. 0 \in S
    BY <1>1, <2>4
  <2>6. ASSUME NEW k \in Nat, k \in S PROVE k + 1 \in S
    <3> SUFFICES ASSUME k + 1 <= n PROVE h[k + 1] = g[k + 1]
      OBVIOUS
    <3>1. k + 1 \in 1 .. n /\ (k + 1) - 1 = k /\ k <= n
      BY <1>1
    <3>2. h[k] = g[k]
      BY <2>6, <3>1
    <3> QED BY <1>1, <2>3, <2>4, <3>1, <3>2
  <2>7. \A k \in Nat : k \in S
    <3> HIDE DEF S
    <3> QED BY <2>5, <2>6, SetInduction
  <2>8. h[n] = g[n]
    <3>1. \A k \in Nat : k <= n => h[k] = g[k]
      BY <2>7
    <3>2. n \in Nat /\ n <= n
      BY <1>1
    <3> QED BY <3>1, <3>2
  <2> QED BY <2>4, <2>8 DEF UpTo, first
<1>3. \A n \in 1 .. N : n - 1 \in 0 .. N /\ n \in 0 .. N
  BY <1>1
<1>4. 0 \in 0 .. N /\ N \in 0 .. N
  BY <1>1
<1> QED BY <1>1, <1>2, <1>3, <1>4

\* One more sequence is put behind.
LEMMA FlattenMore ==
  ASSUME NEW T, NEW ss \in Seq(Seq(T)), NEW t \in Seq(T)
  PROVE  FlattenSeq(Append(ss, t)) = FlattenSeq(ss) \o t
<1> DEFINE N == Len(ss)
           more == Append(ss, t)
<1>1. /\ N \in Nat /\ more \in Seq(Seq(T)) /\ Len(more) = N + 1
      /\ more[N + 1] = t /\ \A i \in 1 .. N : more[i] = ss[i]
      /\ ss = [i \in 1 .. N |-> ss[i]]
  OBVIOUS
<1> HIDE DEF more
<1>2. [i \in 1 .. N |-> more[i]] = ss
  BY <1>1
<1>3. UpTo(more, N) = FlattenSeq(ss)
  BY <1>2 DEF UpTo
<1>4. N + 1 \in 1 .. N + 1 /\ (N + 1) - 1 = N
  BY <1>1
<1>5. FlattenSeq(more) = UpTo(more, N) \o t
  BY <1>1, <1>4, UpToIs
<1> QED BY <1>3, <1>5 DEF more

-----------------------------------------------------------------------------
(***************************************************************************)
(* The beginning of a sequence.                                            *)
(***************************************************************************)
Begins(a, b) == Len(a) <= Len(b) /\ \A k \in 1 .. Len(a) : a[k] = b[k]

LEMMA BeginsBefore ==
  ASSUME NEW T, NEW a \in Seq(T), NEW b \in Seq(T)
  PROVE  Begins(a, a \o b)
  BY DEF Begins

LEMMA BeginsBehind ==
  ASSUME NEW T, NEW a \in Seq(T), NEW b \in Seq(T), NEW c \in Seq(T), Begins(b, c)
  PROVE  Begins(a \o b, a \o c)
<1>1. /\ Len(a \o b) = Len(a) + Len(b) /\ Len(a \o c) = Len(a) + Len(c)
      /\ Len(a) \in Nat /\ Len(b) \in Nat /\ Len(c) \in Nat /\ Len(b) <= Len(c)
  BY DEF Begins
<1>2. ASSUME NEW k \in 1 .. Len(a) + Len(b) PROVE (a \o b)[k] = (a \o c)[k]
  <2>1. CASE k <= Len(a)
    BY <1>1, <2>1
  <2>2. CASE k > Len(a)
    <3>1. k - Len(a) \in 1 .. Len(b)
      BY <1>1, <2>2
    <3>2. b[k - Len(a)] = c[k - Len(a)]
      BY <3>1 DEF Begins
    <3> QED BY <1>1, <2>2, <3>2
  <2> QED BY <1>1, <2>1, <2>2
<1> QED BY <1>1, <1>2 DEF Begins

LEMMA BeginsTrans ==
  ASSUME NEW T, NEW a \in Seq(T), NEW b \in Seq(T), NEW c \in Seq(T),
         Begins(a, b), Begins(b, c)
  PROVE  Begins(a, c)
<1>1. Len(a) \in Nat /\ Len(b) \in Nat /\ Len(c) \in Nat
  OBVIOUS
<1>2. \A k \in 1 .. Len(a) : k \in 1 .. Len(b)
  BY <1>1 DEF Begins
<1> QED BY <1>1, <1>2 DEF Begins

\* What is read of the n-th sequence begins the whole, behind those before it.
LEMMA BeginsAll ==
  ASSUME NEW T, NEW ss \in Seq(Seq(T)), NEW n \in 1 .. Len(ss), NEW a \in Seq(T),
         Begins(a, ss[n])
  PROVE  Begins(UpTo(ss, n - 1) \o a, FlattenSeq(ss))
<1> DEFINE N == Len(ss)
<1>0. /\ \A m \in 0 .. N : UpTo(ss, m) \in Seq(T)
      /\ \A m \in 1 .. N : UpTo(ss, m) = UpTo(ss, m - 1) \o ss[m]
      /\ UpTo(ss, N) = FlattenSeq(ss)
  BY UpToIs
<1>1. /\ N \in Nat /\ \A m \in 1 .. N : ss[m] \in Seq(T)
      /\ \A u, v \in Seq(T) : u \o v \in Seq(T)
  OBVIOUS
<1>2. n - 1 \in 0 .. N /\ n \in Nat /\ n \in 0 .. N /\ N \in 0 .. N /\ n \in 1 .. N
  BY <1>1
<1> HIDE DEF N
<1>3. UpTo(ss, n - 1) \in Seq(T) /\ UpTo(ss, n) \in Seq(T) /\ ss[n] \in Seq(T)
  BY <1>0, <1>1, <1>2
<1>4. Begins(UpTo(ss, n - 1) \o a, UpTo(ss, n))
  <2>1. UpTo(ss, n) = UpTo(ss, n - 1) \o ss[n]
    BY <1>0, <1>2
  <2> QED BY <1>3, <2>1, BeginsBehind
<1> DEFINE S == {k \in Nat : n + k <= N => Begins(UpTo(ss, n), UpTo(ss, n + k))}
<1>5. 0 \in S
  <2>1. n + 0 = n
    BY <1>2
  <2>2. Begins(UpTo(ss, n), UpTo(ss, n))
    BY <1>3 DEF Begins
  <2> QED BY <2>1, <2>2
<1>6. ASSUME NEW k \in Nat, k \in S PROVE k + 1 \in S
  <2> SUFFICES ASSUME n + (k + 1) <= N PROVE Begins(UpTo(ss, n), UpTo(ss, n + (k + 1)))
    OBVIOUS
  <2> DEFINE m == n + (k + 1)
  <2>1. m \in 1 .. N /\ m - 1 = n + k /\ n + k <= N /\ n + k \in 0 .. N /\ m \in 0 .. N
    BY <1>1, <1>2
  <2>2. UpTo(ss, m) = UpTo(ss, n + k) \o ss[m] /\ ss[m] \in Seq(T)
    <3> HIDE DEF m
    <3>1. UpTo(ss, m) = UpTo(ss, m - 1) \o ss[m]
      BY <1>0, <2>1
    <3> QED BY <1>1, <2>1, <3>1
  <2>3. UpTo(ss, n + k) \in Seq(T) /\ UpTo(ss, m) \in Seq(T)
    BY <1>0, <2>1
  <2>4. Begins(UpTo(ss, n), UpTo(ss, n + k))
    BY <1>6, <2>1
  <2>5. Begins(UpTo(ss, n + k), UpTo(ss, m))
    BY <2>2, <2>3, BeginsBefore
  <2> HIDE DEF m
  <2>6. Begins(UpTo(ss, n), UpTo(ss, m))
    BY <1>3, <2>3, <2>4, <2>5, BeginsTrans
  <2> QED BY <2>6 DEF m
<1>7. \A k \in Nat : k \in S
  <2> HIDE DEF S
  <2> QED BY <1>5, <1>6, SetInduction
<1>8. N - n \in Nat /\ n + (N - n) = N /\ N <= N
  BY <1>1, <1>2
<1>9. Begins(UpTo(ss, n), UpTo(ss, N))
  <2>1. \A k \in Nat : n + k <= N => Begins(UpTo(ss, n), UpTo(ss, n + k))
    BY <1>7
  <2>2. n + (N - n) <= N => Begins(UpTo(ss, n), UpTo(ss, n + (N - n)))
    BY <1>8, <2>1
  <2> QED BY <1>8, <2>2
<1>10. UpTo(ss, n - 1) \o a \in Seq(T) /\ UpTo(ss, N) \in Seq(T)
  BY <1>0, <1>1, <1>2, <1>3
<1>11. Begins(UpTo(ss, n - 1) \o a, UpTo(ss, N))
  BY <1>3, <1>4, <1>9, <1>10, BeginsTrans
<1> QED BY <1>0, <1>11

-----------------------------------------------------------------------------
(***************************************************************************)
(* The tuples of a file, line by line.                                     *)
(***************************************************************************)
FileTuples == UNION {{TupleAt(f, l) : l \in 1 .. Readable(f)} : f \in DOMAIN Files}

Filters == Names \cup {NoFilter}

\* What was copied of a file whose first p lines were read.
EndsUpTo(f, flt, p) == {l \in Ends(f, flt) : l <= p}

Copied(f, flt, p) == TuplesAt(f, EndsUpTo(f, flt, p))

LEMMA TuplesNone == ASSUME NEW f PROVE TuplesAt(f, {}) = <<>>
<1>1. Cardinality({}) = 0
  BY FS_EmptySet
<1>2. 1 .. 0 = {}
  OBVIOUS
<1> QED BY <1>1, <1>2 DEF TuplesAt

LEMMA TuplesMore ==
  ASSUME NEW f, NEW S \in SUBSET Nat, IsFiniteSet(S), NEW l \in Nat, \A i \in S : i < l
  PROVE  TuplesAt(f, S \cup {l}) = Append(TuplesAt(f, S), TupleAt(f, l))
<1> DEFINE c == Cardinality(S)
           T == S \cup {l}
           P == TuplesAt(f, S)
<1>1. /\ c \in Nat /\ Cardinality(T) = c + 1
      /\ \A k \in 1 .. c : Ascending(T)[k] = Ascending(S)[k]
      /\ Ascending(T)[c + 1] = l
  BY AscendingMore
<1>2. P = [k \in 1 .. c |-> TupleAt(f, Ascending(S)[k])]
  BY DEF TuplesAt
<1>3. TuplesAt(f, T) = [k \in 1 .. c + 1 |-> TupleAt(f, Ascending(T)[k])]
  BY <1>1 DEF TuplesAt
<1> HIDE DEF c, T, P
<1>4. Append(P, TupleAt(f, l)) = [k \in 1 .. c + 1 |-> IF k = c + 1 THEN TupleAt(f, l) ELSE P[k]]
  BY <1>1, <1>2, LastIsNew
<1>5. \A k \in 1 .. c + 1 :
        TupleAt(f, Ascending(T)[k]) = IF k = c + 1 THEN TupleAt(f, l) ELSE P[k]
  BY <1>1, <1>2
<1> QED BY <1>3, <1>4, <1>5 DEF T, P

LEMMA EndsIs ==
  ASSUME NEW f \in DOMAIN Files, NEW flt
  PROVE  /\ Ends(f, flt) \subseteq 1 .. Readable(f)
         /\ \A l \in 1 .. Readable(f) :
              l \in Ends(f, flt) <=> (Lines(f)[l].kind = "done" /\ Accepts(flt, f, Lines(f)[l].name))
  BY DEF Ends, Lines

\* Lines without a tuple add nothing, the line of a tuple adds this one.
LEMMA CopiedSame ==
  ASSUME NEW f \in DOMAIN Files, NEW flt, NEW p \in 0 .. Readable(f), NEW q \in p .. Readable(f),
         \A l \in p + 1 .. q : l \notin Ends(f, flt)
  PROVE  Copied(f, flt, q) = Copied(f, flt, p)
<1>1. Readable(f) \in Nat
  BY FileTypes
<1>2. \A l \in 1 .. Readable(f) : l <= q => (l <= p \/ l \in p + 1 .. q)
  BY <1>1
<1>3. \A l \in 1 .. Readable(f) : l <= p => l <= q
  BY <1>1
<1>4. EndsUpTo(f, flt, q) = EndsUpTo(f, flt, p)
  BY <1>2, <1>3, EndsIs DEF EndsUpTo
<1> QED BY <1>4 DEF Copied

LEMMA CopiedNext ==
  ASSUME NEW f \in DOMAIN Files, NEW flt, NEW p \in 0 .. Readable(f),
         NEW q \in p + 1 .. Readable(f), q \in Ends(f, flt),
         \A l \in p + 1 .. q - 1 : l \notin Ends(f, flt)
  PROVE  Copied(f, flt, q) = Append(Copied(f, flt, p), TupleAt(f, q))
<1> DEFINE S == EndsUpTo(f, flt, p)
<1>1. Readable(f) \in Nat
  BY FileTypes
<1>2. /\ \A l \in 1 .. Readable(f) : l <= q <=> (l <= p \/ l \in p + 1 .. q - 1 \/ l = q)
      /\ q \in Nat
  BY <1>1
<1>3. EndsUpTo(f, flt, q) = S \cup {q}
  BY <1>2, EndsIs DEF EndsUpTo
<1>4. S \subseteq 1 .. p /\ p \in Nat
  <2>1. \A l \in 1 .. Readable(f) : l <= p => l \in 1 .. p
    BY <1>1
  <2> QED BY <2>1, EndsIs DEF EndsUpTo
<1> HIDE DEF S
<1>5. S \in SUBSET Nat /\ IsFiniteSet(S) /\ \A i \in S : i < q
  <2>1. IsFiniteSet(1 .. p)
    BY <1>4, FS_Interval
  <2>2. IsFiniteSet(S)
    BY <1>4, <2>1, FS_Subset
  <2>3. \A i \in 1 .. p : i \in Nat /\ i < q
    BY <1>1
  <2> QED BY <1>4, <2>2, <2>3
<1>6. TuplesAt(f, S \cup {q}) = Append(TuplesAt(f, S), TupleAt(f, q))
  BY <1>2, <1>5, TuplesMore
<1> QED BY <1>3, <1>6 DEF Copied, S

LEMMA CopiedNone ==
  ASSUME NEW f \in DOMAIN Files, NEW flt
  PROVE  Copied(f, flt, 0) = <<>>
<1>1. \A l \in 1 .. Readable(f) : ~(l <= 0)
  BY FileTypes
<1>2. EndsUpTo(f, flt, 0) = {}
  BY <1>1, EndsIs DEF EndsUpTo
<1> QED BY <1>2, TuplesNone DEF Copied

LEMMA CopiedAll ==
  ASSUME NEW f \in DOMAIN Files, NEW flt
  PROVE  Copied(f, flt, Readable(f)) = TuplesAt(f, Ends(f, flt))
<1>1. \A l \in 1 .. Readable(f) : l <= Readable(f)
  BY FileTypes
<1>2. EndsUpTo(f, flt, Readable(f)) = Ends(f, flt)
  BY <1>1, EndsIs DEF EndsUpTo
<1> QED BY <1>2 DEF Copied

LEMMA TupleAtIs ==
  ASSUME NEW f \in DOMAIN Files, NEW l \in 1 .. Readable(f)
  PROVE  TupleAt(f, l) \in FileTuples
  BY DEF FileTuples

\* What was copied of the first lines begins what there is to copy.
LEMMA CopiedIs ==
  ASSUME NEW f \in DOMAIN Files, NEW flt
  PROVE  /\ TuplesAt(f, Ends(f, flt)) \in Seq(FileTuples)
         /\ \A p \in 0 .. Readable(f) :
              /\ Copied(f, flt, p) \in Seq(FileTuples)
              /\ Begins(Copied(f, flt, p), TuplesAt(f, Ends(f, flt)))
<1> DEFINE N == Readable(f)
           C(p) == Copied(f, flt, p)
<1>1. N \in Nat
  BY FileTypes
<1>2. ASSUME NEW p \in 1 .. N
      PROVE  C(p) = C(p - 1) \/ C(p) = Append(C(p - 1), TupleAt(f, p))
  <2>1. p - 1 \in 0 .. N /\ p \in p - 1 .. N /\ p \in (p - 1) + 1 .. N
        /\ (\A l \in (p - 1) + 1 .. p - 1 : FALSE) /\ (\A l \in (p - 1) + 1 .. p : l = p)
    BY <1>1
  <2>2. CASE p \in Ends(f, flt)
    BY <2>1, <2>2, CopiedNext
  <2>3. CASE p \notin Ends(f, flt)
    BY <2>1, <2>3, CopiedSame
  <2> QED BY <2>2, <2>3
<1>3. C(0) = <<>>
  BY CopiedNone
<1>4. C(N) = TuplesAt(f, Ends(f, flt))
  BY CopiedAll
<1>5. \A t \in Seq(FileTuples), x \in FileTuples : Append(t, x) \in Seq(FileTuples)
  OBVIOUS
<1>6. \A p \in 1 .. N : TupleAt(f, p) \in FileTuples
  BY <1>1, TupleAtIs
<1> HIDE DEF C, N
<1> DEFINE S == {p \in Nat : p <= N => C(p) \in Seq(FileTuples)}
<1>7. 0 \in S
  <2>1. <<>> \in Seq(FileTuples)
    OBVIOUS
  <2> QED BY <1>3, <2>1
<1>8. ASSUME NEW p \in Nat, p \in S PROVE p + 1 \in S
  <2> SUFFICES ASSUME p + 1 <= N PROVE C(p + 1) \in Seq(FileTuples)
    OBVIOUS
  <2>1. p + 1 \in 1 .. N /\ p <= N /\ (p + 1) - 1 = p
    BY <1>1
  <2>2. C(p) \in Seq(FileTuples)
    BY <1>8, <2>1
  <2>3. C(p + 1) = C(p) \/ C(p + 1) = Append(C(p), TupleAt(f, p + 1))
    BY <1>2, <2>1
  <2> QED BY <1>5, <1>6, <2>1, <2>2, <2>3
<1>9. \A p \in Nat : p \in S
  <2> HIDE DEF S
  <2> QED BY <1>7, <1>8, SetInduction
<1>10. \A p \in 0 .. N : C(p) \in Seq(FileTuples)
  BY <1>1, <1>9
<1>11. ASSUME NEW p \in 1 .. N PROVE Begins(C(p - 1), C(p))
  <2>1. p - 1 \in 0 .. N
    BY <1>1
  <2>2. C(p - 1) \in Seq(FileTuples)
    BY <1>10, <2>1
  <2>3. \A t \in Seq(FileTuples), x \in FileTuples : Begins(t, t) /\ Begins(t, Append(t, x))
    BY DEF Begins
  <2> QED BY <1>2, <1>6, <2>2, <2>3
<1>12. ASSUME NEW p \in 0 .. N PROVE Begins(C(p), C(N))
  <2> DEFINE R == {k \in Nat : p + k <= N => Begins(C(p), C(p + k))}
  <2>1. 0 \in R
    <3>1. p + 0 = p
      BY <1>1
    <3>2. Begins(C(p), C(p))
      BY <1>10 DEF Begins
    <3> QED BY <3>1, <3>2
  <2>2. ASSUME NEW k \in Nat, k \in R PROVE k + 1 \in R
    <3> SUFFICES ASSUME p + (k + 1) <= N PROVE Begins(C(p), C(p + (k + 1)))
      OBVIOUS
    <3> DEFINE m == p + (k + 1)
    <3>1. m \in 1 .. N /\ m - 1 = p + k /\ p + k <= N /\ p + k \in 0 .. N /\ m \in 0 .. N
      BY <1>1
    <3> HIDE DEF m
    <3>2. Begins(C(p), C(p + k)) /\ Begins(C(p + k), C(m))
      BY <1>11, <2>2, <3>1
    <3>3. C(p) \in Seq(FileTuples) /\ C(p + k) \in Seq(FileTuples) /\ C(m) \in Seq(FileTuples)
      BY <1>10, <3>1
    <3>4. Begins(C(p), C(m))
      BY <3>2, <3>3, BeginsTrans
    <3> QED BY <3>4 DEF m
  <2>3. \A k \in Nat : k \in R
    <3> HIDE DEF R
    <3> QED BY <2>1, <2>2, SetInduction
  <2>4. N - p \in Nat /\ p + (N - p) = N /\ N <= N
    BY <1>1
  <2>5. \A k \in Nat : p + k <= N => Begins(C(p), C(p + k))
    BY <2>3
  <2>6. p + (N - p) <= N => Begins(C(p), C(p + (N - p)))
    BY <2>4, <2>5
  <2> QED BY <2>4, <2>6
<1>13. N \in 0 .. N
  BY <1>1
<1> QED BY <1>4, <1>10, <1>12, <1>13 DEF C, N

-----------------------------------------------------------------------------
(***************************************************************************)
(* One backend.                                                            *)
(***************************************************************************)
\* A sink that has read a file up to a line that completes a tuple, or not at all.
AtLine(sink, f, flt) ==
  /\ sink \in Sinks /\ sink.file = f /\ sink.filter = flt /\ sink.cur = NoTuple
  /\ sink.pos \in 0 .. Readable(f)
  /\ sink.pos > 0 => Lines(f)[sink.pos].kind = "done"

\* A clean gzip file leaves nothing in the prototype.
LEMMA CarriedToEnd ==
  ASSUME NEW f \in DOMAIN Files, IsClean(f), Files[f].backend = "gz",
         NEW p \in 0 .. Readable(f)
  PROVE  Carried(NoTuple, f, p + 1, Readable(f)) = NoTuple
<1> DEFINE N == Readable(f)
           M == N - (p + 1) + 1
<1>1. N \in Nat
  BY FileTypes
<1>2. p + 1 \in Nat /\ 1 <= p + 1 /\ p + 1 <= N + 1 /\ N <= N /\ M = N - p /\ M \in Nat
  BY <1>1
<1>3. PICK after : Carries(after, NoTuple, f, p + 1, N)
  BY <1>1, <1>2, NoTupleIs, CarriedIs
<1>4. /\ Carried(NoTuple, f, p + 1, N) = after[M] /\ after[0] = NoTuple
      /\ \A n \in 1 .. M : after[n] = Passed(after[n - 1], f, p + 1 + n - 1)
  BY <1>3 DEF Carries
<1>5. CASE M = 0
  BY <1>4, <1>5
<1>6. CASE M > 0
  <2>1. M \in 1 .. M /\ p + 1 + M - 1 = N /\ N > 0
    BY <1>1, <1>2, <1>6
  <2>2. Lines(f)[N].kind = "done"
    BY <2>1 DEF IsClean, Lines
  <2>3. after[M] = Passed(after[M - 1], f, N)
    BY <1>4, <2>1
  <2> QED BY <1>4, <2>2, <2>3 DEF Passed
<1> QED BY <1>2, <1>5, <1>6

\* The next tuple of a clean file is the next to copy; without one all are copied.
SinkCopied(sink, f, flt, res) ==
  /\ res.proto = NoTuple
  /\ \/ /\ res.kind = "terminate"
        /\ Copied(f, flt, sink.pos) = TuplesAt(f, Ends(f, flt))
     \/ /\ res.kind = "tuple" /\ AtLine(res.sink, f, flt) /\ res.tuple \in FileTuples
        /\ Copied(f, flt, res.sink.pos) = Append(Copied(f, flt, sink.pos), res.tuple)

LEMMA SinkCopies ==
  ASSUME NEW f \in DOMAIN Files, IsClean(f), NEW flt, NEW sink, AtLine(sink, f, flt),
         NEW res, res = SinkNext(sink, NoTuple)
  PROVE  /\ SinkCopied(sink, f, flt, res)
         /\ res.kind = "terminate" => Ends(f, flt) = {} \/ sink.pos > 0
<1> DEFINE p == sink.pos
           N == Readable(f)
<1>1. /\ sink \in Sinks /\ sink.file = f /\ sink.filter = flt /\ sink.cur = NoTuple
      /\ p \in 0 .. N /\ (p > 0 => Lines(f)[p].kind = "done")
      /\ N \in Nat /\ p \in Nat /\ p <= N
  BY FileTypes DEF AtLine
<1>2. StopsAt(sink) = {l \in Ends(f, flt) : l > p}
  <2>1. StopsAt(sink) = {i \in p + 1 .. N : IsStop(sink, i)}
    BY <1>1, StopsAtIs
  <2>2. \A i \in 1 .. N : IsStop(sink, i) <=> i \in Ends(f, flt)
    BY <1>1, EndsIs DEF IsStop, IsClean, Lines
  <2>3. \A i : i \in p + 1 .. N <=> (i \in 1 .. N /\ i > p)
    BY <1>1
  <2> QED BY <2>1, <2>2, <2>3, EndsIs
<1>3. Begun(sink, NoTuple) = NoTuple
  BY <1>1 DEF Begun
<1>4. CASE StopsAt(sink) = {}
  <2>1. /\ res.proto = (IF IsGz(sink) THEN AtEnd(sink, NoTuple) ELSE NoTuple)
        /\ res.kind = "terminate"
    BY <1>1, <1>4, NoTupleIs, SinkEnds
  <2>2. IsGz(sink) => AtEnd(sink, NoTuple) = NoTuple
    BY <1>1, <1>3, CarriedToEnd DEF IsGz, AtEnd
  <2>3. Copied(f, flt, N) = Copied(f, flt, p)
    <3>1. N \in p .. N /\ \A l \in p + 1 .. N : l > p
      BY <1>1
    <3>2. \A l \in p + 1 .. N : l \notin Ends(f, flt)
      BY <1>2, <1>4, <3>1
    <3> QED BY <1>1, <3>1, <3>2, CopiedSame
  <2>4. Ends(f, flt) = {} \/ p > 0
    <3>1. \A l \in 1 .. N : p = 0 => l > p
      BY <1>1
    <3> QED BY <1>1, <1>2, <1>4, <3>1, EndsIs
  <2> QED BY <2>1, <2>2, <2>3, <2>4, CopiedAll DEF SinkCopied
<1>5. CASE StopsAt(sink) # {}
  <2> DEFINE at == FirstStop(sink)
             c  == AtStop(sink, NoTuple)
  <2>1. /\ at \in StopsAt(sink) /\ at \in Nat /\ p < at /\ at <= N
        /\ c \in Tuples
        /\ res.sink \in Sinks /\ res.sink.file = f /\ res.sink.filter = flt
        /\ res.sink.pos = at
        /\ res.sink.cur = (IF IsGz(sink) THEN sink.cur ELSE NoTuple)
        /\ res.proto = (IF IsGz(sink) THEN NoTuple ELSE NoTuple)
        /\ res.kind = (IF Lines(f)[at].kind = "broken" THEN "exit" ELSE "tuple")
        /\ res.tuple = (IF Lines(f)[at].kind = "broken" THEN NoTuple ELSE AddLine(c, f, at))
    BY <1>1, <1>5, NoTupleIs, SinkStops
  <2>2. \A i \in StopsAt(sink) : at <= i
    BY <1>1, <1>5, StopsAtIs DEF FirstStop
  <2>3. c = Carried(NoTuple, f, p + 1, at - 1)
    BY <1>1, <1>3 DEF AtStop
  <2> HIDE DEF at, c
  <2>4. at \in Ends(f, flt) /\ at \in 1 .. N /\ at \in p + 1 .. N /\ Lines(f)[at].kind = "done"
    <3>1. at \in Ends(f, flt)
      BY <1>2, <2>1
    <3>2. at \in 1 .. N /\ at \in p + 1 .. N
      BY <1>1, <2>1
    <3> QED BY <3>1, <3>2, EndsIs
  <2>5. \A l \in p + 1 .. at - 1 : l \notin Ends(f, flt)
    <3>1. \A l \in p + 1 .. at - 1 : l > p /\ ~(at <= l)
      BY <1>1, <2>1
    <3> QED BY <1>2, <2>2, <3>1
  <2>6. IsRun(NoTuple, f, p)
    <3>1. CASE p = 0
      <4>1. OpenLines(f, 0) = {}
        BY DEF OpenLines
      <4> QED BY <3>1, <4>1, PartsNone, NoTupleIs DEF IsRun
    <3>2. CASE p > 0
      <4>1. p \in 1 .. N
        BY <1>1, <3>2
      <4>2. OpenLines(f, p) = {}
        BY <1>1, <3>2, <4>1, OpenLinesIs
      <4> QED BY <4>2, PartsNone, NoTupleIs DEF IsRun
    <3> QED BY <1>1, <3>1, <3>2
  <2>7. IsRun(c, f, at - 1)
    <3>1. /\ p + 1 \in Nat /\ at - 1 \in Nat /\ 1 <= p + 1 /\ p + 1 <= (at - 1) + 1
          /\ at - 1 <= N /\ (p + 1) - 1 = p
      BY <1>1, <2>1
    <3> QED BY <2>3, <2>6, <3>1, NoTupleIs, CarriedRun
  <2>8. res.tuple = TupleAt(f, at) /\ res.kind = "tuple" /\ res.proto = NoTuple
    <3>1. AddLine(c, f, at) = TupleAt(f, at)
      BY <2>1, <2>4, <2>7, RunAdded
    <3> QED BY <2>1, <2>4, <3>1
  <2>9. Copied(f, flt, at) = Append(Copied(f, flt, p), TupleAt(f, at))
    <3> HIDE DEF p
    <3>1. p \in 0 .. Readable(f) /\ at \in p + 1 .. Readable(f) /\ at \in Ends(f, flt)
      BY <1>1, <2>4
    <3> QED BY <2>5, <3>1, CopiedNext
  <2>10. AtLine(res.sink, f, flt)
    <3>1. at \in 0 .. N
      BY <1>1, <2>1
    <3> QED BY <1>1, <2>1, <2>4, <3>1 DEF AtLine
  <2>11. TupleAt(f, at) \in FileTuples
    BY <2>4, TupleAtIs
  <2> QED BY <2>1, <2>8, <2>9, <2>10, <2>11 DEF SinkCopied
<1> QED BY <1>4, <1>5

-----------------------------------------------------------------------------
(***************************************************************************)
(* One reader.                                                             *)
(***************************************************************************)
\* What there is to copy of a source, file by file.
Shares(s, flt) ==
  [k \in DOMAIN Readables(s) |-> TuplesAt(Readables(s)[k], Ends(Readables(s)[k], flt))]

\* A source that Plain() lets pass.
Suits(s, flt) ==
  /\ s \in Seq(DOMAIN Files) /\ flt \in Filters
  /\ IsComposite(s) => FitsComposite(s, flt)
  /\ \A k \in DOMAIN Readables(s) : IsClean(Readables(s)[k])

\* A reader in the midst of a source: the files behind the one in hand are untouched.
Reading(r, s, flt) ==
  /\ SoundReader(r) /\ r.multi = IsComposite(s)
  /\ DOMAIN r.sinks = DOMAIN Readables(s) /\ r.ptr \in DOMAIN Readables(s)
  /\ \A i \in DOMAIN Readables(s) : i >= r.ptr =>
       AtLine(r.sinks[i], Readables(s)[i], flt) /\ (i > r.ptr => r.sinks[i].pos = 0)

\* What was copied of the source by then.
ReadOf(r, s, flt) ==
  UpTo(Shares(s, flt), r.ptr - 1) \o Copied(Readables(s)[r.ptr], flt, r.sinks[r.ptr].pos)

LEMMA SharesIs ==
  ASSUME NEW s \in Seq(DOMAIN Files), NEW flt
  PROVE  /\ Shares(s, flt) \in Seq(Seq(FileTuples))
         /\ Len(Shares(s, flt)) = Len(Readables(s))
         /\ Len(Readables(s)) \in Nat /\ DOMAIN Readables(s) = 1 .. Len(Readables(s))
         /\ \A k \in DOMAIN Readables(s) :
              /\ Readables(s)[k] \in DOMAIN Files
              /\ Shares(s, flt)[k] = TuplesAt(Readables(s)[k], Ends(Readables(s)[k], flt))
<1> DEFINE rs == Readables(s)
           P == Shares(s, flt)
<1>1. rs \in Seq(DOMAIN Files)
  BY ReadablesIs
<1>2. P = [k \in DOMAIN rs |-> TuplesAt(rs[k], Ends(rs[k], flt))]
  BY DEF Shares
<1> HIDE DEF rs, P
<1>3. Len(rs) \in Nat /\ DOMAIN rs = 1 .. Len(rs) /\ \A k \in 1 .. Len(rs) : rs[k] \in DOMAIN Files
  BY <1>1
<1>4. \A k \in 1 .. Len(rs) : P[k] = TuplesAt(rs[k], Ends(rs[k], flt)) /\ P[k] \in Seq(FileTuples)
  BY <1>2, <1>3, CopiedIs
<1>5. P \in [1 .. Len(rs) -> Seq(FileTuples)]
  BY <1>2, <1>3, <1>4
<1>6. P \in Seq(Seq(FileTuples)) /\ Len(P) = Len(rs)
  BY <1>3, <1>5, AsSeq
<1> QED BY <1>3, <1>4, <1>6 DEF rs, P

\* A reader keeps its shape if its pointer stays at a sink and no sink reads too far.
LEMMA SoundAfter ==
  ASSUME NEW r, SoundReader(r), NEW q \in Reader, q.multi = r.multi,
         Len(q.sinks) = Len(r.sinks), q.ptr \in 1 .. Len(r.sinks), r.multi \/ q.ptr = 1,
         \A i \in DOMAIN r.sinks : q.sinks[i].pos <= Readable(q.sinks[i].file)
  PROVE  SoundReader(q) /\ DOMAIN q.sinks = DOMAIN r.sinks
<1>1. /\ r \in Reader /\ Len(r.sinks) \in Nat /\ DOMAIN r.sinks = 1 .. Len(r.sinks)
      /\ Len(r.sinks) >= 1 /\ (~r.multi => Len(r.sinks) = 1)
  BY ReaderTypes DEF SoundReader
<1>2. DOMAIN q.sinks = 1 .. Len(r.sinks)
  BY ReaderTypes
<1>3. q.ptr <= Len(q.sinks) + 1
  BY <1>1
<1> QED BY <1>1, <1>2, <1>3 DEF SoundReader

LEMMA AppendLast ==
  ASSUME NEW T, NEW a \in Seq(T), NEW b \in Seq(T), NEW x \in T
  PROVE  a \o Append(b, x) = Append(a \o b, x) /\ a \o <<>> = a /\ a \o b \in Seq(T)
  OBVIOUS

\* The next tuple of a reader is the next to copy; at its end all are copied.
LEMMA ReaderCopies ==
  ASSUME NEW s, NEW flt, Suits(s, flt), NEW r, Reading(r, s, flt),
         NEW res, res = ReaderNext(r, NoTuple)
  PROVE  /\ res.proto = NoTuple
         /\ \/ res.kind = "terminate" /\ ReadOf(r, s, flt) = FlattenSeq(Shares(s, flt))
            \/ /\ res.kind = "tuple" /\ Reading(res.reader, s, flt) /\ res.tuple \in FileTuples
               /\ ReadOf(res.reader, s, flt) = Append(ReadOf(r, s, flt), res.tuple)
<1> DEFINE rs == Readables(s)
           N == Len(rs)
           P == Shares(s, flt)
           p == r.ptr
           q == res.reader
           D == DOMAIN Files
<1>1. /\ s \in Seq(D) /\ flt \in Filters
      /\ (IsComposite(s) => FitsComposite(s, flt))
      /\ \A k \in DOMAIN rs : IsClean(rs[k])
  BY DEF Suits
<1>2. /\ P \in Seq(Seq(FileTuples)) /\ Len(P) = N /\ N \in Nat /\ DOMAIN rs = 1 .. N
      /\ \A k \in 1 .. N : rs[k] \in D /\ P[k] = TuplesAt(rs[k], Ends(rs[k], flt))
  BY <1>1, SharesIs
<1>3. /\ SoundReader(r) /\ r.multi = IsComposite(s) /\ DOMAIN r.sinks = 1 .. N /\ p \in 1 .. N
      /\ \A i \in 1 .. N : i >= p => AtLine(r.sinks[i], rs[i], flt)
      /\ \A i \in 1 .. N : i > p => r.sinks[i].pos = 0
  <2>1. DOMAIN rs = 1 .. N
    BY <1>2
  <2>2. /\ SoundReader(r) /\ r.multi = IsComposite(s) /\ DOMAIN r.sinks = DOMAIN rs
        /\ p \in DOMAIN rs
        /\ \A i \in DOMAIN rs : i >= p => AtLine(r.sinks[i], rs[i], flt)
        /\ \A i \in DOMAIN rs : i >= p => (i > p => r.sinks[i].pos = 0)
    BY DEF Reading
  <2>3. \A i \in 1 .. N : i > p => i >= p
    <3>1. p \in Nat /\ N \in Nat
      BY <1>2, <2>1, <2>2
    <3> HIDE DEF N, p
    <3> QED BY <3>1
  <2> HIDE DEF N, rs, p
  <2> QED BY <2>1, <2>2, <2>3
<1>4. /\ \A n \in 0 .. N : UpTo(P, n) \in Seq(FileTuples)
      /\ \A n \in 1 .. N : UpTo(P, n) = UpTo(P, n - 1) \o P[n]
      /\ UpTo(P, N) = FlattenSeq(P)
  BY <1>2, UpToIs
<1>5. /\ \A x : ReadOf(x, s, flt) = UpTo(P, x.ptr - 1) \o Copied(rs[x.ptr], flt, x.sinks[x.ptr].pos)
  BY DEF ReadOf
<1>6. Len(r.sinks) = N /\ r \in Reader /\ (~r.multi => N = 1 /\ p = 1)
  <2>1. r \in Reader /\ (~r.multi => Len(r.sinks) = 1 /\ p = 1)
    BY <1>3 DEF SoundReader
  <2>2. Len(r.sinks) \in Nat /\ DOMAIN r.sinks = 1 .. Len(r.sinks)
    BY <2>1, ReaderTypes
  <2>3. Len(r.sinks) = N
    BY <1>2, <1>3, <2>2
  <2> QED BY <2>1, <2>3
<1> DEFINE first == SinkNext(r.sinks[p], NoTuple)
<1>7. AtLine(r.sinks[p], rs[p], flt) /\ IsClean(rs[p]) /\ rs[p] \in D
  <2>1. p >= p /\ p \in 1 .. N
    BY <1>2, <1>3
  <2> QED BY <1>1, <1>2, <1>3, <2>1
<1>8. SinkCopied(r.sinks[p], rs[p], flt, first)
  BY <1>7, SinkCopies
<1>9. p \in 1 .. N /\ (Calls1(r, NoTuple, res) \/ Calls2(r, NoTuple, res))
  <2>1. p \in DOMAIN r.sinks
    BY <1>3
  <2> QED BY <1>3, <2>1, NoTupleIs, ReaderNextIs
<1> HIDE DEF rs, N, P, p, q, first, D
<1>10. p - 1 \in 0 .. N /\ p \in Nat
  BY <1>2, <1>3
<1>11. /\ \A k \in 1 .. N : \A i \in 0 .. Readable(rs[k]) : Copied(rs[k], flt, i) \in Seq(FileTuples)
       /\ \A k \in 1 .. N : Copied(rs[k], flt, 0) = <<>>
  BY <1>2, CopiedIs, CopiedNone DEF D
<1>12. /\ r.sinks[p].pos \in 0 .. Readable(rs[p])
       /\ ReadOf(r, s, flt) = UpTo(P, p - 1) \o Copied(rs[p], flt, r.sinks[p].pos)
  BY <1>5, <1>7 DEF AtLine, p
<1>13. CASE first.kind = "tuple"
  <2>1. /\ Replaces(r, q, p, first.sink) /\ Says(res, "tuple", first.tuple, first.proto)
        /\ q.ptr = p
    BY <1>9, <1>13 DEF Calls1, Calls2, first, p, q
  <2>2. /\ AtLine(first.sink, rs[p], flt) /\ first.proto = NoTuple /\ first.tuple \in FileTuples
        /\ Copied(rs[p], flt, first.sink.pos)
             = Append(Copied(rs[p], flt, r.sinks[p].pos), first.tuple)
    BY <1>8, <1>13 DEF SinkCopied
  <2>3. SoundReader(q) /\ DOMAIN q.sinks = 1 .. N /\ q.multi = r.multi
    <3>1. first.sink \in Sinks /\ first.sink.pos <= Readable(first.sink.file)
      BY <1>7, <2>2, FileTypes DEF AtLine, D
    <3>2. q.ptr \in 1 .. Len(r.sinks) /\ (r.multi \/ q.ptr = 1) /\ p \in DOMAIN r.sinks
      BY <1>3, <1>6, <2>1
    <3>3. /\ q \in Reader /\ q.multi = r.multi /\ Len(q.sinks) = Len(r.sinks)
          /\ \A i \in DOMAIN r.sinks : q.sinks[i] \in {r.sinks[i], first.sink}
      BY <2>1 DEF Replaces
    <3>4. \A i \in DOMAIN r.sinks : q.sinks[i].pos <= Readable(q.sinks[i].file)
      BY <1>3, <3>1, <3>3 DEF SoundReader
    <3> QED BY <1>3, <3>2, <3>3, <3>4, SoundAfter
  <2>4. Reading(q, s, flt)
    <3>1. /\ q.sinks[p] = first.sink /\ \A i \in 1 .. N : i # p => q.sinks[i] = r.sinks[i]
      BY <1>3, <2>1 DEF Replaces
    <3>2. \A i \in 1 .. N : i >= p => i = p \/ i > p
      BY <1>10
    <3>3. ~(p > p)
      BY <1>10
    <3> QED BY <1>2, <1>3, <2>1, <2>2, <2>3, <3>1, <3>2, <3>3 DEF Reading, rs, N
  <2>5. ReadOf(q, s, flt) = Append(ReadOf(r, s, flt), first.tuple)
    <3> DEFINE u == UpTo(P, p - 1)
               c == Copied(rs[p], flt, r.sinks[p].pos)
    <3>1. u \in Seq(FileTuples) /\ c \in Seq(FileTuples)
      BY <1>3, <1>4, <1>10, <1>11, <1>12
    <3>2. ReadOf(q, s, flt) = u \o Append(c, first.tuple)
      BY <1>5, <2>1, <2>2 DEF Replaces
    <3> HIDE DEF u, c
    <3>3. u \o Append(c, first.tuple) = Append(u \o c, first.tuple)
      BY <2>2, <3>1, AppendLast
    <3> QED BY <1>12, <3>2, <3>3 DEF u, c
  <2> QED BY <2>1, <2>2, <2>4, <2>5 DEF Says, q
<1>14. ASSUME first.kind = "terminate"
       PROVE  ReadOf(r, s, flt) = UpTo(P, p) /\ first.proto = NoTuple
  <2>1. first.proto = NoTuple /\ Copied(rs[p], flt, r.sinks[p].pos) = P[p]
    BY <1>2, <1>3, <1>8, <1>14 DEF SinkCopied
  <2> QED BY <1>3, <1>4, <1>12, <2>1
<1>15. CASE first.kind = "terminate" /\ Calls1(r, NoTuple, res)
  <2>1. Says(res, "terminate", first.tuple, first.proto) /\ (r.multi => p = Len(r.sinks))
    BY <1>15 DEF Calls1, first, p
  <2>2. p = N
    BY <1>3, <1>6, <2>1
  <2> QED BY <1>4, <1>14, <1>15, <2>1, <2>2 DEF Says, P
<1>16. CASE first.kind = "terminate" /\ Calls2(r, NoTuple, res)
  <2> DEFINE k == p + 1
             second == SinkNext(r.sinks[k], NoTuple)
  <2>1. PICK mid : /\ r.multi /\ k \in DOMAIN r.sinks
                   /\ Replaces(r, mid, p, first.sink) /\ Replaces(mid, q, k, second.sink)
                   /\ Says(res, second.kind, second.tuple, second.proto) /\ q.ptr = k
    BY <1>14, <1>16 DEF Calls2, first, p, q
  <2>2. k \in 1 .. N /\ k > p /\ k > 1 /\ k - 1 = p /\ k \in Nat /\ k >= p
    BY <1>2, <1>3, <1>10, <2>1
  <2> HIDE DEF k, second
  <2>3. AtLine(r.sinks[k], rs[k], flt) /\ r.sinks[k].pos = 0 /\ rs[k] \in D /\ IsClean(rs[k])
    BY <1>1, <1>2, <1>3, <2>2
  <2>4. /\ SinkCopied(r.sinks[k], rs[k], flt, second)
        /\ second.kind = "terminate" => Ends(rs[k], flt) = {} \/ r.sinks[k].pos > 0
    BY <2>3, SinkCopies DEF second, D
  <2>5. Ends(rs[k], flt) # {}
    <3>1. FitsComposite(s, flt)
      BY <1>1, <1>3, <2>1
    <3>2. k \in DOMAIN rs /\ k > 1
      BY <1>2, <2>2
    <3> QED BY <3>1, <3>2 DEF FitsComposite, rs
  <2>6. /\ second.kind = "tuple" /\ second.proto = NoTuple /\ AtLine(second.sink, rs[k], flt)
        /\ second.tuple \in FileTuples
        /\ Copied(rs[k], flt, second.sink.pos) = Append(<<>>, second.tuple)
    <3>1. Copied(rs[k], flt, r.sinks[k].pos) = <<>> /\ ~(r.sinks[k].pos > 0)
      BY <1>11, <2>2, <2>3
    <3> QED BY <2>4, <2>5, <3>1 DEF SinkCopied
  <2>7. SoundReader(q) /\ DOMAIN q.sinks = 1 .. N /\ q.multi = r.multi
    <3>1. second.sink \in Sinks /\ second.sink.pos <= Readable(second.sink.file)
      BY <2>3, <2>6, FileTypes DEF AtLine, D
    <3>2. first.sink \in Sinks /\ first.sink.pos <= Readable(first.sink.file)
      <4>1. r.sinks[p] \in Sinks /\ r.sinks[p].file = rs[p] /\ r.sinks[p].pos <= Readable(rs[p])
        BY <1>7, FileTypes DEF AtLine, D
      <4> QED BY <4>1, NoTupleIs, SinkNextIs DEF Advances, first
    <3>3. /\ q \in Reader /\ q.multi = r.multi /\ Len(q.sinks) = Len(r.sinks)
          /\ \A i \in 1 .. N : q.sinks[i] \in {r.sinks[i], first.sink, second.sink}
      <4>1. /\ mid \in Reader /\ mid.multi = r.multi /\ Len(mid.sinks) = Len(r.sinks)
            /\ \A i \in 1 .. N : mid.sinks[i] \in {r.sinks[i], first.sink}
        BY <1>3, <2>1 DEF Replaces
      <4>2. DOMAIN mid.sinks = 1 .. N
        BY <1>6, <4>1, ReaderTypes
      <4>3. /\ q \in Reader /\ q.multi = mid.multi /\ Len(q.sinks) = Len(mid.sinks)
            /\ \A i \in 1 .. N : q.sinks[i] \in {mid.sinks[i], second.sink}
        BY <2>1, <4>2 DEF Replaces
      <4> QED BY <4>1, <4>3
    <3>4. \A i \in DOMAIN r.sinks : q.sinks[i].pos <= Readable(q.sinks[i].file)
      BY <1>3, <3>1, <3>2, <3>3 DEF SoundReader
    <3>5. q.ptr \in 1 .. Len(r.sinks)
      BY <1>6, <2>1, <2>2
    <3> QED BY <1>3, <2>1, <3>3, <3>4, <3>5, SoundAfter
  <2>8. Reading(q, s, flt)
    <3>1. /\ q.sinks[k] = second.sink /\ \A i \in 1 .. N : i > k => q.sinks[i] = r.sinks[i]
      <4>1. \A i \in 1 .. N : i > k => i # k /\ i # p
        BY <1>10, <2>2
      <4>2. /\ mid \in Reader /\ Len(mid.sinks) = N
            /\ \A i \in 1 .. N : i # p => mid.sinks[i] = r.sinks[i]
        BY <1>3, <1>6, <2>1 DEF Replaces
      <4>3. DOMAIN mid.sinks = 1 .. N
        BY <4>2, ReaderTypes
      <4>4. q.sinks[k] = second.sink /\ \A i \in 1 .. N : i # k => q.sinks[i] = mid.sinks[i]
        BY <2>1, <4>3 DEF Replaces
      <4> QED BY <4>1, <4>2, <4>4
    <3>2. \A i \in 1 .. N : /\ i >= k => i = k \/ i > k
                            /\ i > k => i > p /\ i >= p
      BY <1>10, <2>2
    <3>3. ~(k > k)
      BY <2>2
    <3> QED BY <1>2, <1>3, <2>1, <2>2, <2>6, <2>7, <3>1, <3>2, <3>3 DEF Reading, rs, N
  <2>9. ReadOf(q, s, flt) = Append(ReadOf(r, s, flt), second.tuple)
    <3>1. q.sinks[k] = second.sink
      <4>1. k \in DOMAIN mid.sinks
        BY <1>3, <1>6, <2>1, <2>2, ReaderTypes DEF Replaces
      <4> QED BY <2>1 DEF Replaces
    <3>2. ReadOf(q, s, flt) = UpTo(P, p) \o Append(<<>>, second.tuple)
      BY <1>5, <2>1, <2>2, <2>6, <3>1
    <3>3. UpTo(P, p) \in Seq(FileTuples) /\ <<>> \in Seq(FileTuples)
      <4>1. p \in 0 .. N /\ \A T : <<>> \in Seq(T)
        BY <1>2, <1>3
      <4> QED BY <1>4, <4>1
    <3>4. UpTo(P, p) \o Append(<<>>, second.tuple) = Append(UpTo(P, p) \o <<>>, second.tuple)
      BY <2>6, <3>3, AppendLast
    <3> QED BY <1>14, <1>16, <2>6, <3>2, <3>3, <3>4, AppendLast
  <2> QED BY <2>1, <2>6, <2>8, <2>9 DEF Says, q
<1>17. first.kind \in {"tuple", "terminate"}
  BY <1>8 DEF SinkCopied
<1> QED BY <1>9, <1>13, <1>15, <1>16, <1>17 DEF P

\* What was copied of a source begins what there is to copy of it.
LEMMA ReadBegins ==
  ASSUME NEW s, NEW flt, Suits(s, flt), NEW r, Reading(r, s, flt)
  PROVE  /\ ReadOf(r, s, flt) \in Seq(FileTuples)
         /\ FlattenSeq(Shares(s, flt)) \in Seq(FileTuples)
         /\ Begins(ReadOf(r, s, flt), FlattenSeq(Shares(s, flt)))
<1> DEFINE rs == Readables(s)
           P == Shares(s, flt)
           p == r.ptr
           c == Copied(rs[p], flt, r.sinks[p].pos)
<1>1. /\ P \in Seq(Seq(FileTuples)) /\ Len(P) = Len(rs) /\ Len(rs) \in Nat
      /\ DOMAIN rs = 1 .. Len(rs)
      /\ \A k \in DOMAIN rs : rs[k] \in DOMAIN Files /\ P[k] = TuplesAt(rs[k], Ends(rs[k], flt))
  BY SharesIs DEF Suits
<1>2. p \in DOMAIN rs /\ r.sinks[p].pos \in 0 .. Readable(rs[p])
  <2>1. p \in DOMAIN rs
    BY DEF Reading
  <2>2. p >= p
    BY <1>1, <2>1
  <2> QED BY <2>1, <2>2 DEF Reading, AtLine
<1> HIDE DEF rs, P, p
<1>3. c \in Seq(FileTuples) /\ Begins(c, P[p])
  BY <1>1, <1>2, CopiedIs
<1>4. ReadOf(r, s, flt) = UpTo(P, p - 1) \o c
  BY DEF ReadOf, rs, P, p
<1> HIDE DEF c
<1>5. p \in 1 .. Len(P)
  BY <1>1, <1>2
<1>6. Begins(UpTo(P, p - 1) \o c, FlattenSeq(P))
  BY <1>1, <1>3, <1>5, BeginsAll
<1>7. /\ \A n \in 0 .. Len(P) : UpTo(P, n) \in Seq(FileTuples)
      /\ UpTo(P, Len(P)) = FlattenSeq(P)
  BY <1>1, UpToIs
<1>8. p - 1 \in 0 .. Len(P) /\ Len(P) \in 0 .. Len(P)
  BY <1>1, <1>5
<1>9. \A u, v \in Seq(FileTuples) : u \o v \in Seq(FileTuples)
  OBVIOUS
<1> QED BY <1>3, <1>4, <1>6, <1>7, <1>8, <1>9 DEF P

\* Filtered, of any filter.
FilterBy(r, flt) == IF flt = NoFilter THEN r ELSE WithFilter(r, flt)

\* A reader as it is when its source comes up.
Ready(s, flt) == IF Readables(s) = <<>> THEN NoReader ELSE FilterBy(Build(s), flt)

LEMMA BuildsReader ==
  ASSUME NEW s \in Seq(DOMAIN Files)
  PROVE  /\ Readables(s) = <<>> => Build(s) = NoReader
         /\ Readables(s) # <<>> => Build(s) # NoReader
<1>1. Readables(s) = <<>> => Build(s) = NoReader
  BY DEF Build
<1>2. Readables(s) # <<>> => Build(s) \in Reader
  BY BuildIs DEF SoundReader
<1> QED BY <1>1, <1>2, NoReaderAssumption

\* The filter of a backend alone.
LEMMA FilterOne ==
  ASSUME NEW r \in Reader, ~r.multi, Len(r.sinks) = 1, NEW flt \in Filters
  PROVE  LET q == WithFilter(r, flt)
         IN  /\ q \in Reader /\ q.multi = r.multi /\ q.ptr = r.ptr /\ Len(q.sinks) = 1
             /\ q.sinks[1] \in Sinks /\ q.sinks[1].file = r.sinks[1].file
             /\ q.sinks[1].pos = r.sinks[1].pos /\ q.sinks[1].cur = r.sinks[1].cur
             /\ q.sinks[1].filter = flt
             /\ r.sinks[1].filter = flt => q = r
<1> DEFINE q == WithFilter(r, flt)
           sink == [r.sinks[1] EXCEPT !.filter = flt]
           sinks == [r.sinks EXCEPT ![1] = sink]
<1>1. /\ r.multi \in BOOLEAN /\ r.ptr \in Nat \ {0} /\ r.sinks \in Seq(Sinks)
      /\ DOMAIN r.sinks = 1 .. 1 /\ r.sinks[1] \in Sinks /\ 1 \in 1 .. 1
  <2>1. 1 \in 1 .. 1
    OBVIOUS
  <2> QED BY <2>1, ReaderTypes
<1>2. q = [r EXCEPT !.sinks = sinks]
  BY DEF WithFilter
<1>3. /\ sink \in Sinks /\ sink.file = r.sinks[1].file /\ sink.cur = r.sinks[1].cur
      /\ sink.pos = r.sinks[1].pos /\ sink.filter = flt
      /\ r.sinks[1].filter = flt => sink = r.sinks[1]
  BY <1>1 DEF Sinks, Filters
<1> HIDE DEF sink
<1>4. /\ sinks \in Seq(Sinks) /\ Len(sinks) = 1 /\ sinks[1] = sink
      /\ sink = r.sinks[1] => sinks = r.sinks
  BY <1>1, <1>3
<1> HIDE DEF sinks
<1>5. /\ q \in Reader /\ q.multi = r.multi /\ q.ptr = r.ptr /\ q.sinks = sinks
      /\ sinks = r.sinks => q = r
  BY <1>1, <1>2, <1>4 DEF Reader
<1> HIDE DEF q
<1>6. q.sinks[1] = sink /\ Len(q.sinks) = 1
  BY <1>4, <1>5
<1> QED BY <1>3, <1>4, <1>5, <1>6 DEF q

\* Built and filtered a reader is at the beginning of its source; filtered and
\* counted again it stays what it is.
LEMMA ReadyIs ==
  ASSUME NEW s, NEW flt, Suits(s, flt), Readables(s) # <<>>, NEW r, r = Ready(s, flt)
  PROVE  /\ r # NoReader /\ Reading(r, s, flt) /\ ReadOf(r, s, flt) = <<>>
         /\ r.ptr = 1 /\ FilterBy(r, flt) = r
<1> DEFINE b == Build(s)
           rs == Readables(s)
           N == Len(rs)
<1>1. s \in Seq(DOMAIN Files) /\ flt \in Filters /\ (IsComposite(s) => flt = NoFilter)
  BY DEF Suits, FitsComposite
<1>2. /\ SoundReader(b) /\ b.ptr = 1 /\ b.multi = IsComposite(s)
      /\ DOMAIN b.sinks = DOMAIN rs
      /\ \A i \in DOMAIN rs :
           /\ b.sinks[i].file = rs[i] /\ b.sinks[i].pos = 0 /\ b.sinks[i].cur = NoTuple
           /\ b.sinks[i].filter = NoFilter
  BY <1>1, BuildIs
<1>3. /\ b \in Reader /\ Len(b.sinks) \in Nat /\ DOMAIN b.sinks = 1 .. Len(b.sinks)
      /\ Len(b.sinks) >= 1 /\ (~b.multi => Len(b.sinks) = 1)
      /\ \A i \in DOMAIN b.sinks : b.sinks[i] \in Sinks
  <2>1. b \in Reader /\ Len(b.sinks) >= 1 /\ (~b.multi => Len(b.sinks) = 1)
    BY <1>2 DEF SoundReader
  <2> HIDE DEF b
  <2> QED BY <2>1, ReaderTypes
<1>4. /\ \A k \in DOMAIN rs : rs[k] \in DOMAIN Files
      /\ N \in Nat /\ DOMAIN rs = 1 .. N
      /\ Shares(s, flt) \in Seq(Seq(FileTuples)) /\ Len(Shares(s, flt)) = N
  BY <1>1, SharesIs
<1>5. r = FilterBy(b, flt)
  BY DEF Ready
<1> HIDE DEF b
<1>6. /\ r \in Reader /\ r.multi = b.multi /\ r.ptr = 1 /\ Len(r.sinks) = Len(b.sinks)
      /\ \A i \in DOMAIN b.sinks :
           /\ r.sinks[i] \in Sinks /\ r.sinks[i].file = rs[i] /\ r.sinks[i].pos = 0
           /\ r.sinks[i].cur = NoTuple /\ r.sinks[i].filter = flt
      /\ FilterBy(r, flt) = r
  <2>1. CASE flt = NoFilter
    BY <1>2, <1>3, <1>5, <2>1 DEF FilterBy
  <2>2. CASE flt # NoFilter
    <3>1. ~b.multi /\ r = WithFilter(b, flt) /\ Len(b.sinks) = 1
      BY <1>1, <1>2, <1>3, <1>5, <2>2 DEF FilterBy
    <3>2. /\ r \in Reader /\ r.multi = b.multi /\ r.ptr = b.ptr /\ Len(r.sinks) = 1
          /\ r.sinks[1] \in Sinks /\ r.sinks[1].file = b.sinks[1].file
          /\ r.sinks[1].pos = b.sinks[1].pos /\ r.sinks[1].cur = b.sinks[1].cur
          /\ r.sinks[1].filter = flt
      BY <1>1, <1>3, <3>1, FilterOne
    <3>3. WithFilter(r, flt) = r
      BY <1>1, <3>1, <3>2, FilterOne
    <3>4. \A i \in DOMAIN b.sinks : i = 1
      BY <1>3, <3>1
    <3>5. FilterBy(r, flt) = r
      BY <3>3 DEF FilterBy
    <3> QED BY <1>2, <1>3, <3>1, <3>2, <3>4, <3>5
  <2> QED BY <2>1, <2>2
<1>7. DOMAIN r.sinks = DOMAIN rs /\ 1 \in DOMAIN rs
  <2>1. DOMAIN r.sinks = 1 .. Len(r.sinks)
    BY <1>6, ReaderTypes
  <2> QED BY <1>2, <1>3, <1>6, <2>1
<1>8. \A i \in DOMAIN rs : 0 \in 0 .. Readable(rs[i]) /\ Readable(rs[i]) \in Nat
  BY <1>4, FileTypes
<1>9. \A i \in DOMAIN rs : AtLine(r.sinks[i], rs[i], flt)
  BY <1>2, <1>6, <1>8 DEF AtLine
<1>10. SoundReader(r)
  BY <1>2, <1>3, <1>6, <1>7, <1>8 DEF SoundReader
<1>11. Reading(r, s, flt)
  BY <1>2, <1>6, <1>7, <1>9, <1>10 DEF Reading
<1>12. ReadOf(r, s, flt) = <<>>
  <2>1. Copied(rs[1], flt, r.sinks[1].pos) = <<>>
    <3>1. rs[1] \in DOMAIN Files /\ r.sinks[1].pos = 0
      BY <1>2, <1>4, <1>6, <1>7
    <3> QED BY <3>1, CopiedNone
  <2>2. 1 - 1 = 0 /\ <<>> \o <<>> = <<>>
    OBVIOUS
  <2>3. UpTo(Shares(s, flt), 0) = <<>>
    BY <1>4, UpToIs
  <2> QED BY <1>6, <2>1, <2>2, <2>3 DEF ReadOf
<1> QED BY <1>6, <1>11, <1>12, NoReaderAssumption

\* The count that the progress bar asks for costs a gzip file and a table nothing.
LEMMA CountsNothing ==
  ASSUME NEW r, r \in Reader,
         \A i \in DOMAIN r.sinks : Files[r.sinks[i].file].backend \in {"gz", "sqlite"}
  PROVE  Counted(r) = r
<1> DEFINE asked(i) == \A j \in 1 .. i : Files[r.sinks[j].file].backend # "sqlite"
           spent(sink) == IF Files[sink.file].backend = "gz" THEN sink
                          ELSE [sink EXCEPT !.pos = Readable(sink.file)]
           sinks == [i \in DOMAIN r.sinks |-> IF asked(i) THEN spent(r.sinks[i]) ELSE r.sinks[i]]
<1>1. /\ r.sinks \in Seq(Sinks) /\ Len(r.sinks) \in Nat /\ DOMAIN r.sinks = 1 .. Len(r.sinks)
  BY ReaderTypes
<1>2. Counted(r) = [r EXCEPT !.sinks = sinks]
  BY DEF Counted
<1>3. \A i \in DOMAIN r.sinks : i \in 1 .. i
  BY <1>1
<1>4. \A i \in DOMAIN r.sinks : asked(i) => Files[r.sinks[i].file].backend = "gz"
  BY <1>3
<1> HIDE DEF asked
<1>5. \A i \in DOMAIN r.sinks : sinks[i] = r.sinks[i]
  BY <1>4
<1>6. DOMAIN sinks = DOMAIN r.sinks /\ sinks = [i \in DOMAIN sinks |-> sinks[i]]
  OBVIOUS
<1>7. r.sinks = [i \in DOMAIN r.sinks |-> r.sinks[i]]
  BY <1>1
<1> HIDE DEF sinks
<1>8. sinks = r.sinks
  BY <1>5, <1>6, <1>7
<1> QED BY <1>2, <1>8 DEF Reader

-----------------------------------------------------------------------------
(***************************************************************************)
(* What a command line asks for.                                           *)
(***************************************************************************)
\* A missing file has no share: what is asked of the files of a source is asked of
\* those that open.
LEMMA OfFilesIs ==
  ASSUME NEW s \in Seq(DOMAIN Files), NEW flt \in Filters
  PROVE  /\ OfFiles(s, flt) = FlattenSeq(Shares(s, flt))
         /\ OfFiles(s, flt) \in Seq(FileTuples)
<1> DEFINE N == Len(s)
           T(f) == TuplesAt(f, Ends(f, flt))
           Of(t) == [k \in DOMAIN t |-> T(t[k])]
           F == [k \in DOMAIN s |-> Passing[<<s[k], flt>>]]
<1>1. N \in Nat /\ DOMAIN s = 1 .. N /\ \A k \in 1 .. N : s[k] \in DOMAIN Files
  OBVIOUS
<1>2. PICK upTo : Opens(upTo, s)
  BY ReadablesStep
<1>3. /\ \A n \in 0 .. N : upTo[n] \in Seq(DOMAIN Files)
      /\ Readables(s) = upTo[N] /\ upTo[0] = <<>>
      /\ \A n \in 1 .. N :
           upTo[n] = IF Files[s[n]].exists THEN Append(upTo[n - 1], s[n]) ELSE upTo[n - 1]
  BY <1>2 DEF Opens
<1>4. \A f \in DOMAIN Files : T(f) \in Seq(FileTuples)
  BY CopiedIs
<1>5. \A f \in DOMAIN Files : Passing[<<f, flt>>] = IF Files[f].exists THEN T(f) ELSE <<>>
  <2> TAKE f \in DOMAIN Files
  <2>1. <<f, flt>> \in (DOMAIN Files) \X (Names \cup {NoFilter})
        /\ <<f, flt>>[1] = f /\ <<f, flt>>[2] = flt
    BY DEF Filters
  <2> QED BY <2>1 DEF Passing
<1> HIDE DEF N, T
<1>6. /\ DOMAIN F = 1 .. N /\ F = [k \in 1 .. N |-> F[k]]
      /\ \A k \in 1 .. N : F[k] = IF Files[s[k]].exists THEN T(s[k]) ELSE <<>>
  BY <1>1, <1>5
<1>7. OfFiles(s, flt) = FlattenSeq(F)
  BY DEF OfFiles
<1>8. Shares(s, flt) = Of(Readables(s))
  BY DEF Shares, T
<1> HIDE DEF F
<1>9. F \in Seq(Seq(FileTuples)) /\ Len(F) = N
  <2>1. <<>> \in Seq(FileTuples)
    OBVIOUS
  <2>2. F \in [1 .. N -> Seq(FileTuples)]
    BY <1>1, <1>4, <1>6, <2>1
  <2> QED BY <1>1, <2>2, AsSeq
<1>10. /\ UpTo(F, 0) = <<>> /\ UpTo(F, N) = FlattenSeq(F)
       /\ \A n \in 0 .. N : UpTo(F, n) \in Seq(FileTuples)
       /\ \A n \in 1 .. N : UpTo(F, n) = UpTo(F, n - 1) \o F[n]
  BY <1>9, UpToIs
<1>11. ASSUME NEW t \in Seq(DOMAIN Files)
       PROVE  /\ Of(t) \in Seq(Seq(FileTuples))
              /\ \A f \in DOMAIN Files : Of(Append(t, f)) = Append(Of(t), T(f))
  <2>1. Len(t) \in Nat /\ DOMAIN t = 1 .. Len(t) /\ \A k \in 1 .. Len(t) : t[k] \in DOMAIN Files
    OBVIOUS
  <2>2. Of(t) \in [1 .. Len(t) -> Seq(FileTuples)]
    BY <1>4, <2>1
  <2>3. Of(t) \in Seq(Seq(FileTuples)) /\ Len(Of(t)) = Len(t)
    <3> HIDE DEF Of
    <3> QED BY <2>1, <2>2, AsSeq
  <2>4. ASSUME NEW f \in DOMAIN Files PROVE Of(Append(t, f)) = Append(Of(t), T(f))
    <3> DEFINE u == Append(t, f)
    <3>1. /\ DOMAIN u = 1 .. Len(t) + 1
          /\ \A k \in 1 .. Len(t) + 1 : u[k] = IF k = Len(t) + 1 THEN f ELSE t[k]
      OBVIOUS
    <3> HIDE DEF u
    <3>2. DOMAIN Of(t) = 1 .. Len(t) /\ Of(t) = [k \in 1 .. Len(t) |-> Of(t)[k]]
      BY <2>1
    <3>3. \A k \in 1 .. Len(t) + 1 : k # Len(t) + 1 => k \in 1 .. Len(t)
      BY <2>1
    <3>4. Of(u) = [k \in 1 .. Len(t) + 1 |-> IF k = Len(t) + 1 THEN T(f) ELSE Of(t)[k]]
      BY <2>1, <3>1, <3>3
    <3> HIDE DEF Of
    <3>5. Append(Of(t), T(f)) = [k \in 1 .. Len(t) + 1 |-> IF k = Len(t) + 1 THEN T(f) ELSE Of(t)[k]]
      BY <2>1, <3>2, LastIsNew
    <3> QED BY <3>4, <3>5 DEF u
  <2> QED BY <2>3, <2>4
<1> DEFINE S == {n \in Nat : n <= N => UpTo(F, n) = FlattenSeq(Of(upTo[n]))}
<1>12. 0 \in S
  <2>1. Of(<<>>) = <<>> /\ Len(<<>>) = 0
    OBVIOUS
  <2>2. FlattenSeq(<<>>) = <<>>
    BY <2>1 DEF FlattenSeq
  <2> QED BY <1>3, <1>10, <2>1, <2>2
<1> HIDE DEF Of
<1>13. ASSUME NEW n \in Nat, n \in S PROVE n + 1 \in S
  <2> SUFFICES ASSUME n + 1 <= N PROVE UpTo(F, n + 1) = FlattenSeq(Of(upTo[n + 1]))
    OBVIOUS
  <2> DEFINE m == n + 1
  <2>1. m \in 1 .. N /\ m - 1 = n /\ n <= N /\ n \in 0 .. N /\ m \in Nat
    BY <1>1
  <2> HIDE DEF m
  <2>2. UpTo(F, n) = FlattenSeq(Of(upTo[n])) /\ UpTo(F, m) = UpTo(F, n) \o F[m]
    BY <1>10, <1>13, <2>1
  <2>3. /\ upTo[n] \in Seq(DOMAIN Files) /\ s[m] \in DOMAIN Files
        /\ upTo[m] = IF Files[s[m]].exists THEN Append(upTo[n], s[m]) ELSE upTo[n]
        /\ F[m] = IF Files[s[m]].exists THEN T(s[m]) ELSE <<>>
    BY <1>1, <1>3, <1>6, <2>1
  <2>4. CASE Files[s[m]].exists
    <3>1. Of(upTo[m]) = Append(Of(upTo[n]), T(s[m]))
      BY <1>11, <2>3, <2>4
    <3>2. Of(upTo[n]) \in Seq(Seq(FileTuples)) /\ T(s[m]) \in Seq(FileTuples)
      BY <1>4, <1>11, <2>3
    <3>3. FlattenSeq(Append(Of(upTo[n]), T(s[m]))) = FlattenSeq(Of(upTo[n])) \o T(s[m])
      BY <3>2, FlattenMore
    <3> QED BY <2>2, <2>3, <2>4, <3>1, <3>3 DEF m
  <2>5. CASE ~Files[s[m]].exists
    <3>1. UpTo(F, n) \in Seq(FileTuples)
      BY <1>10, <2>1
    <3>2. \A u \in Seq(FileTuples) : u \o <<>> = u
      OBVIOUS
    <3> QED BY <2>2, <2>3, <2>5, <3>1, <3>2 DEF m
  <2> QED BY <2>4, <2>5
<1>14. \A n \in Nat : n \in S
  <2> HIDE DEF S
  <2> QED BY <1>12, <1>13, SetInduction
<1>15. UpTo(F, N) = FlattenSeq(Of(upTo[N])) /\ N \in 0 .. N
  <2>1. \A n \in Nat : n <= N => UpTo(F, n) = FlattenSeq(Of(upTo[n]))
    BY <1>14
  <2>2. N <= N /\ N \in 0 .. N
    BY <1>1
  <2> QED BY <1>1, <2>1, <2>2
<1> QED BY <1>3, <1>7, <1>8, <1>10, <1>15

\* What is asked of each source, and of all without a limit.
Asked(o) == [i \in DOMAIN o.sources |-> OfFiles(o.sources[i], o.filter)]

AllAsked(o) == FlattenSeq(Asked(o))

LEMMA AskedIs ==
  ASSUME NEW o \in CommandLine
  PROVE  /\ o.sources \in Seq(Seq(DOMAIN Files)) /\ o.filter \in Filters /\ o.max \in Int
         /\ Len(o.sources) \in Nat /\ DOMAIN o.sources = 1 .. Len(o.sources)
         /\ Asked(o) \in Seq(Seq(FileTuples)) /\ Len(Asked(o)) = Len(o.sources)
         /\ \A i \in 1 .. Len(o.sources) :
              /\ o.sources[i] \in Seq(DOMAIN Files)
              /\ Asked(o)[i] = FlattenSeq(Shares(o.sources[i], o.filter))
         /\ AllAsked(o) \in Seq(FileTuples) /\ Len(AllAsked(o)) \in Nat
<1> DEFINE N == Len(o.sources)
           A == Asked(o)
<1>1. /\ o.sources \in Seq(Seq(DOMAIN Files)) /\ o.filter \in Filters /\ o.max \in Int
  BY DEF CommandLine, Filters
<1>2. N \in Nat /\ DOMAIN o.sources = 1 .. N /\ \A i \in 1 .. N : o.sources[i] \in Seq(DOMAIN Files)
  BY <1>1
<1>3. A = [i \in 1 .. N |-> OfFiles(o.sources[i], o.filter)]
  BY <1>2 DEF Asked
<1> HIDE DEF N, A
<1>4. \A i \in 1 .. N : /\ A[i] = FlattenSeq(Shares(o.sources[i], o.filter))
                        /\ A[i] \in Seq(FileTuples)
  BY <1>1, <1>2, <1>3, OfFilesIs
<1>5. A \in [1 .. N -> Seq(FileTuples)]
  BY <1>3, <1>4
<1>6. A \in Seq(Seq(FileTuples)) /\ Len(A) = N
  BY <1>2, <1>5, AsSeq
<1>7. FlattenSeq(A) \in Seq(FileTuples)
  <2>1. UpTo(A, Len(A)) = FlattenSeq(A) /\ \A n \in 0 .. Len(A) : UpTo(A, n) \in Seq(FileTuples)
    BY <1>6, UpToIs
  <2>2. Len(A) \in 0 .. Len(A)
    BY <1>2, <1>6
  <2> QED BY <2>1, <2>2
<1>8. \A t \in Seq(FileTuples) : Len(t) \in Nat
  OBVIOUS
<1> QED BY <1>1, <1>2, <1>4, <1>6, <1>7, <1>8 DEF AllAsked, N, A

\* The limit cuts what is asked for.
LEMMA WantedIs ==
  ASSUME NEW o \in CommandLine
  PROVE  /\ Wanted(o) \in Seq(FileTuples) /\ Len(Wanted(o)) <= Len(AllAsked(o))
         /\ \A k \in 1 .. Len(Wanted(o)) : Wanted(o)[k] = AllAsked(o)[k]
         /\ Len(Wanted(o)) = Len(AllAsked(o))
              \/ (o.max > 0 /\ Len(Wanted(o)) = o.max /\ o.max <= Len(AllAsked(o)))
         /\ o.max > 0 => Len(Wanted(o)) <= o.max
<1> DEFINE all == AllAsked(o)
           L == Len(all)
           m == Min({o.max, L})
<1>1. o.max \in Int /\ all \in Seq(FileTuples) /\ L \in Nat
  BY AskedIs
<1>2. Wanted(o) = IF o.max > 0 THEN SubSeq(all, 1, m) ELSE all
  BY DEF Wanted, AllAsked, Asked
<1> HIDE DEF all
<1>3. CASE o.max > 0
  <2>1. m \in {o.max, L} /\ m <= o.max /\ m <= L
    <3>1. \E x \in {o.max, L} : \A y \in {o.max, L} : x <= y
      BY <1>1
    <3> QED BY <3>1 DEF Min
  <2> HIDE DEF m
  <2>2. m \in Nat /\ m <= L
    BY <1>1, <1>3, <2>1
  <2>3. /\ SubSeq(all, 1, m) \in Seq(FileTuples) /\ Len(SubSeq(all, 1, m)) = m
        /\ \A k \in 1 .. m : SubSeq(all, 1, m)[k] = all[k]
    <3>1. \A k \in 1 .. m : k \in 1 .. L /\ all[k] \in FileTuples
      BY <1>1, <2>2
    <3>2. SubSeq(all, 1, m) = [k \in 1 .. m |-> all[k]]
      BY <1>1, <2>2
    <3>3. [k \in 1 .. m |-> all[k]] \in [1 .. m -> FileTuples]
      BY <3>1
    <3> QED BY <2>2, <3>2, <3>3, AsSeq
  <2> QED BY <1>1, <1>2, <1>3, <2>1, <2>2, <2>3 DEF all
<1>4. CASE ~(o.max > 0)
  BY <1>1, <1>2, <1>4 DEF all
<1> QED BY <1>3, <1>4

-----------------------------------------------------------------------------
(***************************************************************************)
(* The converter.                                                          *)
(***************************************************************************)
\* The sources that are still to come have readers that are fresh.
ToCome(i) ==
  pc = "bar" \/ (pc = "source" /\ i >= source) \/ (pc = "tuples" /\ i > source)

CopyInv ==
  /\ options \in CommandLine /\ Plain(options)
  /\ proto = NoTuple
  /\ DOMAIN readers = ToSet(options.sources)
  /\ pc \in {"bar", "source", "tuples", "closed"}
  /\ source \in 1 .. Len(options.sources) + 1
  /\ out \in Seq(FileTuples) /\ n_line = Len(out)
  /\ options.max > 0 => n_line <= options.max
  /\ Begins(out, AllAsked(options))
  /\ pc = "bar" => options.bar /\ out = <<>>
  /\ pc = "source" => Limit \/ out = UpTo(Asked(options), source - 1)
  /\ pc = "tuples" =>
       /\ HasSource /\ Reading(readers[Source], Source, options.filter)
       /\ \/ Limit
          \/ out = UpTo(Asked(options), source - 1)
                     \o ReadOf(readers[Source], Source, options.filter)
  /\ \A i \in DOMAIN options.sources : ToCome(i) =>
       readers[options.sources[i]] \in {NoReader, Ready(options.sources[i], options.filter)}

\* What a plain command line says of each of its sources.
LEMMA PlainIs ==
  ASSUME NEW o \in CommandLine, Plain(o), NEW i \in DOMAIN o.sources
  PROVE  /\ Suits(o.sources[i], o.filter) /\ o.sources[i] \in ToSet(o.sources)
         /\ o.bar => \A k \in DOMAIN Readables(o.sources[i]) :
                       Files[Readables(o.sources[i])[k]].backend \in {"gz", "sqlite"}
         /\ \A j \in DOMAIN o.sources : j # i => o.sources[j] # o.sources[i]
<1> DEFINE s == o.sources[i]
           rs == Readables(s)
<1>1. s \in Seq(DOMAIN Files) /\ o.filter \in Filters
  BY AskedIs
<1>2. s \in ToSet(o.sources)
  BY DEF ToSet
<1>3. \A k \in DOMAIN rs : rs[k] \in ToSet(rs)
  BY DEF ToSet
<1>4. /\ IsComposite(s) => FitsComposite(s, o.filter)
      /\ \A f \in ToSet(rs) : IsClean(f) /\ (o.bar => Files[f].backend \in {"gz", "sqlite"})
  BY <1>2 DEF Plain
<1>5. Suits(s, o.filter)
  BY <1>1, <1>3, <1>4 DEF Suits
<1> QED BY <1>2, <1>3, <1>4, <1>5 DEF Plain, Distinct

\* The reader that a source gets when it comes up.
LEMMA FileOfIs ==
  ASSUME NEW s, Suits(s, options.filter), readers[s] \in {NoReader, Ready(s, options.filter)}
  PROVE  /\ Readables(s) = <<>> => FileOf(s) = NoReader /\ Ready(s, options.filter) = NoReader
         /\ Readables(s) # <<>> =>
              /\ FileOf(s) # NoReader
              /\ Filtered(FileOf(s)) = Ready(s, options.filter)
<1> DEFINE r == Ready(s, options.filter)
<1>1. \A x : Filtered(x) = FilterBy(x, options.filter)
  BY DEF Filtered, FilterBy
<1>2. /\ Readables(s) = <<>> => Build(s) = NoReader
      /\ Readables(s) # <<>> => Build(s) # NoReader
  BY BuildsReader DEF Suits
<1>3. CASE Readables(s) = <<>>
  <2>1. r = NoReader
    BY <1>3 DEF Ready
  <2> QED BY <1>2, <1>3, <2>1 DEF FileOf
<1>4. CASE Readables(s) # <<>>
  <2>1. r # NoReader /\ FilterBy(r, options.filter) = r
    BY <1>4, ReadyIs
  <2>2. r = FilterBy(Build(s), options.filter)
    BY <1>4 DEF Ready
  <2> QED BY <1>1, <1>2, <1>4, <2>1, <2>2 DEF FileOf
<1> QED BY <1>3, <1>4

\* The progress bar leaves a plain source as it is.
LEMMA CountedReady ==
  ASSUME NEW s, NEW flt, Suits(s, flt), Readables(s) # <<>>,
         \A k \in DOMAIN Readables(s) : Files[Readables(s)[k]].backend \in {"gz", "sqlite"}
  PROVE  Counted(Ready(s, flt)) = Ready(s, flt)
<1> DEFINE r == Ready(s, flt)
<1>1. Reading(r, s, flt) /\ r.ptr = 1
  BY ReadyIs
<1>2. \A i \in DOMAIN Readables(s) : i >= 1
  BY SharesIs DEF Suits
<1> HIDE DEF r
<1>3. /\ r \in Reader /\ DOMAIN r.sinks = DOMAIN Readables(s)
      /\ \A i \in DOMAIN r.sinks : r.sinks[i].file = Readables(s)[i]
  BY <1>1, <1>2 DEF Reading, SoundReader, AtLine
<1> QED BY <1>3, CountsNothing DEF r

\* A step that the copy takes no part in.
Silent == UNCHANGED <<options, out>> /\ pc # "closed" /\ pc' # "closed"

\* The readers of the other sources stay as they are.
LEMMA OthersStay ==
  ASSUME CopyInv, NEW i \in DOMAIN options.sources, NEW r,
         readers' = [readers EXCEPT ![options.sources[i]] = r]
  PROVE  /\ DOMAIN readers' = ToSet(options.sources)
         /\ readers'[options.sources[i]] = r
         /\ \A j \in DOMAIN options.sources : j # i =>
              readers'[options.sources[j]] = readers[options.sources[j]]
<1>1. /\ options \in CommandLine /\ Plain(options) /\ DOMAIN readers = ToSet(options.sources)
  BY DEF CopyInv
<1>2. /\ options.sources[i] \in ToSet(options.sources)
      /\ \A j \in DOMAIN options.sources : j # i => options.sources[j] # options.sources[i]
  BY <1>1, PlainIs
<1> QED BY <1>1, <1>2

LEMMA CountStep ==
  ASSUME CopyInv, Count
  PROVE  CopyInv' /\ Silent
<1> DEFINE flt == options.filter
           s == Source
           r == FileOf(s)
           new == IF r = NoReader THEN r ELSE Counted(Filtered(r))
<1>1. /\ pc = "bar" /\ HasSource /\ UNCHANGED <<options, proto, n_line, out>>
      /\ readers' = [readers EXCEPT ![s] = new]
      /\ pc' \in {"bar", "source"}
      /\ source' \in {source + 1, 1} /\ (pc' = "source" => source' = 1)
  BY DEF Count
<1>2. /\ options \in CommandLine /\ Plain(options) /\ source \in 1 .. Len(options.sources) + 1
      /\ out = <<>> /\ options.bar /\ n_line = Len(out)
      /\ \A i \in DOMAIN options.sources :
           readers[options.sources[i]] \in {NoReader, Ready(options.sources[i], flt)}
  BY <1>1 DEF CopyInv, ToCome
<1>3. /\ Len(options.sources) \in Nat /\ DOMAIN options.sources = 1 .. Len(options.sources)
      /\ Asked(options) \in Seq(Seq(FileTuples))
  BY <1>2, AskedIs
<1>4. source \in DOMAIN options.sources /\ s = options.sources[source]
  BY <1>1, <1>2, <1>3 DEF HasSource, Source
<1>5. /\ Suits(s, flt)
      /\ \A k \in DOMAIN Readables(s) : Files[Readables(s)[k]].backend \in {"gz", "sqlite"}
  BY <1>2, <1>4, PlainIs
<1>6. new \in {NoReader, Ready(s, flt)}
  BY <1>2, <1>4, <1>5, FileOfIs, CountedReady
<1> HIDE DEF new, flt
<1>7. /\ DOMAIN readers' = ToSet(options.sources)
      /\ \A i \in DOMAIN options.sources :
           readers'[options.sources[i]] \in {NoReader, Ready(options.sources[i], flt)}
  <2>1. /\ DOMAIN readers' = ToSet(options.sources) /\ readers'[s] = new
        /\ \A j \in DOMAIN options.sources : j # source =>
             readers'[options.sources[j]] = readers[options.sources[j]]
    BY <1>1, <1>4, OthersStay
  <2> QED BY <1>2, <1>4, <1>6, <2>1
<1>8. source' \in 1 .. Len(options.sources) + 1
  BY <1>1, <1>2, <1>3 DEF HasSource
<1>9. pc' = "source" => out = UpTo(Asked(options), source' - 1)
  <2>1. UpTo(Asked(options), 0) = <<>>
    BY <1>3, UpToIs
  <2>2. 1 - 1 = 0
    OBVIOUS
  <2> QED BY <1>1, <1>2, <2>1, <2>2
<1> QED BY <1>1, <1>2, <1>7, <1>8, <1>9 DEF CopyInv, Silent, flt

LEMMA AllCountedStep ==
  ASSUME CopyInv, AllCounted
  PROVE  CopyInv' /\ Silent
<1>1. /\ pc = "bar" /\ pc' = "source" /\ source' = 1
      /\ UNCHANGED <<options, readers, proto, n_line, out>>
  BY DEF AllCounted
<1>2. options \in CommandLine /\ out = <<>>
  BY <1>1 DEF CopyInv
<1>3. /\ Len(options.sources) \in Nat /\ Asked(options) \in Seq(Seq(FileTuples))
  BY <1>2, AskedIs
<1>4. out = UpTo(Asked(options), 1 - 1) /\ 1 \in 1 .. Len(options.sources) + 1
  <2>1. 1 - 1 = 0 /\ 1 \in 1 .. Len(options.sources) + 1
    BY <1>3
  <2> QED BY <1>2, <1>3, <2>1, UpToIs
<1> QED BY <1>1, <1>4 DEF CopyInv, Silent, ToCome

LEMMA OpenSourceStep ==
  ASSUME CopyInv, OpenSource
  PROVE  CopyInv' /\ Silent
<1> DEFINE flt == options.filter
           s == Source
           r == FileOf(s)
           new == IF r = NoReader THEN r ELSE Filtered(r)
           A == Asked(options)
<1>1. /\ pc = "source" /\ HasSource /\ UNCHANGED <<options, proto, n_line, out>>
      /\ readers' = [readers EXCEPT ![s] = new]
      /\ pc' = (IF r = NoReader THEN "source" ELSE "tuples")
      /\ source' = (IF r = NoReader THEN source + 1 ELSE source)
  BY DEF OpenSource
<1>2. /\ options \in CommandLine /\ Plain(options) /\ source \in 1 .. Len(options.sources) + 1
      /\ out \in Seq(FileTuples)
      /\ Limit \/ out = UpTo(A, source - 1)
      /\ \A i \in DOMAIN options.sources : i >= source =>
           readers[options.sources[i]] \in {NoReader, Ready(options.sources[i], flt)}
  BY <1>1 DEF CopyInv, ToCome
<1>3. /\ Len(options.sources) \in Nat /\ DOMAIN options.sources = 1 .. Len(options.sources)
      /\ A \in Seq(Seq(FileTuples)) /\ Len(A) = Len(options.sources)
      /\ \A i \in 1 .. Len(options.sources) : A[i] = FlattenSeq(Shares(options.sources[i], flt))
  BY <1>2, AskedIs
<1>4. source \in DOMAIN options.sources /\ s = options.sources[source] /\ source >= source
  BY <1>1, <1>2, <1>3 DEF HasSource, Source
<1>5. Suits(s, flt) /\ readers[s] \in {NoReader, Ready(s, flt)}
  BY <1>2, <1>4, PlainIs
<1>6. /\ Readables(s) = <<>> => r = NoReader /\ Ready(s, flt) = NoReader
      /\ Readables(s) # <<>> => r # NoReader /\ new = Ready(s, flt)
      /\ r = NoReader => new = NoReader
  BY <1>5, FileOfIs
<1> HIDE DEF r, new, A
<1>7. /\ DOMAIN readers' = ToSet(options.sources) /\ readers'[s] = new
      /\ \A j \in DOMAIN options.sources : j # source =>
           readers'[options.sources[j]] = readers[options.sources[j]]
  BY <1>1, <1>4, OthersStay
<1>8. Limit' = Limit
  BY <1>1 DEF Limit
<1>9. CASE r = NoReader
  <2>1. A[source] = <<>> /\ UpTo(A, source) = UpTo(A, source - 1) /\ (source + 1) - 1 = source
    <3>1. Readables(s) = <<>>
      BY <1>6, <1>9
    <3>2. Shares(s, flt) = <<>>
      BY <3>1 DEF Shares
    <3>3. Len(<<>>) = 0
      OBVIOUS
    <3>4. FlattenSeq(<<>>) = <<>>
      BY <3>3 DEF FlattenSeq
    <3>5. A[source] = <<>>
      BY <1>3, <1>4, <3>2, <3>4
    <3>6. source - 1 \in 0 .. Len(A) /\ source \in 1 .. Len(A) /\ (source + 1) - 1 = source
      BY <1>3, <1>4
    <3>7. UpTo(A, source - 1) \in Seq(FileTuples) /\ UpTo(A, source) = UpTo(A, source - 1) \o A[source]
      BY <1>3, <3>6, UpToIs
    <3>8. \A t \in Seq(FileTuples) : t \o <<>> = t
      OBVIOUS
    <3> QED BY <3>5, <3>6, <3>7, <3>8
  <2>2. pc' = "source" /\ source' = source + 1
    BY <1>1, <1>9
  <2>3. source' \in 1 .. Len(options.sources) + 1
    BY <1>3, <1>4, <2>2
  <2>4. Limit' \/ out = UpTo(A, source' - 1)
    BY <1>2, <1>8, <2>1, <2>2
  <2>5. \A i \in DOMAIN options.sources : i >= source' =>
          readers'[options.sources[i]] \in {NoReader, Ready(options.sources[i], flt)}
    <3>1. \A i \in DOMAIN options.sources : i >= source + 1 => i >= source /\ i # source
      BY <1>3, <1>4
    <3> QED BY <1>2, <1>7, <2>2, <3>1
  <2> QED BY <1>1, <1>7, <2>2, <2>3, <2>4, <2>5 DEF CopyInv, Silent, ToCome, A
<1>10. CASE r # NoReader
  <2>1. new = Ready(s, flt) /\ Readables(s) # <<>>
    BY <1>6, <1>10
  <2>2. Reading(new, s, flt) /\ ReadOf(new, s, flt) = <<>>
    BY <1>5, <2>1, ReadyIs
  <2>3. pc' = "tuples" /\ source' = source /\ Source' = s /\ HasSource'
    BY <1>1, <1>10 DEF Source, HasSource
  <2>4. UpTo(A, source - 1) \o <<>> = UpTo(A, source - 1)
    <3>1. source - 1 \in 0 .. Len(A)
      BY <1>3, <1>4
    <3>2. UpTo(A, source - 1) \in Seq(FileTuples)
      BY <1>3, <3>1, UpToIs
    <3>3. \A t \in Seq(FileTuples) : t \o <<>> = t
      OBVIOUS
    <3> QED BY <3>2, <3>3
  <2>5. Limit' \/ out = UpTo(A, source - 1) \o ReadOf(new, s, flt)
    BY <1>2, <1>8, <2>2, <2>4
  <2>6. \A i \in DOMAIN options.sources : i > source =>
          readers'[options.sources[i]] \in {NoReader, Ready(options.sources[i], flt)}
    <3>1. \A i \in DOMAIN options.sources : i > source => i >= source /\ i # source
      BY <1>3, <1>4
    <3> QED BY <1>2, <1>7, <3>1
  <2> HIDE DEF s
  <2> QED BY <1>1, <1>7, <2>2, <2>3, <2>5, <2>6 DEF CopyInv, Silent, ToCome, A
<1> QED BY <1>9, <1>10

\* What begins all that is asked and keeps to the limit begins what is wanted.
LEMMA BeginsWanted ==
  ASSUME NEW o \in CommandLine, NEW t \in Seq(FileTuples), Begins(t, AllAsked(o)),
         o.max > 0 => Len(t) <= o.max
  PROVE  Begins(t, Wanted(o))
<1> DEFINE w == Wanted(o)
           all == AllAsked(o)
<1>1. /\ w \in Seq(FileTuples) /\ \A k \in 1 .. Len(w) : w[k] = all[k]
      /\ Len(w) = Len(all) \/ (o.max > 0 /\ Len(w) = o.max)
  BY WantedIs
<1>2. all \in Seq(FileTuples) /\ o.max \in Int
  BY AskedIs
<1>3. Len(t) <= Len(all) /\ \A k \in 1 .. Len(t) : t[k] = all[k]
  BY DEF Begins
<1> HIDE DEF w, all
<1>4. Len(t) \in Nat /\ Len(w) \in Nat /\ Len(all) \in Nat
  BY <1>1, <1>2
<1>5. Len(t) <= Len(w)
  BY <1>1, <1>2, <1>3, <1>4
<1>6. \A k \in 1 .. Len(t) : k \in 1 .. Len(w)
  BY <1>4, <1>5
<1> QED BY <1>1, <1>3, <1>5, <1>6 DEF Begins, w, all

\* A step of TupleCopy, or none.
CopyMoves == Copies!Next \/ UNCHANGED Copies!vars

LEMMA SilentMoves ==
  ASSUME Silent
  PROVE  CopyMoves
<1>1. UNCHANGED <<options, out>> /\ (pc' = "closed") = FALSE /\ (pc = "closed") = FALSE
  BY DEF Silent
<1>2. Wanted(options)' = Wanted(options)
  BY <1>1 DEF Wanted
<1> QED BY <1>1, <1>2 DEF CopyMoves, Copies!vars

LEMMA CopyTupleStep ==
  ASSUME CopyInv, CopyTuple
  PROVE  CopyInv' /\ CopyMoves
<1> DEFINE flt == options.filter
           s == Source
           r == readers[s]
           res == ReaderNext(r, proto)
           A == Asked(options)
           all == AllAsked(options)
           done == res.kind = "terminate" \/ (res.kind = "tuple" /\ Limit)
<1>1. /\ pc = "tuples" /\ options' = options
      /\ readers' = [readers EXCEPT ![s] = res.reader] /\ proto' = res.proto
      /\ pc' = (CASE res.kind = "exit" -> "exited"
                  [] res.kind = "undefined" -> "crashed"
                  [] OTHER -> IF done THEN "source" ELSE "tuples")
      /\ source' = (IF done THEN source + 1 ELSE source)
      /\ IF res.kind = "tuple" /\ ~Limit
         THEN out' = Append(out, res.tuple) /\ n_line' = n_line + 1
         ELSE UNCHANGED <<out, n_line>>
  BY DEF CopyTuple
<1>2. /\ options \in CommandLine /\ Plain(options) /\ source \in 1 .. Len(options.sources) + 1
      /\ proto = NoTuple /\ out \in Seq(FileTuples) /\ n_line = Len(out)
      /\ options.max > 0 => n_line <= options.max
      /\ Begins(out, all)
      /\ HasSource /\ Reading(r, s, flt)
      /\ Limit \/ out = UpTo(A, source - 1) \o ReadOf(r, s, flt)
      /\ \A i \in DOMAIN options.sources : i > source =>
           readers[options.sources[i]] \in {NoReader, Ready(options.sources[i], flt)}
  BY <1>1 DEF CopyInv, ToCome
<1>3. /\ Len(options.sources) \in Nat /\ DOMAIN options.sources = 1 .. Len(options.sources)
      /\ A \in Seq(Seq(FileTuples)) /\ Len(A) = Len(options.sources)
      /\ \A i \in 1 .. Len(options.sources) : A[i] = FlattenSeq(Shares(options.sources[i], flt))
      /\ options.max \in Int /\ all \in Seq(FileTuples) /\ all = FlattenSeq(A)
  BY <1>2, AskedIs DEF AllAsked
<1>4. source \in DOMAIN options.sources /\ s = options.sources[source]
      /\ source \in 1 .. Len(A) /\ source \in Nat
  <2>1. source \in 1 .. Len(options.sources)
    BY <1>2, <1>3 DEF HasSource
  <2> QED BY <1>3, <2>1 DEF Source
<1>5. Suits(s, flt)
  BY <1>2, <1>4, PlainIs
<1>6. /\ res.proto = NoTuple
      /\ \/ res.kind = "terminate" /\ ReadOf(r, s, flt) = A[source]
         \/ /\ res.kind = "tuple" /\ Reading(res.reader, s, flt) /\ res.tuple \in FileTuples
            /\ ReadOf(res.reader, s, flt) = Append(ReadOf(r, s, flt), res.tuple)
  BY <1>2, <1>3, <1>4, <1>5, ReaderCopies
<1>7. /\ DOMAIN readers' = ToSet(options.sources) /\ readers'[s] = res.reader
      /\ \A j \in DOMAIN options.sources : j # source =>
           readers'[options.sources[j]] = readers[options.sources[j]]
  BY <1>1, <1>4, OthersStay
<1>8. /\ UpTo(A, source - 1) \in Seq(FileTuples)
      /\ UpTo(A, source) = UpTo(A, source - 1) \o A[source]
  <2>1. source - 1 \in 0 .. Len(A)
    BY <1>3, <1>4
  <2> QED BY <1>3, <1>4, <2>1, UpToIs
<1>9. \A j \in DOMAIN options.sources :
        (j > source \/ j >= source + 1) => j > source /\ j # source
  BY <1>3, <1>4
<1>10. Wanted(options)' = Wanted(options)
  BY <1>1 DEF Wanted
<1> HIDE DEF res, A, all
<1>11. CASE done
  <2>1. pc' = "source" /\ source' = source + 1 /\ UNCHANGED <<out, n_line>>
    BY <1>1, <1>11
  <2>2. Limit' = Limit
    BY <1>1, <2>1 DEF Limit
  <2>3. Limit \/ out = UpTo(A, (source + 1) - 1)
    <3>1. (source + 1) - 1 = source
      BY <1>4
    <3> QED BY <1>2, <1>6, <1>8, <1>11, <3>1
  <2>4. source + 1 \in 1 .. Len(options.sources) + 1
    BY <1>3, <1>4
  <2>5. \A i \in DOMAIN options.sources : i >= source + 1 =>
          readers'[options.sources[i]] \in {NoReader, Ready(options.sources[i], flt)}
    BY <1>2, <1>7, <1>9
  <2>6. CopyInv'
    BY <1>1, <1>2, <1>6, <1>7, <2>1, <2>2, <2>3, <2>4, <2>5 DEF CopyInv, ToCome, A, all
  <2>7. Silent
    BY <1>1, <2>1 DEF Silent
  <2> QED BY <2>6, <2>7, SilentMoves
<1>12. CASE ~done
  <2> DEFINE t == res.tuple
             q == res.reader
  <2>1. /\ res.kind = "tuple" /\ ~Limit /\ pc' = "tuples" /\ source' = source
        /\ out' = Append(out, t) /\ n_line' = n_line + 1
    BY <1>1, <1>6, <1>12
  <2>2. /\ Reading(q, s, flt) /\ t \in FileTuples
        /\ ReadOf(q, s, flt) = Append(ReadOf(r, s, flt), t)
    BY <1>6, <2>1
  <2>3. Source' = s /\ HasSource'
    BY <1>1, <1>2, <2>1 DEF Source, HasSource
  <2> HIDE DEF t, q, r, s, flt
  <2>4. out' = UpTo(A, source - 1) \o ReadOf(q, s, flt)
    <3>1. ReadOf(r, s, flt) \in Seq(FileTuples)
      BY <1>2, <1>5, ReadBegins
    <3>2. out = UpTo(A, source - 1) \o ReadOf(r, s, flt)
      BY <1>2, <2>1
    <3> QED BY <1>8, <2>1, <2>2, <3>1, <3>2, AppendLast
  <2>5. Begins(out', all)
    <3>1. /\ ReadOf(q, s, flt) \in Seq(FileTuples)
          /\ Begins(ReadOf(q, s, flt), FlattenSeq(Shares(s, flt)))
      BY <1>5, <2>2, ReadBegins
    <3>2. A[source] = FlattenSeq(Shares(s, flt))
      BY <1>3, <1>4 DEF s, flt
    <3> QED BY <1>3, <1>4, <2>4, <3>1, <3>2, BeginsAll
  <2>6. /\ out' \in Seq(FileTuples) /\ Len(out') = Len(out) + 1 /\ Len(out) \in Nat
        /\ out'[Len(out) + 1] = t
    BY <1>2, <2>1, <2>2
  <2>7. n_line' = Len(out') /\ (options.max > 0 => n_line' <= options.max)
    BY <1>2, <1>3, <2>1, <2>6 DEF Limit
  <2>8. \A i \in DOMAIN options.sources : i > source =>
          readers'[options.sources[i]] \in {NoReader, Ready(options.sources[i], flt)}
    BY <1>2, <1>7, <1>9 DEF flt
  <2>9. CopyInv'
    <3>1. readers'[Source'] = q /\ Source' = s
      BY <1>7, <2>3 DEF q, s
    <3>2. options.filter = flt
      BY DEF flt
    <3> HIDE DEF s
    <3> QED BY <1>1, <1>2, <1>6, <1>7, <2>1, <2>2, <2>3, <2>4, <2>5, <2>6, <2>7, <2>8,
               <3>1, <3>2 DEF CopyInv, ToCome, A, all
  <2>10. Copies!CopyOne
    <3> DEFINE w == Wanted(options)
    <3>1. Begins(out', w)
      BY <1>2, <2>5, <2>6, <2>7, BeginsWanted DEF all
    <3>2. w \in Seq(FileTuples)
      BY <1>2, WantedIs
    <3> HIDE DEF w
    <3>3. Len(out) < Len(w) /\ w[Len(out) + 1] = t
      <4>1. Len(out) + 1 <= Len(w) /\ Len(w) \in Nat
        BY <2>6, <3>1, <3>2 DEF Begins
      <4>2. Len(out) + 1 \in 1 .. Len(out')
        BY <2>6
      <4> QED BY <2>6, <3>1, <4>1, <4>2 DEF Begins
    <3>4. (pc = "closed") = FALSE /\ (pc' = "closed") = FALSE
      BY <1>1, <2>1
    <3> QED BY <1>10, <2>1, <3>3, <3>4 DEF Copies!CopyOne, w
  <2> QED BY <2>9, <2>10 DEF CopyMoves, Copies!Next
<1> QED BY <1>11, <1>12

LEMMA CloseStep ==
  ASSUME CopyInv, CloseWriters
  PROVE  CopyInv' /\ CopyMoves
<1> DEFINE A == Asked(options)
           all == AllAsked(options)
           w == Wanted(options)
<1>1. /\ pc = "source" /\ ~HasSource /\ pc' = "closed"
      /\ UNCHANGED <<options, readers, proto, source, n_line, out>>
  BY DEF CloseWriters
<1>2. /\ options \in CommandLine /\ source \in 1 .. Len(options.sources) + 1
      /\ out \in Seq(FileTuples) /\ n_line = Len(out)
      /\ options.max > 0 => n_line <= options.max
      /\ Begins(out, all)
      /\ Limit \/ out = UpTo(A, source - 1)
  BY <1>1 DEF CopyInv
<1>3. /\ Len(options.sources) \in Nat /\ A \in Seq(Seq(FileTuples))
      /\ Len(A) = Len(options.sources) /\ options.max \in Int
      /\ all \in Seq(FileTuples) /\ all = FlattenSeq(A)
  BY <1>2, AskedIs DEF AllAsked
<1>4. source - 1 = Len(A)
  BY <1>1, <1>2, <1>3 DEF HasSource
<1>5. UpTo(A, Len(A)) = all
  BY <1>3, UpToIs
<1>6. /\ w \in Seq(FileTuples) /\ Len(w) <= Len(all)
      /\ options.max > 0 => Len(w) <= options.max
      /\ Begins(out, w)
  BY <1>2, WantedIs, BeginsWanted
<1> HIDE DEF A, all, w
<1>7. Len(out) \in Nat /\ Len(w) \in Nat /\ Len(all) \in Nat
  BY <1>2, <1>3, <1>6
<1>8. Len(w) <= Len(out)
  <2>1. CASE Limit
    BY <1>2, <1>3, <1>6, <1>7, <2>1 DEF Limit
  <2>2. CASE ~Limit
    BY <1>2, <1>4, <1>5, <1>6, <2>2
  <2> QED BY <2>1, <2>2
<1>9. out = w
  <2>1. Len(out) = Len(w) /\ \A k \in 1 .. Len(out) : out[k] = w[k]
    BY <1>6, <1>7, <1>8 DEF Begins
  <2> QED BY <1>2, <1>6, <2>1
<1>10. CopyInv'
  BY <1>1 DEF CopyInv, ToCome
<1>11. Copies!End
  <2>1. (pc = "closed") = FALSE /\ (pc' = "closed") = TRUE
    BY <1>1
  <2>2. Wanted(options)' = Wanted(options)
    BY <1>1 DEF Wanted
  <2> QED BY <1>1, <1>9, <2>1, <2>2 DEF Copies!End, w
<1> QED BY <1>10, <1>11 DEF CopyMoves, Copies!Next

LEMMA InitCopies ==
  ASSUME Init, Plain(options)
  PROVE  CopyInv /\ Copies!Init
<1>1. /\ options \in CommandLine /\ proto = NoTuple /\ source = 1 /\ n_line = 0 /\ out = <<>>
      /\ readers = [s \in ToSet(options.sources) |-> NoReader]
      /\ pc = IF options.bar THEN "bar" ELSE "source"
  BY CommandLinesAssumption DEF Init
<1>2. /\ Len(options.sources) \in Nat /\ Asked(options) \in Seq(Seq(FileTuples))
      /\ options.max \in Int /\ AllAsked(options) \in Seq(FileTuples)
      /\ Len(AllAsked(options)) \in Nat
  BY <1>1, AskedIs
<1>3. options.bar \in BOOLEAN
  BY <1>1 DEF CommandLine
<1>4. \A i \in DOMAIN options.sources : readers[options.sources[i]] = NoReader
  BY <1>1 DEF ToSet
<1>5. /\ out \in Seq(FileTuples) /\ Len(out) = 0
  <2>1. <<>> \in Seq(FileTuples) /\ Len(<<>>) = 0
    OBVIOUS
  <2> QED BY <1>1, <2>1
<1>6. Begins(out, AllAsked(options))
  BY <1>2, <1>5 DEF Begins
<1>7. out = UpTo(Asked(options), source - 1)
  <2>1. UpTo(Asked(options), 0) = <<>>
    BY <1>2, UpToIs
  <2>2. 1 - 1 = 0
    OBVIOUS
  <2> QED BY <1>1, <2>1, <2>2
<1>8. source \in 1 .. Len(options.sources) + 1 /\ (options.max > 0 => n_line <= options.max)
  BY <1>1, <1>2
<1>9. CopyInv
  BY <1>1, <1>3, <1>4, <1>5, <1>6, <1>7, <1>8 DEF CopyInv
<1>10. Copies!Init
  <2>1. (pc = "closed") = FALSE
    BY <1>1
  <2> QED BY <1>1, <2>1 DEF Copies!Init
<1> QED BY <1>9, <1>10

LEMMA CopySteps ==
  ASSUME CopyInv, [Next]_vars
  PROVE  CopyInv' /\ CopyMoves
<1>1. CASE Count
  BY <1>1, CountStep, SilentMoves
<1>2. CASE AllCounted
  BY <1>2, AllCountedStep, SilentMoves
<1>3. CASE OpenSource
  BY <1>3, OpenSourceStep, SilentMoves
<1>4. CASE CopyTuple
  BY <1>4, CopyTupleStep
<1>5. CASE CloseWriters
  BY <1>5, CloseStep
<1>6. CASE UNCHANGED vars
  <2>1. UNCHANGED <<options, readers, proto, pc, source, n_line, out>>
    BY <1>6 DEF vars
  <2>2. CopyInv'
    BY <2>1 DEF CopyInv, ToCome, Limit, HasSource, Source
  <2>3. Wanted(options)' = Wanted(options)
    BY <2>1 DEF Wanted
  <2> QED BY <2>1, <2>2, <2>3 DEF CopyMoves, Copies!vars
<1> QED BY <1>1, <1>2, <1>3, <1>4, <1>5, <1>6 DEF Next

\* The converter implements TupleCopy: on every plain command line, over files of any
\* contents, it writes the tuples that were asked for, one by one, in the order of the
\* sources, of the files and of the lines, and closes its destination with all of them.
THEOREM ImplementsTupleCopy == Spec /\ Plain(options) => CopiesInOrder
<1>1. Init /\ Plain(options) => CopyInv /\ Copies!Init
  BY InitCopies
<1>2. CopyInv /\ [Next]_vars => CopyInv' /\ [Copies!Next]_(Copies!vars)
  BY CopySteps DEF CopyMoves
<1> QED BY <1>1, <1>2, PTL DEF Spec, CopiesInOrder, Copies!Spec
=============================================================================
