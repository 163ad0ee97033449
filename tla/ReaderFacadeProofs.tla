------------------------- MODULE ReaderFacadeProofs --------------------------
(***************************************************************************)
(* Proofs about ReaderFacade, for all files and sources.                   *)
(*                                                                         *)
(*   TypeInv    the types, and the shape a reader keeps from its building  *)
(*   OrderInv   TypeInv and where each delivered tuple was completed       *)
(*   PassedInv  OrderInv and that what a reader has behind it was          *)
(*              delivered or rejected                                      *)
(*   WholeInv   TypeInv and the lines that the tuples in progress have     *)
(***************************************************************************)
EXTENDS ReaderFacade, ReadersProofs

\* No two sinks of a reader read the same file.
GoodReader(r) ==
  /\ SoundReader(r)
  /\ \A i, j \in DOMAIN r.sinks : r.sinks[i].file = r.sinks[j].file => i = j

LEMMA BuildGood ==
  ASSUME NEW s \in Sources, Build(s) # NoReader
  PROVE  /\ GoodReader(Build(s)) /\ Build(s).ptr = 1
         /\ \A i \in DOMAIN Build(s).sinks :
              /\ Build(s).sinks[i].pos = 0 /\ Build(s).sinks[i].cur = NoTuple
              /\ Build(s).sinks[i].filter = NoFilter
<1>1. /\ s \in Seq(DOMAIN Files)
      /\ \A k, l \in DOMAIN Readables(s) : Readables(s)[k] = Readables(s)[l] => k = l
  BY SourcesAssumption, ReadablesIs
<1>2. Readables(s) # <<>>
  BY DEF Build
<1> QED BY <1>1, <1>2, BuildIs DEF GoodReader

\* What next() of a reader does, as far as positions go.
Steps(r, res) ==
  LET q == res.reader
  IN  /\ q \in Reader /\ q.multi = r.multi /\ Len(q.sinks) = Len(r.sinks)
      /\ r.ptr <= q.ptr /\ q.ptr <= Len(r.sinks) + 1 /\ (~r.multi => q.ptr = r.ptr)
      /\ res.proto \in Tuples /\ res.tuple \in Tuples
      /\ \A i \in DOMAIN r.sinks :
           /\ q.sinks[i].file = r.sinks[i].file /\ q.sinks[i].filter = r.sinks[i].filter
           /\ r.sinks[i].pos <= q.sinks[i].pos
           /\ q.sinks[i].pos <= Readable(r.sinks[i].file)
           /\ (i < r.ptr \/ i > q.ptr) => q.sinks[i] = r.sinks[i]
      /\ res.kind \in {"terminate", "tuple", "exit", "undefined"}
      /\ res.kind = "tuple" =>
           /\ q.ptr \in DOMAIN r.sinks
           /\ r.sinks[q.ptr].pos < q.sinks[q.ptr].pos
           /\ Len(res.tuple.parts) >= 1
           /\ res.tuple.parts[Len(res.tuple.parts)] = <<q.sinks[q.ptr].file, q.sinks[q.ptr].pos>>
      /\ res.kind \notin {"exit", "undefined"} =>
           \A i \in DOMAIN r.sinks :
             /\ (r.ptr <= i /\ i < q.ptr) => q.sinks[i].pos = Readable(r.sinks[i].file)
             /\ \A l \in r.sinks[i].pos + 1 .. q.sinks[i].pos :
                  IsStop(r.sinks[i], l) =>
                    res.kind = "tuple" /\ i = q.ptr /\ l = q.sinks[i].pos

LEMMA OneSink ==
  ASSUME NEW r, GoodReader(r), NEW k \in DOMAIN r.sinks, r.ptr = k,
         NEW first, Advances(r.sinks[k], first),
         NEW res, Replaces(r, res.reader, k, first.sink),
         Says(res, first.kind, first.tuple, first.proto),
         \/ res.reader.ptr = k
         \/ res.reader.ptr = k + 1 /\ r.multi /\ first.kind = "terminate"
  PROVE  Steps(r, res)
<1> DEFINE q == res.reader
           N == Len(r.sinks)
<1>1. /\ r \in Reader /\ N \in Nat /\ DOMAIN r.sinks = 1 .. N /\ k \in 1 .. N
      /\ \A i \in 1 .. N : /\ r.sinks[i] \in Sinks /\ r.sinks[i].pos \in Nat
                           /\ r.sinks[i].pos <= Readable(r.sinks[i].file)
  BY ReaderTypes DEF GoodReader, SoundReader, Sinks
<1>2. /\ q \in Reader /\ q.multi = r.multi /\ Len(q.sinks) = N
      /\ q.sinks[k] = first.sink /\ \A i \in 1 .. N : i # k => q.sinks[i] = r.sinks[i]
  BY <1>1 DEF Replaces
<1>3. /\ r.ptr <= q.ptr /\ q.ptr <= N + 1 /\ (~r.multi => q.ptr = r.ptr)
      /\ q.ptr \in {k, k + 1} /\ (q.ptr = k + 1 => first.kind = "terminate")
  BY <1>1
<1>4. /\ res.kind = first.kind /\ res.tuple = first.tuple /\ res.proto = first.proto
  BY DEF Says
<1> HIDE DEF q
<1>5. /\ first.sink.file = r.sinks[k].file /\ first.sink.filter = r.sinks[k].filter
      /\ r.sinks[k].pos <= first.sink.pos /\ first.sink.pos <= Readable(r.sinks[k].file)
      /\ res.proto \in Tuples /\ res.tuple \in Tuples
      /\ first.sink.pos \in Nat
      /\ res.kind \in {"terminate", "tuple", "exit"}
  BY <1>4 DEF Advances, Sinks
<1>6. ASSUME NEW i \in 1 .. N
      PROVE  /\ q.sinks[i].file = r.sinks[i].file /\ q.sinks[i].filter = r.sinks[i].filter
             /\ r.sinks[i].pos <= q.sinks[i].pos
             /\ q.sinks[i].pos <= Readable(r.sinks[i].file)
             /\ (i < r.ptr \/ i > q.ptr) => q.sinks[i] = r.sinks[i]
  <2>1. CASE i = k
    BY <1>1, <1>2, <1>3, <1>5, <2>1
  <2>2. CASE i # k
    BY <1>1, <1>2, <2>2
  <2> QED BY <2>1, <2>2
<1>7. ASSUME res.kind = "tuple"
      PROVE  /\ q.ptr = k /\ r.sinks[q.ptr].pos < q.sinks[q.ptr].pos
             /\ Len(res.tuple.parts) >= 1
             /\ res.tuple.parts[Len(res.tuple.parts)] = <<q.sinks[q.ptr].file, q.sinks[q.ptr].pos>>
  <2>1. q.ptr = k /\ q.sinks[k] = first.sink
    BY <1>2, <1>3, <1>4, <1>7
  <2> QED BY <1>4, <1>7, <2>1 DEF Advances
<1>8. ASSUME res.kind \notin {"exit", "undefined"}, NEW i \in 1 .. N
      PROVE  /\ (r.ptr <= i /\ i < q.ptr) => q.sinks[i].pos = Readable(r.sinks[i].file)
             /\ \A l \in r.sinks[i].pos + 1 .. q.sinks[i].pos :
                  IsStop(r.sinks[i], l) =>
                    res.kind = "tuple" /\ i = q.ptr /\ l = q.sinks[i].pos
  <2>1. CASE i # k
    <3>1. q.sinks[i].pos = r.sinks[i].pos /\ ~(r.ptr <= i /\ i < q.ptr)
      BY <1>1, <1>2, <1>3, <2>1
    <3>2. \A l \in r.sinks[i].pos + 1 .. q.sinks[i].pos : FALSE
      BY <1>1, <3>1
    <3> QED BY <3>1, <3>2
  <2>2. CASE i = k
    <3>1. first.kind # "exit"
      BY <1>4, <1>8
    <3>2. \A l \in r.sinks[k].pos + 1 .. first.sink.pos :
            IsStop(r.sinks[k], l) => first.kind = "tuple" /\ l = first.sink.pos
      BY <3>1 DEF Advances
    <3>3. first.kind = "terminate" => first.sink.pos = Readable(r.sinks[k].file)
      BY DEF Advances
    <3>4. q.ptr = k \/ first.kind = "terminate"
      BY <1>3
    <3>5. first.kind = "tuple" => q.ptr = k
      BY <3>4
    <3> QED BY <1>1, <1>2, <1>3, <1>4, <2>2, <3>2, <3>3, <3>4, <3>5
  <2> QED BY <2>1, <2>2
<1> QED BY <1>1, <1>2, <1>3, <1>5, <1>6, <1>7, <1>8 DEF Steps, q

\* A composite whose sink has no more tuple tries the next one.
LEMMA TwoSinks ==
  ASSUME NEW r, GoodReader(r), NEW k \in DOMAIN r.sinks, r.ptr = k, k + 1 \in DOMAIN r.sinks,
         r.multi,
         NEW first, Advances(r.sinks[k], first), first.kind = "terminate",
         NEW second, Advances(r.sinks[k + 1], second),
         NEW mid, Replaces(r, mid, k, first.sink),
         NEW res, Replaces(mid, res.reader, k + 1, second.sink),
         Says(res, second.kind, second.tuple, second.proto),
         res.reader.ptr = k + 1
  PROVE  Steps(r, res)
<1> DEFINE q == res.reader
           N == Len(r.sinks)
<1>1. /\ r \in Reader /\ N \in Nat /\ DOMAIN r.sinks = 1 .. N /\ k \in 1 .. N /\ k + 1 \in 1 .. N
      /\ \A i \in 1 .. N : /\ r.sinks[i] \in Sinks /\ r.sinks[i].pos \in Nat
                           /\ r.sinks[i].pos <= Readable(r.sinks[i].file)
  BY ReaderTypes DEF GoodReader, SoundReader, Sinks
<1>2. /\ mid \in Reader /\ mid.multi = r.multi /\ Len(mid.sinks) = N
      /\ mid.sinks[k] = first.sink /\ \A i \in 1 .. N : i # k => mid.sinks[i] = r.sinks[i]
  BY <1>1 DEF Replaces
<1>3. DOMAIN mid.sinks = 1 .. N
  BY <1>2, ReaderTypes
<1>4. /\ q \in Reader /\ q.multi = r.multi /\ Len(q.sinks) = N
      /\ q.sinks[k] = first.sink /\ q.sinks[k + 1] = second.sink
      /\ \A i \in 1 .. N : (i # k /\ i # k + 1) => q.sinks[i] = r.sinks[i]
  <2>1. /\ q \in Reader /\ q.multi = r.multi /\ Len(q.sinks) = N
        /\ q.sinks[k + 1] = second.sink
        /\ \A i \in 1 .. N : i # k + 1 => q.sinks[i] = mid.sinks[i]
    BY <1>2, <1>3 DEF Replaces
  <2> QED BY <1>1, <1>2, <2>1
<1>5. r.ptr <= q.ptr /\ q.ptr <= N + 1 /\ q.ptr = k + 1 /\ k \in Nat
  BY <1>1
<1>6. /\ res.kind = second.kind /\ res.tuple = second.tuple /\ res.proto = second.proto
  BY DEF Says
<1> HIDE DEF q
<1>7. /\ first.sink.file = r.sinks[k].file /\ first.sink.filter = r.sinks[k].filter
      /\ r.sinks[k].pos <= first.sink.pos /\ first.sink.pos = Readable(r.sinks[k].file)
      /\ first.sink.pos <= Readable(r.sinks[k].file)
      /\ first.sink.pos \in Nat
      /\ \A l \in r.sinks[k].pos + 1 .. first.sink.pos : ~IsStop(r.sinks[k], l)
  BY DEF Advances, Sinks
<1>8. /\ second.sink.file = r.sinks[k + 1].file /\ second.sink.filter = r.sinks[k + 1].filter
      /\ r.sinks[k + 1].pos <= second.sink.pos
      /\ second.sink.pos <= Readable(r.sinks[k + 1].file)
      /\ res.proto \in Tuples /\ res.tuple \in Tuples
      /\ res.kind \in {"terminate", "tuple", "exit"}
  BY <1>6 DEF Advances
<1>9. ASSUME NEW i \in 1 .. N
      PROVE  /\ q.sinks[i].file = r.sinks[i].file /\ q.sinks[i].filter = r.sinks[i].filter
             /\ r.sinks[i].pos <= q.sinks[i].pos
             /\ q.sinks[i].pos <= Readable(r.sinks[i].file)
             /\ (i < r.ptr \/ i > q.ptr) => q.sinks[i] = r.sinks[i]
  <2>1. CASE i = k
    BY <1>1, <1>4, <1>5, <1>7, <2>1
  <2>2. CASE i = k + 1
    BY <1>1, <1>4, <1>5, <1>8, <2>2
  <2>3. CASE i # k /\ i # k + 1
    BY <1>1, <1>4, <2>3
  <2> QED BY <2>1, <2>2, <2>3
<1>10. ASSUME res.kind = "tuple"
       PROVE  /\ r.sinks[q.ptr].pos < q.sinks[q.ptr].pos
              /\ Len(res.tuple.parts) >= 1
              /\ res.tuple.parts[Len(res.tuple.parts)] =
                   <<q.sinks[q.ptr].file, q.sinks[q.ptr].pos>>
  BY <1>4, <1>5, <1>6, <1>10 DEF Advances
<1>11. ASSUME res.kind \notin {"exit", "undefined"}, NEW i \in 1 .. N
       PROVE  /\ (r.ptr <= i /\ i < q.ptr) => q.sinks[i].pos = Readable(r.sinks[i].file)
              /\ \A l \in r.sinks[i].pos + 1 .. q.sinks[i].pos :
                   IsStop(r.sinks[i], l) =>
                     res.kind = "tuple" /\ i = q.ptr /\ l = q.sinks[i].pos
  <2>1. CASE i # k /\ i # k + 1
    <3>1. q.sinks[i].pos = r.sinks[i].pos /\ ~(r.ptr <= i /\ i < q.ptr)
      BY <1>1, <1>4, <1>5, <2>1
    <3>2. \A l \in r.sinks[i].pos + 1 .. q.sinks[i].pos : FALSE
      BY <1>1, <3>1
    <3> QED BY <3>1, <3>2
  <2>2. CASE i = k
    BY <1>4, <1>7, <2>2
  <2>3. CASE i = k + 1
    <3>1. \A l \in r.sinks[k + 1].pos + 1 .. second.sink.pos :
            IsStop(r.sinks[k + 1], l) => second.kind = "tuple" /\ l = second.sink.pos
      BY <1>6, <1>11 DEF Advances
    <3>2. ~(i < q.ptr)
      BY <1>1, <1>5, <2>3
    <3> QED BY <1>4, <1>5, <1>6, <2>3, <3>1, <3>2
  <2> QED BY <2>1, <2>2, <2>3
<1>12. q.ptr \in 1 .. N
  BY <1>1, <1>5
<1> QED BY <1>1, <1>4, <1>5, <1>8, <1>9, <1>10, <1>11, <1>12 DEF Steps, q

LEMMA ReaderSteps ==
  ASSUME NEW r, GoodReader(r), NEW pr \in Tuples, NEW res, res = ReaderNext(r, pr)
  PROVE  Steps(r, res)
<1>1. /\ r \in Reader /\ Len(r.sinks) \in Nat /\ DOMAIN r.sinks = 1 .. Len(r.sinks)
      /\ r.ptr \in Nat \ {0} /\ r.ptr <= Len(r.sinks) + 1
      /\ \A i \in DOMAIN r.sinks : /\ r.sinks[i] \in Sinks /\ r.sinks[i].pos \in Nat
                                   /\ r.sinks[i].pos <= Readable(r.sinks[i].file)
  BY ReaderTypes DEF GoodReader, SoundReader, Sinks
<1>2. CASE r.ptr \notin DOMAIN r.sinks /\ res.reader = r /\ Says(res, "undefined", NoTuple, pr)
  BY <1>1, <1>2, NoTupleIs DEF Steps, Says
<1>3. CASE r.ptr \in DOMAIN r.sinks /\ Calls1(r, pr, res)
  <2>1. PICK first :
          /\ first = SinkNext(r.sinks[r.ptr], pr)
          /\ Replaces(r, res.reader, r.ptr, first.sink)
          /\ Says(res, first.kind, first.tuple, first.proto)
          /\ \/ res.reader.ptr = r.ptr
             \/ res.reader.ptr = r.ptr + 1 /\ r.multi /\ first.kind = "terminate"
    BY <1>3 DEF Calls1
  <2>2. Advances(r.sinks[r.ptr], first)
    BY <1>1, <1>3, <2>1, SinkNextIs
  <2> QED BY <1>3, <2>1, <2>2, OneSink
<1>4. CASE r.ptr \in DOMAIN r.sinks /\ Calls2(r, pr, res)
  <2>1. PICK first, second, mid :
          /\ first = SinkNext(r.sinks[r.ptr], pr) /\ first.kind = "terminate" /\ r.multi
          /\ r.ptr + 1 \in DOMAIN r.sinks
          /\ second = SinkNext(r.sinks[r.ptr + 1], first.proto)
          /\ Replaces(r, mid, r.ptr, first.sink)
          /\ Replaces(mid, res.reader, r.ptr + 1, second.sink)
          /\ Says(res, second.kind, second.tuple, second.proto)
          /\ res.reader.ptr = r.ptr + 1
    BY <1>4 DEF Calls2
  <2>2. Advances(r.sinks[r.ptr], first)
    BY <1>1, <1>4, <2>1, SinkNextIs
  <2>3. first.proto \in Tuples
    BY <2>2 DEF Advances
  <2>4. Advances(r.sinks[r.ptr + 1], second)
    BY <1>1, <2>1, <2>3, SinkNextIs
  <2> QED BY <1>4, <2>1, <2>2, <2>4, TwoSinks
<1> QED BY <1>2, <1>3, <1>4, ReaderNextIs DEF GoodReader

\* A call leaves a reader in its shape.
LEMMA StepsGood ==
  ASSUME NEW r, GoodReader(r), NEW res, Steps(r, res)
  PROVE  GoodReader(res.reader)
<1> DEFINE q == res.reader
           N == Len(r.sinks)
<1>1. /\ r \in Reader /\ N \in Nat /\ DOMAIN r.sinks = 1 .. N /\ N >= 1
      /\ ~r.multi => N = 1 /\ r.ptr = 1
      /\ \A i, j \in 1 .. N : r.sinks[i].file = r.sinks[j].file => i = j
  BY ReaderTypes DEF GoodReader, SoundReader
<1>2. /\ q \in Reader /\ q.multi = r.multi /\ Len(q.sinks) = N /\ q.ptr <= N + 1
      /\ ~r.multi => q.ptr = r.ptr
      /\ \A i \in 1 .. N : /\ q.sinks[i].file = r.sinks[i].file
                           /\ q.sinks[i].pos <= Readable(r.sinks[i].file)
  BY <1>1 DEF Steps
<1> HIDE DEF q
<1>3. DOMAIN q.sinks = 1 .. N
  BY <1>2, ReaderTypes
<1>4. GoodReader(q)
  BY <1>1, <1>2, <1>3 DEF GoodReader, SoundReader
<1> QED BY <1>4 DEF q

\* The calls that do not read: what they leave of a sink.
Keeps(a, b) == b \in Sinks /\ b.file = a.file /\ b.cur = a.cur

LEMMA KeepsGood ==
  ASSUME NEW r, GoodReader(r), NEW q \in Reader, q.multi = r.multi, Len(q.sinks) = Len(r.sinks),
         q.ptr \in {1, r.ptr},
         \A i \in DOMAIN r.sinks : /\ Keeps(r.sinks[i], q.sinks[i])
                                   /\ q.sinks[i].pos <= Readable(r.sinks[i].file)
  PROVE  GoodReader(q)
<1> DEFINE N == Len(r.sinks)
<1>1. /\ r \in Reader /\ N \in Nat /\ DOMAIN r.sinks = 1 .. N /\ N >= 1
      /\ r.ptr <= N + 1
      /\ ~r.multi => N = 1 /\ r.ptr = 1
      /\ \A i, j \in 1 .. N : r.sinks[i].file = r.sinks[j].file => i = j
  BY ReaderTypes DEF GoodReader, SoundReader
<1>2. DOMAIN q.sinks = 1 .. N
  BY ReaderTypes
<1>3. \A i \in 1 .. N : /\ q.sinks[i].file = r.sinks[i].file
                        /\ q.sinks[i].pos <= Readable(q.sinks[i].file)
  BY <1>1 DEF Keeps
<1> QED BY <1>1, <1>2, <1>3 DEF GoodReader, SoundReader

LEMMA WithFilterIs ==
  ASSUME NEW r, GoodReader(r), NEW filter \in Names \cup {NoFilter}
  PROVE  LET q == WithFilter(r, filter)
         IN  /\ GoodReader(q) /\ q.ptr = r.ptr /\ Len(q.sinks) = Len(r.sinks)
             /\ \A i \in DOMAIN r.sinks :
                  /\ Keeps(r.sinks[i], q.sinks[i]) /\ q.sinks[i].pos = r.sinks[i].pos
                  /\ q.sinks[i].filter \in {r.sinks[i].filter, filter}
<1> DEFINE N == Len(r.sinks)
           q == WithFilter(r, filter)
<1>1. /\ r \in Reader /\ r.multi \in BOOLEAN /\ r.ptr \in Nat \ {0} /\ r.sinks \in Seq(Sinks)
      /\ N \in Nat /\ DOMAIN r.sinks = 1 .. N /\ N >= 1
      /\ \A i \in 1 .. N : r.sinks[i] \in Sinks /\ r.sinks[i].pos <= Readable(r.sinks[i].file)
  BY ReaderTypes DEF GoodReader, SoundReader
<1>2. CASE r.multi
  <2>1. q = r
    BY <1>2 DEF WithFilter
  <2> QED BY <1>1, <2>1 DEF Keeps
<1>3. CASE ~r.multi
  <2> DEFINE sink == [r.sinks[1] EXCEPT !.filter = filter]
             sinks == [r.sinks EXCEPT ![1] = sink]
  <2>1. q = [r EXCEPT !.sinks = sinks]
    BY <1>3 DEF WithFilter
  <2>2. /\ sink \in Sinks /\ sink.file = r.sinks[1].file /\ sink.cur = r.sinks[1].cur
        /\ sink.pos = r.sinks[1].pos /\ sink.filter = filter
    BY <1>1 DEF Sinks
  <2> HIDE DEF sink
  <2>3. /\ sinks \in Seq(Sinks) /\ Len(sinks) = N /\ sinks[1] = sink
        /\ \A i \in 1 .. N : i # 1 => sinks[i] = r.sinks[i]
    BY <1>1, <2>2
  <2> HIDE DEF sinks
  <2>4. q \in Reader /\ q.multi = r.multi /\ q.ptr = r.ptr /\ q.sinks = sinks
    BY <1>1, <2>1, <2>3 DEF Reader
  <2> HIDE DEF q
  <2>5. \A i \in 1 .. N : /\ Keeps(r.sinks[i], q.sinks[i]) /\ q.sinks[i].pos = r.sinks[i].pos
                          /\ q.sinks[i].filter \in {r.sinks[i].filter, filter}
    BY <1>1, <2>2, <2>3, <2>4 DEF Keeps
  <2>6. GoodReader(q)
    BY <1>1, <2>3, <2>4, <2>5, KeepsGood
  <2> QED BY <1>1, <2>3, <2>4, <2>5, <2>6 DEF q
<1> QED BY <1>1, <1>2, <1>3

LEMMA CountedIs ==
  ASSUME NEW r, GoodReader(r)
  PROVE  LET q == Counted(r)
         IN  /\ GoodReader(q) /\ q.ptr = r.ptr /\ Len(q.sinks) = Len(r.sinks)
             /\ \A i \in DOMAIN r.sinks :
                  /\ Keeps(r.sinks[i], q.sinks[i])
                  /\ q.sinks[i].pos \in {r.sinks[i].pos, Readable(r.sinks[i].file)}
                  /\ q.sinks[i].filter = r.sinks[i].filter
<1> DEFINE N == Len(r.sinks)
           q == Counted(r)
           asked(i) == \A j \in 1 .. i : Files[r.sinks[j].file].backend # "sqlite"
           spent(sink) == IF Files[sink.file].backend = "gz" THEN sink
                          ELSE [sink EXCEPT !.pos = Readable(sink.file)]
           sinks == [i \in DOMAIN r.sinks |-> IF asked(i) THEN spent(r.sinks[i]) ELSE r.sinks[i]]
<1>1. /\ r \in Reader /\ r.multi \in BOOLEAN /\ r.ptr \in Nat \ {0} /\ r.sinks \in Seq(Sinks)
      /\ N \in Nat /\ DOMAIN r.sinks = 1 .. N /\ N >= 1
      /\ \A i \in 1 .. N : r.sinks[i] \in Sinks /\ r.sinks[i].pos <= Readable(r.sinks[i].file)
  BY ReaderTypes DEF GoodReader, SoundReader
<1>2. \A i \in 1 .. N : Readable(r.sinks[i].file) \in Nat
  BY <1>1, FileTypes DEF Sinks
<1>3. q = [r EXCEPT !.sinks = sinks]
  BY DEF Counted
<1>4. ASSUME NEW i \in 1 .. N
      PROVE  /\ Keeps(r.sinks[i], spent(r.sinks[i]))
             /\ spent(r.sinks[i]).pos \in {r.sinks[i].pos, Readable(r.sinks[i].file)}
             /\ spent(r.sinks[i]).filter = r.sinks[i].filter
  BY <1>1, <1>2 DEF Keeps, Sinks
<1> HIDE DEF asked, spent
<1>5. \A i \in 1 .. N : /\ Keeps(r.sinks[i], sinks[i])
                        /\ sinks[i].pos \in {r.sinks[i].pos, Readable(r.sinks[i].file)}
                        /\ sinks[i].filter = r.sinks[i].filter
  BY <1>1, <1>4 DEF Keeps
<1>6. DOMAIN sinks = 1 .. N /\ \A i \in 1 .. N : sinks[i] \in Sinks
  BY <1>1, <1>5 DEF Keeps
<1>7. sinks \in [1 .. N -> Sinks]
  BY <1>1, <1>6
<1> HIDE DEF sinks
<1>8. sinks \in Seq(Sinks) /\ Len(sinks) = N
  BY <1>1, <1>7, AsSeq
<1>9. q \in Reader /\ q.multi = r.multi /\ q.ptr = r.ptr /\ q.sinks = sinks
  BY <1>1, <1>3, <1>8 DEF Reader
<1> HIDE DEF q
<1>10. \A i \in 1 .. N : q.sinks[i].pos <= Readable(r.sinks[i].file)
  BY <1>1, <1>2, <1>5, <1>9
<1>11. GoodReader(q)
  BY <1>1, <1>5, <1>8, <1>9, <1>10, KeepsGood
<1> QED BY <1>1, <1>5, <1>8, <1>9, <1>11 DEF q

LEMMA RewoundIs ==
  ASSUME NEW r, GoodReader(r)
  PROVE  LET q == Rewound(r)
         IN  /\ GoodReader(q) /\ q.ptr = 1 /\ Len(q.sinks) = Len(r.sinks)
             /\ \A i \in DOMAIN r.sinks :
                  /\ Keeps(r.sinks[i], q.sinks[i])
                  /\ q.sinks[i].filter = r.sinks[i].filter
                  /\ q.sinks[i].pos = IF Files[r.sinks[i].file].backend = "sqlite"
                                      THEN r.sinks[i].pos ELSE 0
<1> DEFINE N == Len(r.sinks)
           q == Rewound(r)
           again(sink) == IF Files[sink.file].backend = "sqlite" THEN sink
                          ELSE [sink EXCEPT !.pos = 0]
           sinks == [i \in DOMAIN r.sinks |-> again(r.sinks[i])]
<1>1. /\ r \in Reader /\ r.multi \in BOOLEAN /\ r.ptr \in Nat \ {0} /\ r.sinks \in Seq(Sinks)
      /\ N \in Nat /\ DOMAIN r.sinks = 1 .. N /\ N >= 1
      /\ \A i \in 1 .. N : r.sinks[i] \in Sinks /\ r.sinks[i].pos <= Readable(r.sinks[i].file)
  BY ReaderTypes DEF GoodReader, SoundReader
<1>2. \A i \in 1 .. N : Readable(r.sinks[i].file) \in Nat
  BY <1>1, FileTypes DEF Sinks
<1>3. q = [r EXCEPT !.ptr = 1, !.sinks = sinks]
  BY DEF Rewound
<1>4. ASSUME NEW i \in 1 .. N
      PROVE  /\ Keeps(r.sinks[i], again(r.sinks[i]))
             /\ again(r.sinks[i]).filter = r.sinks[i].filter
             /\ again(r.sinks[i]).pos = IF Files[r.sinks[i].file].backend = "sqlite"
                                        THEN r.sinks[i].pos ELSE 0
  BY <1>1, <1>2 DEF Keeps, Sinks
<1> HIDE DEF again
<1>5. \A i \in 1 .. N : /\ Keeps(r.sinks[i], sinks[i])
                        /\ sinks[i].filter = r.sinks[i].filter
                        /\ sinks[i].pos = IF Files[r.sinks[i].file].backend = "sqlite"
                                          THEN r.sinks[i].pos ELSE 0
  BY <1>1, <1>4 DEF Keeps
<1>6. DOMAIN sinks = 1 .. N /\ \A i \in 1 .. N : sinks[i] \in Sinks
  BY <1>1, <1>5 DEF Keeps
<1>7. sinks \in [1 .. N -> Sinks]
  BY <1>1, <1>6
<1> HIDE DEF sinks
<1>8. sinks \in Seq(Sinks) /\ Len(sinks) = N
  BY <1>1, <1>7, AsSeq
<1>9. q \in Reader /\ q.multi = r.multi /\ q.ptr = 1 /\ q.sinks = sinks
  <2>1. q = SetTo(r, 1, sinks)
    BY <1>3 DEF SetTo
  <2> QED BY <1>1, <1>8, <2>1, SetToIs
<1> HIDE DEF q
<1>10. \A i \in 1 .. N : q.sinks[i].pos <= Readable(r.sinks[i].file)
  BY <1>1, <1>2, <1>5, <1>9
<1>11. GoodReader(q)
  BY <1>1, <1>5, <1>8, <1>9, <1>10, KeepsGood
<1> QED BY <1>1, <1>5, <1>8, <1>9, <1>11 DEF q

-----------------------------------------------------------------------------
(***************************************************************************)
(* The invariants.  Each says of every open source what its reader r and   *)
(* the record h of what it delivered have to do with each other.           *)
(***************************************************************************)
Hist == [tuples : Seq(Tuples), filter : Names \cup {NoFilter},
         filters : SUBSET (Names \cup {NoFilter}), counted : BOOLEAN, reset : BOOLEAN]

TypeInv ==
  /\ DOMAIN readers = Sources
  /\ \A s \in Sources : IsOpen(s) => GoodReader(readers[s])
  /\ proto \in Tuples /\ running \in BOOLEAN
  /\ hist \in [Sources -> Hist]

LastPart(t) == t.parts[Len(t.parts)]

\* t was completed at line l of the i-th sink, which is behind the reader.
EndsAt(r, t, i, l) ==
  /\ i \in DOMAIN r.sinks /\ i <= r.ptr
  /\ l \in 1 .. r.sinks[i].pos
  /\ Len(t.parts) >= 1 /\ LastPart(t) = <<r.sinks[i].file, l>>

Before(i, l, m, n) == i < m \/ (i = m /\ l < n)

Ordered(r, h) ==
  /\ \A k \in DOMAIN h.tuples :
       \E i \in DOMAIN r.sinks : \E l \in 1 .. r.sinks[i].pos : EndsAt(r, h.tuples[k], i, l)
  /\ \A j, k \in DOMAIN h.tuples : j < k =>
       \A i, m \in DOMAIN r.sinks :
         \A l \in 1 .. r.sinks[i].pos : \A n \in 1 .. r.sinks[m].pos :
           EndsAt(r, h.tuples[j], i, l) /\ EndsAt(r, h.tuples[k], m, n) => Before(i, l, m, n)

OrderInv == TypeInv /\ \A s \in Sources : IsOpen(s) => Ordered(readers[s], hist[s])

\* reset() leaves a SqliteReader where it is.
Stays(r, h, i) == h.reset /\ Files[r.sinks[i].file].backend = "sqlite"

\* The line completes a tuple that all filters accept which the reader had.
Wanted(h, f, l) ==
  /\ Lines(f)[l].kind = "done"
  /\ \A filter \in h.filters : Accepts(filter, f, Lines(f)[l].name)

NoneLost(r, h) ==
  \A i \in DOMAIN r.sinks :
    /\ i < r.ptr => r.sinks[i].pos = Readable(r.sinks[i].file)
    /\ (i > r.ptr /\ ~Stays(r, h, i)) => r.sinks[i].pos = 0
    /\ \A l \in 1 .. r.sinks[i].pos :
         (Wanted(h, r.sinks[i].file, l) /\ ~Stays(r, h, i)) =>
           \E k \in DOMAIN h.tuples : EndsAt(r, h.tuples[k], i, l)

FiltersKept(r, h) == \A i \in DOMAIN r.sinks : r.sinks[i].filter \in h.filters

PassedInv ==
  /\ OrderInv
  /\ \A s \in Sources : IsOpen(s) =>
       /\ FiltersKept(readers[s], hist[s])
       /\ (running /\ ~hist[s].counted) => NoneLost(readers[s], hist[s])

\* The tuple in progress of the prototype is made of lines of gzip files.
OfGzip(t) == \A k \in DOMAIN t.parts : Files[t.parts[k][1]].backend = "gz"

\* What a sink has in hand is the run of lines before its next one.
RunKept(sink) ==
  (~IsGz(sink) /\ sink.pos < Readable(sink.file)) => IsRun(sink.cur, sink.file, sink.pos)

RunsKept(r) == \A i \in DOMAIN r.sinks : RunKept(r.sinks[i])

Complete(t) == Len(t.parts) >= 1 /\ (OfGzip(t) \/ IsWhole(t))

WholeInv ==
  /\ TypeInv
  /\ OfGzip(proto)
  /\ \A s \in Sources : ~hist[s].reset =>
       \A k \in DOMAIN hist[s].tuples : Complete(hist[s].tuples[k])
  /\ \A s \in Sources : (running /\ IsOpen(s) /\ ~hist[s].reset) => RunsKept(readers[s])

-----------------------------------------------------------------------------
(***************************************************************************)
(* What the actions do to the reader r and the record h of their source.   *)
(***************************************************************************)
Built(s, q, g) == q = Build(s) /\ q # NoReader /\ g = Fresh

Read(r, h, pr, q, g, res) ==
  /\ res = ReaderNext(r, pr) /\ q = res.reader
  /\ g.filters = h.filters /\ g.counted = h.counted /\ g.reset = h.reset
  /\ g.tuples = IF res.kind = "tuple" THEN Append(h.tuples, res.tuple) ELSE h.tuples

\* setFilter() and getNumberOfEntries()
Asked(r, h, q, g) ==
  /\ GoodReader(q) /\ q.ptr = r.ptr /\ Len(q.sinks) = Len(r.sinks)
  /\ g.tuples = h.tuples /\ g.reset = h.reset
  /\ h.filters \subseteq g.filters /\ (h.counted => g.counted)
  /\ \A i \in DOMAIN r.sinks :
       /\ Keeps(r.sinks[i], q.sinks[i])
       /\ q.sinks[i].filter \in {r.sinks[i].filter} \cup g.filters
       /\ \/ q.sinks[i].pos = r.sinks[i].pos
          \/ g.counted /\ q.sinks[i].pos = Readable(r.sinks[i].file)

Restarted(r, h, q, g) ==
  /\ GoodReader(q) /\ q.ptr = 1 /\ Len(q.sinks) = Len(r.sinks)
  /\ g.tuples = <<>> /\ g.reset = TRUE /\ g.filters = h.filters
  /\ \A i \in DOMAIN r.sinks :
       /\ Keeps(r.sinks[i], q.sinks[i])
       /\ q.sinks[i].filter = r.sinks[i].filter
       /\ Files[r.sinks[i].file].backend # "sqlite" => q.sinks[i].pos = 0

\* A step of the source s: the other sources keep what they have.
StepOf(s) ==
  /\ running
  /\ DOMAIN readers' = Sources /\ hist' \in [Sources -> Hist]
  /\ \A t \in Sources \ {s} : readers'[t] = readers[t] /\ hist'[t] = hist[t]
  /\ \/ Built(s, readers'[s], hist'[s]) /\ UNCHANGED <<proto, running>>
     \/ \E res :
          /\ IsOpen(s) /\ Read(readers[s], hist[s], proto, readers'[s], hist'[s], res)
          /\ proto' = res.proto /\ running' = (res.kind \notin {"exit", "undefined"})
     \/ IsOpen(s) /\ Asked(readers[s], hist[s], readers'[s], hist'[s])
                  /\ UNCHANGED <<proto, running>>
     \/ IsOpen(s) /\ Restarted(readers[s], hist[s], readers'[s], hist'[s])
                  /\ UNCHANGED <<proto, running>>
     \/ readers'[s] = NoReader /\ hist'[s] \in {hist[s], Fresh} /\ UNCHANGED <<proto, running>>

LEMMA FreshIs ==
  Fresh \in Hist /\ Fresh.tuples = <<>> /\ Fresh.filters = {NoFilter}
    /\ Fresh.counted = FALSE /\ Fresh.reset = FALSE
  BY DEF Fresh, Hist

LEMMA FileStep ==
  ASSUME TypeInv, NEW s \in Sources, File(s)
  PROVE  StepOf(s)
<1>1. DOMAIN readers = Sources /\ hist \in [Sources -> Hist]
  BY DEF TypeInv
<1>2. /\ DOMAIN readers' = Sources /\ readers'[s] = Build(s)
      /\ \A t \in Sources \ {s} : readers'[t] = readers[t]
  BY <1>1 DEF File
<1>3. /\ hist' \in [Sources -> Hist] /\ hist'[s] = Fresh
      /\ \A t \in Sources \ {s} : hist'[t] = hist[t]
  BY <1>1, FreshIs DEF File
<1> QED BY <1>2, <1>3 DEF File, StepOf, Built

LEMMA CloseStep ==
  ASSUME TypeInv, NEW s \in Sources, Close(s)
  PROVE  StepOf(s)
<1>1. DOMAIN readers = Sources /\ hist \in [Sources -> Hist]
  BY DEF TypeInv
<1> QED BY <1>1 DEF Close, StepOf

LEMMA SetFilterStep ==
  ASSUME TypeInv, NEW s \in Sources, NEW filter \in Names \cup {NoFilter}, SetFilter(s, filter)
  PROVE  StepOf(s)
<1> DEFINE r == readers[s]
           h == hist[s]
<1>1. /\ DOMAIN readers = Sources /\ hist \in [Sources -> Hist] /\ IsOpen(s) /\ GoodReader(r)
      /\ running
  BY DEF TypeInv, SetFilter
<1>2. h \in Hist /\ h.filters \subseteq Names \cup {NoFilter}
  BY <1>1 DEF Hist
<1>3. /\ DOMAIN readers' = Sources /\ readers'[s] = WithFilter(r, filter)
      /\ \A t \in Sources \ {s} : readers'[t] = readers[t]
  BY <1>1 DEF SetFilter
<1>4. /\ hist' \in [Sources -> Hist]
      /\ hist'[s].tuples = h.tuples /\ hist'[s].reset = h.reset /\ hist'[s].counted = h.counted
      /\ hist'[s].filters = h.filters \cup {filter}
      /\ \A t \in Sources \ {s} : hist'[t] = hist[t]
  BY <1>1, <1>2 DEF SetFilter, Hist
<1>5. Asked(r, h, readers'[s], hist'[s])
  BY <1>1, <1>3, <1>4, WithFilterIs DEF Asked
<1> QED BY <1>1, <1>3, <1>4, <1>5 DEF SetFilter, StepOf

LEMMA CountStep ==
  ASSUME TypeInv, NEW s \in Sources, GetNumberOfEntries(s)
  PROVE  StepOf(s)
<1> DEFINE r == readers[s]
           h == hist[s]
<1>1. /\ DOMAIN readers = Sources /\ hist \in [Sources -> Hist] /\ IsOpen(s) /\ GoodReader(r)
      /\ running
  BY DEF TypeInv, GetNumberOfEntries
<1>2. h \in Hist
  BY <1>1
<1>3. /\ DOMAIN readers' = Sources /\ readers'[s] = Counted(r)
      /\ \A t \in Sources \ {s} : readers'[t] = readers[t]
  BY <1>1 DEF GetNumberOfEntries
<1>4. /\ hist' \in [Sources -> Hist]
      /\ hist'[s].tuples = h.tuples /\ hist'[s].reset = h.reset /\ hist'[s].counted = TRUE
      /\ hist'[s].filters = h.filters
      /\ \A t \in Sources \ {s} : hist'[t] = hist[t]
  BY <1>1, <1>2 DEF GetNumberOfEntries, Hist
<1>5. Asked(r, h, readers'[s], hist'[s])
  BY <1>1, <1>3, <1>4, CountedIs DEF Asked
<1> QED BY <1>1, <1>3, <1>4, <1>5 DEF GetNumberOfEntries, StepOf

LEMMA ResetStep ==
  ASSUME TypeInv, NEW s \in Sources, Reset(s)
  PROVE  StepOf(s)
<1> DEFINE r == readers[s]
           h == hist[s]
<1>1. /\ DOMAIN readers = Sources /\ hist \in [Sources -> Hist] /\ IsOpen(s) /\ GoodReader(r)
      /\ running
  BY DEF TypeInv, Reset
<1>2. h \in Hist /\ <<>> \in Seq(Tuples)
  BY <1>1
<1>3. /\ DOMAIN readers' = Sources /\ readers'[s] = Rewound(r)
      /\ \A t \in Sources \ {s} : readers'[t] = readers[t]
  BY <1>1 DEF Reset
<1>4. /\ hist' \in [Sources -> Hist]
      /\ hist'[s].tuples = <<>> /\ hist'[s].reset = TRUE
      /\ hist'[s].filters = h.filters
      /\ \A t \in Sources \ {s} : hist'[t] = hist[t]
  BY <1>1, <1>2 DEF Reset, Hist
<1>5. Restarted(r, h, readers'[s], hist'[s])
  BY <1>1, <1>3, <1>4, RewoundIs DEF Restarted
<1> QED BY <1>1, <1>3, <1>4, <1>5 DEF Reset, StepOf

LEMMA NextTupleStep ==
  ASSUME TypeInv, NEW s \in Sources, NextTuple(s)
  PROVE  StepOf(s)
<1> DEFINE r == readers[s]
           h == hist[s]
<1>1. /\ DOMAIN readers = Sources /\ hist \in [Sources -> Hist] /\ IsOpen(s) /\ GoodReader(r)
      /\ running /\ proto \in Tuples
  BY DEF TypeInv, NextTuple
<1>2. PICK res : /\ res = ReaderNext(r, proto)
                 /\ readers' = [readers EXCEPT ![s] = res.reader]
                 /\ proto' = res.proto /\ running' = (res.kind \notin {"exit", "undefined"})
                 /\ hist' = IF res.kind = "tuple"
                            THEN [hist EXCEPT ![s].tuples = Append(@, res.tuple)] ELSE hist
  BY DEF NextTuple
<1>3. /\ DOMAIN readers' = Sources /\ readers'[s] = res.reader
      /\ \A t \in Sources \ {s} : readers'[t] = readers[t]
  BY <1>1, <1>2
<1>4. res.tuple \in Tuples
  BY <1>1, <1>2, ReaderSteps DEF Steps
<1>5. h \in Hist /\ h.tuples \in Seq(Tuples) /\ Append(h.tuples, res.tuple) \in Seq(Tuples)
  BY <1>1, <1>4 DEF Hist
<1>6. /\ hist' \in [Sources -> Hist]
      /\ hist'[s].tuples = IF res.kind = "tuple" THEN Append(h.tuples, res.tuple) ELSE h.tuples
      /\ hist'[s].reset = h.reset /\ hist'[s].filters = h.filters /\ hist'[s].counted = h.counted
      /\ \A t \in Sources \ {s} : hist'[t] = hist[t]
  <2>1. CASE res.kind = "tuple"
    BY <1>1, <1>2, <1>5, <2>1 DEF Hist
  <2>2. CASE res.kind # "tuple"
    BY <1>1, <1>2, <2>2
  <2> QED BY <2>1, <2>2
<1>7. Read(r, h, proto, readers'[s], hist'[s], res)
  BY <1>2, <1>3, <1>6 DEF Read
<1> QED BY <1>1, <1>2, <1>3, <1>6, <1>7 DEF StepOf

LEMMA SomeStep ==
  ASSUME TypeInv, Next
  PROVE  \E s \in Sources : StepOf(s)
  BY FileStep, CloseStep, SetFilterStep, CountStep, ResetStep, NextTupleStep DEF Next

\* What every action leaves of the types.
LEMMA StepTypes ==
  ASSUME TypeInv, NEW s \in Sources, StepOf(s)
  PROVE  TypeInv'
<1>1. \A t \in Sources : IsOpen(t) => GoodReader(readers[t])
  BY DEF TypeInv
<1>2. proto \in Tuples /\ running \in BOOLEAN
  BY DEF TypeInv
<1>3. DOMAIN readers' = Sources /\ hist' \in [Sources -> Hist]
  BY DEF StepOf
<1>4. \A t \in Sources \ {s} : readers'[t] # NoReader => GoodReader(readers'[t])
  BY <1>1 DEF StepOf, IsOpen
<1>5. /\ readers'[s] # NoReader => GoodReader(readers'[s])
      /\ proto' \in Tuples /\ running' \in BOOLEAN
  <2>1. CASE Built(s, readers'[s], hist'[s]) /\ UNCHANGED <<proto, running>>
    BY <1>2, <2>1, BuildGood DEF Built
  <2>2. ASSUME NEW res, IsOpen(s), Read(readers[s], hist[s], proto, readers'[s], hist'[s], res),
               proto' = res.proto, running' = (res.kind \notin {"exit", "undefined"})
        PROVE  /\ readers'[s] # NoReader => GoodReader(readers'[s])
               /\ proto' \in Tuples /\ running' \in BOOLEAN
    <3>1. Steps(readers[s], res) /\ readers'[s] = res.reader
      BY <1>1, <1>2, <2>2, ReaderSteps DEF Read
    <3>2. GoodReader(readers'[s]) /\ proto' \in Tuples
      BY <1>1, <2>2, <3>1, StepsGood DEF Steps
    <3> QED BY <2>2, <3>2
  <2>3. CASE Asked(readers[s], hist[s], readers'[s], hist'[s]) /\ UNCHANGED <<proto, running>>
    BY <1>2, <2>3 DEF Asked
  <2>4. CASE Restarted(readers[s], hist[s], readers'[s], hist'[s]) /\ UNCHANGED <<proto, running>>
    BY <1>2, <2>4 DEF Restarted
  <2>5. CASE readers'[s] = NoReader /\ UNCHANGED <<proto, running>>
    BY <1>2, <2>5
  <2> QED BY <2>1, <2>2, <2>3, <2>4, <2>5 DEF StepOf
<1> QED BY <1>3, <1>4, <1>5 DEF TypeInv, IsOpen

LEMMA InitTypes == Init => TypeInv
<1> SUFFICES ASSUME Init PROVE TypeInv
  OBVIOUS
<1>1. DOMAIN readers = Sources /\ \A s \in Sources : ~IsOpen(s)
  BY DEF Init, IsOpen
<1>2. hist \in [Sources -> Hist]
  BY FreshIs DEF Init
<1> QED BY <1>1, <1>2, NoTupleIs DEF Init, TypeInv

LEMMA TypesSame == TypeInv /\ UNCHANGED vars => TypeInv'
  BY DEF TypeInv, IsOpen, vars

LEMMA TypesKept == Spec => []TypeInv
<1>1. TypeInv /\ [Next]_vars => TypeInv'
  BY SomeStep, StepTypes, TypesSame
<1> QED BY <1>1, InitTypes, PTL DEF Spec

LEMMA TypesSay == TypeInv => TypeOK
<1> SUFFICES ASSUME TypeInv PROVE TypeOK
  OBVIOUS
<1>1. ASSUME NEW s \in Sources, IsOpen(s)
      PROVE  /\ readers[s] \in Reader
             /\ readers[s].ptr <= Len(readers[s].sinks) + 1
             /\ \A i \in DOMAIN readers[s].sinks :
                  readers[s].sinks[i].pos <= Len(Files[readers[s].sinks[i].file].lines)
  <2> DEFINE r == readers[s]
  <2>1. GoodReader(r)
    BY <1>1 DEF TypeInv
  <2> HIDE DEF r
  <2>2. /\ r \in Reader /\ r.ptr <= Len(r.sinks) + 1
        /\ \A i \in DOMAIN r.sinks : /\ r.sinks[i] \in Sinks
                                     /\ r.sinks[i].pos <= Readable(r.sinks[i].file)
    BY <2>1, ReaderTypes DEF GoodReader, SoundReader
  <2>3. \A i \in DOMAIN r.sinks : r.sinks[i].pos <= Len(Files[r.sinks[i].file].lines)
    <3> TAKE i \in DOMAIN r.sinks
    <3>1. r.sinks[i].file \in DOMAIN Files /\ r.sinks[i].pos \in Nat
      BY <2>2 DEF Sinks
    <3> QED BY <2>2, <3>1, FileTypes DEF Lines
  <2> QED BY <2>2, <2>3 DEF r
<1> QED BY <1>1 DEF TypeInv, TypeOK

\* The reader of a source and the tuples in progress have the types of the code, and
\* no position is behind the end of its file.
THEOREM TypeCorrect == Spec => []TypeOK
  BY TypesKept, TypesSay, PTL

-----------------------------------------------------------------------------
(***************************************************************************)
(* The order of what a reader delivers.                                    *)
(***************************************************************************)
\* Only the positions and the tuples matter, and these may only grow.
LEMMA EndsStay ==
  ASSUME NEW r, GoodReader(r), NEW q, GoodReader(q), NEW t,
         Len(q.sinks) = Len(r.sinks), r.ptr <= q.ptr,
         \A i \in DOMAIN r.sinks : /\ q.sinks[i].file = r.sinks[i].file
                                   /\ r.sinks[i].pos <= q.sinks[i].pos,
         NEW i, NEW l, EndsAt(r, t, i, l)
  PROVE  EndsAt(q, t, i, l)
<1>1. /\ r \in Reader /\ q \in Reader
      /\ DOMAIN r.sinks = 1 .. Len(r.sinks) /\ DOMAIN q.sinks = 1 .. Len(r.sinks)
      /\ r.ptr \in Nat /\ q.ptr \in Nat
      /\ i \in 1 .. Len(r.sinks) /\ r.sinks[i] \in Sinks /\ q.sinks[i] \in Sinks
  BY ReaderTypes DEF GoodReader, SoundReader, EndsAt
<1>2. r.sinks[i].pos \in Nat /\ q.sinks[i].pos \in Nat
  BY <1>1 DEF Sinks
<1>3. i \in DOMAIN q.sinks /\ i <= q.ptr
  BY <1>1 DEF EndsAt
<1>4. q.sinks[i].file = r.sinks[i].file /\ r.sinks[i].pos <= q.sinks[i].pos
  BY <1>1
<1>5. l \in 1 .. q.sinks[i].pos
  BY <1>2, <1>4 DEF EndsAt
<1> QED BY <1>3, <1>4, <1>5 DEF EndsAt

\* A tuple was completed at one place.
LEMMA OneEnd ==
  ASSUME NEW r, GoodReader(r), NEW t, NEW i, NEW l, EndsAt(r, t, i, l),
         NEW q, GoodReader(q), Len(q.sinks) = Len(r.sinks),
         \A j \in DOMAIN r.sinks : q.sinks[j].file = r.sinks[j].file,
         NEW m, NEW n, EndsAt(q, t, m, n)
  PROVE  m = i /\ n = l
<1>1. /\ r \in Reader /\ q \in Reader
      /\ DOMAIN r.sinks = 1 .. Len(r.sinks) /\ DOMAIN q.sinks = 1 .. Len(r.sinks)
  BY ReaderTypes DEF GoodReader, SoundReader
<1>2. i \in DOMAIN r.sinks /\ m \in DOMAIN r.sinks
  BY <1>1 DEF EndsAt
<1>3. <<r.sinks[i].file, l>> = <<r.sinks[m].file, n>>
  BY <1>1, <1>2 DEF EndsAt
<1>4. r.sinks[i].file = r.sinks[m].file /\ l = n
  BY <1>3
<1> QED BY <1>2, <1>4 DEF GoodReader, SoundReader

\* With the same tuples, or none.
LEMMA OrderedSame ==
  ASSUME NEW r, GoodReader(r), NEW q, GoodReader(q), NEW h, NEW g,
         Len(q.sinks) = Len(r.sinks), r.ptr <= q.ptr,
         \A i \in DOMAIN r.sinks : /\ q.sinks[i].file = r.sinks[i].file
                                   /\ r.sinks[i].pos <= q.sinks[i].pos,
         Ordered(r, h), g.tuples = h.tuples
  PROVE  Ordered(q, g)
<1>1. ASSUME NEW k \in DOMAIN g.tuples
      PROVE  \E i \in DOMAIN q.sinks : \E l \in 1 .. q.sinks[i].pos : EndsAt(q, g.tuples[k], i, l)
  <2>1. PICK i, l : EndsAt(r, h.tuples[k], i, l)
    BY <1>1 DEF Ordered
  <2>2. EndsAt(q, g.tuples[k], i, l)
    BY <2>1, EndsStay
  <2> QED BY <2>2 DEF EndsAt
<1>2. ASSUME NEW j \in DOMAIN g.tuples, NEW k \in DOMAIN g.tuples, j < k,
             NEW i, NEW l, NEW m, NEW n,
             EndsAt(q, g.tuples[j], i, l), EndsAt(q, g.tuples[k], m, n)
      PROVE  Before(i, l, m, n)
  <2>1. PICK i0, l0 : EndsAt(r, h.tuples[j], i0, l0)
    BY <1>2 DEF Ordered
  <2>2. PICK m0, n0 : EndsAt(r, h.tuples[k], m0, n0)
    BY <1>2 DEF Ordered
  <2>3. i = i0 /\ l = l0 /\ m = m0 /\ n = n0
    BY <1>2, <2>1, <2>2, OneEnd
  <2>4. EndsAt(r, h.tuples[j], i, l) /\ EndsAt(r, h.tuples[k], m, n)
    BY <2>1, <2>2, <2>3
  <2>5. i \in DOMAIN r.sinks /\ m \in DOMAIN r.sinks /\ l \in 1 .. r.sinks[i].pos
        /\ n \in 1 .. r.sinks[m].pos
    BY <2>4 DEF EndsAt
  <2> QED BY <1>2, <2>4, <2>5 DEF Ordered
<1> QED BY <1>1, <1>2 DEF Ordered

\* The tuple that a call delivers is completed behind what was read before.
LEMMA OrderedMore ==
  ASSUME NEW r, GoodReader(r), NEW h \in Hist, NEW g, NEW res, Steps(r, res),
         res.kind = "tuple", Ordered(r, h), g.tuples = Append(h.tuples, res.tuple)
  PROVE  Ordered(res.reader, g)
<1> DEFINE q == res.reader
           N == Len(h.tuples)
           at == q.sinks[q.ptr].pos
<1>1. /\ GoodReader(q) /\ Len(q.sinks) = Len(r.sinks) /\ r.ptr <= q.ptr
      /\ \A i \in DOMAIN r.sinks : /\ q.sinks[i].file = r.sinks[i].file
                                   /\ r.sinks[i].pos <= q.sinks[i].pos
  BY StepsGood DEF Steps
<1>2. h.tuples \in Seq(Tuples) /\ N \in Nat /\ DOMAIN h.tuples = 1 .. N
  BY DEF Hist
<1>3. /\ DOMAIN g.tuples = 1 .. N + 1 /\ g.tuples[N + 1] = res.tuple
      /\ \A k \in 1 .. N : g.tuples[k] = h.tuples[k]
  BY <1>2
<1>4. /\ r \in Reader /\ q \in Reader /\ r.ptr \in Nat /\ q.ptr \in Nat
      /\ DOMAIN r.sinks = 1 .. Len(r.sinks) /\ DOMAIN q.sinks = 1 .. Len(r.sinks)
      /\ Len(r.sinks) \in Nat
      /\ \A i \in 1 .. Len(r.sinks) : r.sinks[i].pos \in Nat /\ q.sinks[i].pos \in Nat
  BY <1>1, ReaderTypes DEF GoodReader, SoundReader, Sinks
<1>5. /\ q.ptr \in DOMAIN r.sinks /\ r.sinks[q.ptr].pos < at
      /\ r.sinks[q.ptr].pos \in Nat /\ at \in Nat
      /\ Len(res.tuple.parts) >= 1
      /\ LastPart(res.tuple) = <<q.sinks[q.ptr].file, at>>
  BY <1>4 DEF Steps, LastPart
<1>6. EndsAt(q, res.tuple, q.ptr, at)
  <2>1. \A a, b \in Nat : a < b => b \in 1 .. b
    OBVIOUS
  <2>2. at \in 1 .. at
    BY <1>5, <2>1
  <2> QED BY <1>4, <1>5, <2>2 DEF EndsAt
<1>7. ASSUME NEW k \in 1 .. N
      PROVE  \E i, l : EndsAt(r, h.tuples[k], i, l) /\ EndsAt(q, g.tuples[k], i, l)
  <2>1. PICK i, l : EndsAt(r, h.tuples[k], i, l)
    BY <1>2, <1>7 DEF Ordered
  <2>2. EndsAt(q, h.tuples[k], i, l)
    BY <1>1, <2>1, EndsStay
  <2> QED BY <1>3, <1>7, <2>1, <2>2
<1> HIDE DEF q, at
<1>8. ASSUME NEW k \in DOMAIN g.tuples
      PROVE  \E i \in DOMAIN q.sinks : \E l \in 1 .. q.sinks[i].pos : EndsAt(q, g.tuples[k], i, l)
  <2>1. CASE k = N + 1
    BY <1>3, <1>6, <2>1 DEF EndsAt
  <2>2. CASE k \in 1 .. N
    BY <1>7, <2>2 DEF EndsAt
  <2> QED BY <1>2, <1>3, <2>1, <2>2
<1>9. ASSUME NEW j \in DOMAIN g.tuples, NEW k \in DOMAIN g.tuples, j < k,
             NEW i, NEW l, NEW m, NEW n,
             EndsAt(q, g.tuples[j], i, l), EndsAt(q, g.tuples[k], m, n)
      PROVE  Before(i, l, m, n)
  <2>1. j \in 1 .. N /\ (k = N + 1 \/ k \in 1 .. N)
    BY <1>2, <1>3, <1>9
  <2>2. PICK i0, l0 :
          EndsAt(r, h.tuples[j], i0, l0) /\ EndsAt(q, g.tuples[j], i0, l0)
    BY <1>7, <2>1
  <2>3. i = i0 /\ l = l0
    BY <1>1, <1>9, <2>2, OneEnd
  <2>4. CASE k = N + 1
    <3>1. m = q.ptr /\ n = at
      BY <1>1, <1>3, <1>6, <1>9, <2>4, OneEnd
    <3>2. i <= r.ptr /\ i \in 1 .. Len(r.sinks) /\ l \in 1 .. r.sinks[i].pos
      BY <1>4, <2>2, <2>3 DEF EndsAt
    <3>3. CASE i = q.ptr
      <4>1. r.sinks[i].pos \in Nat /\ r.sinks[i].pos < at /\ at \in Nat
        BY <1>4, <1>5, <3>2, <3>3
      <4>2. \A a, b \in Nat : \A c \in 1 .. a : a < b => c < b
        OBVIOUS
      <4>3. l < at
        BY <3>2, <4>1, <4>2
      <4> QED BY <3>1, <3>3, <4>3 DEF Before
    <3>4. CASE i # q.ptr
      BY <1>1, <1>4, <3>1, <3>2, <3>4 DEF Before
    <3> QED BY <3>3, <3>4
  <2>5. CASE k \in 1 .. N
    <3>1. PICK m0, n0 :
            EndsAt(r, h.tuples[k], m0, n0) /\ EndsAt(q, g.tuples[k], m0, n0)
      BY <1>7, <2>5
    <3>2. m = m0 /\ n = n0
      BY <1>1, <1>9, <3>1, OneEnd
    <3> QED BY <1>2, <1>9, <2>1, <2>2, <2>3, <2>5, <3>1, <3>2 DEF Ordered, EndsAt
  <2> QED BY <2>1, <2>4, <2>5
<1>10. Ordered(q, g)
  BY <1>8, <1>9 DEF Ordered
<1> QED BY <1>10 DEF q

LEMMA OrderedNone ==
  ASSUME NEW q, NEW g, g.tuples = <<>>
  PROVE  Ordered(q, g)
  BY DEF Ordered

\* What a call that does not read leaves of the positions.
LEMMA AskedGrows ==
  ASSUME NEW r, GoodReader(r), NEW h, NEW q, NEW g, Asked(r, h, q, g)
  PROVE  \A i \in DOMAIN r.sinks : /\ q.sinks[i].file = r.sinks[i].file
                                   /\ r.sinks[i].pos <= q.sinks[i].pos
<1> TAKE i \in DOMAIN r.sinks
<1>1. r.sinks[i] \in Sinks /\ r.sinks[i].pos <= Readable(r.sinks[i].file)
  BY ReaderTypes DEF GoodReader, SoundReader
<1>2. r.sinks[i].pos \in Nat
  BY <1>1 DEF Sinks
<1>3. q.sinks[i].file = r.sinks[i].file
  BY DEF Asked, Keeps
<1>4. q.sinks[i].pos = r.sinks[i].pos \/ q.sinks[i].pos = Readable(r.sinks[i].file)
  BY DEF Asked
<1> QED BY <1>1, <1>2, <1>3, <1>4

LEMMA OrderedStep ==
  ASSUME OrderInv, NEW s \in Sources, StepOf(s), readers'[s] # NoReader
  PROVE  Ordered(readers'[s], hist'[s])
<1> DEFINE r == readers[s]
           h == hist[s]
           q == readers'[s]
           g == hist'[s]
<1>1. TypeInv /\ TypeInv'
  BY StepTypes DEF OrderInv
<1>2. proto \in Tuples /\ h \in Hist /\ GoodReader(q)
  BY <1>1 DEF TypeInv, IsOpen
<1>3. IsOpen(s) => GoodReader(r) /\ Ordered(r, h)
  BY <1>1 DEF TypeInv, OrderInv
<1>4. CASE Built(s, q, g)
  BY <1>4, FreshIs, OrderedNone DEF Built
<1>5. ASSUME NEW res, IsOpen(s), Read(r, h, proto, q, g, res)
      PROVE  Ordered(q, g)
  <2>1. Steps(r, res) /\ q = res.reader
    BY <1>2, <1>3, <1>5, ReaderSteps DEF Read
  <2>2. CASE res.kind = "tuple"
    BY <1>2, <1>3, <1>5, <2>1, <2>2, OrderedMore DEF Read
  <2>3. CASE res.kind # "tuple"
    <3>1. g.tuples = h.tuples
      BY <1>5, <2>3 DEF Read
    <3>2. /\ Len(q.sinks) = Len(r.sinks) /\ r.ptr <= q.ptr
          /\ \A i \in DOMAIN r.sinks : /\ q.sinks[i].file = r.sinks[i].file
                                       /\ r.sinks[i].pos <= q.sinks[i].pos
      BY <2>1 DEF Steps
    <3> QED BY <1>2, <1>3, <1>5, <3>1, <3>2, OrderedSame
  <2> QED BY <2>2, <2>3
<1>6. CASE IsOpen(s) /\ Asked(r, h, q, g)
  <2>1. /\ g.tuples = h.tuples /\ Len(q.sinks) = Len(r.sinks) /\ r.ptr <= q.ptr
    BY <1>3, <1>6 DEF Asked, GoodReader, SoundReader, Reader
  <2> QED BY <1>2, <1>3, <1>6, <2>1, AskedGrows, OrderedSame
<1>7. CASE Restarted(r, h, q, g)
  BY <1>7, OrderedNone DEF Restarted
<1> QED BY <1>4, <1>5, <1>6, <1>7 DEF StepOf

LEMMA OrderSteps ==
  ASSUME OrderInv, Next
  PROVE  OrderInv'
<1>1. TypeInv
  BY DEF OrderInv
<1>2. PICK s \in Sources : StepOf(s)
  BY <1>1, SomeStep
<1>3. TypeInv'
  BY <1>1, <1>2, StepTypes
<1>4. ASSUME NEW t \in Sources, readers'[t] # NoReader
      PROVE  Ordered(readers'[t], hist'[t])
  <2>1. CASE t = s
    BY <1>2, <1>4, <2>1, OrderedStep
  <2>2. CASE t # s
    BY <1>2, <1>4, <2>2 DEF StepOf, OrderInv, IsOpen
  <2> QED BY <2>1, <2>2
<1> QED BY <1>3, <1>4 DEF OrderInv, IsOpen

LEMMA OrderKept == Spec => []OrderInv
<1>1. Init => OrderInv
  BY InitTypes DEF Init, OrderInv, IsOpen
<1>2. OrderInv /\ UNCHANGED vars => OrderInv'
  BY TypesSame DEF OrderInv, IsOpen, vars
<1>3. OrderInv /\ [Next]_vars => OrderInv'
  BY <1>2, OrderSteps
<1> QED BY <1>1, <1>3, PTL DEF Spec

\* EndOf is where EndsAt says.
LEMMA EndOfIs ==
  ASSUME NEW s \in Sources, GoodReader(readers[s]), NEW k, NEW i, NEW l,
         EndsAt(readers[s], hist[s].tuples[k], i, l)
  PROVE  EndOf(s, k) = <<i, l>>
<1> DEFINE r == readers[s]
           t == hist[s].tuples[k]
<1>1. LastPart(t)[1] = r.sinks[i].file /\ LastPart(t)[2] = l /\ i \in DOMAIN r.sinks
  BY DEF EndsAt
<1>2. \A j \in DOMAIN r.sinks : r.sinks[j].file = LastPart(t)[1] => j = i
  BY <1>1 DEF GoodReader, SoundReader
<1>3. (CHOOSE j \in DOMAIN r.sinks : r.sinks[j].file = LastPart(t)[1]) = i
  BY <1>1, <1>2
<1> QED BY <1>1, <1>3 DEF EndOf, LastPart

LEMMA OrderSays == OrderInv => DeliversInOrder
<1> SUFFICES ASSUME OrderInv, NEW s \in Sources, IsOpen(s),
                    NEW j \in DOMAIN hist[s].tuples, NEW k \in DOMAIN hist[s].tuples, j < k
             PROVE  LET a == EndOf(s, j)
                        b == EndOf(s, k)
                    IN  a[1] < b[1] \/ (a[1] = b[1] /\ a[2] < b[2])
  BY DEF DeliversInOrder
<1> DEFINE r == readers[s]
           h == hist[s]
<1>1. GoodReader(r) /\ Ordered(r, h)
  BY DEF OrderInv, TypeInv
<1>2. PICK i, l : EndsAt(r, h.tuples[j], i, l)
  BY <1>1 DEF Ordered
<1>3. PICK m, n : EndsAt(r, h.tuples[k], m, n)
  BY <1>1 DEF Ordered
<1>4. Before(i, l, m, n)
  BY <1>1, <1>2, <1>3 DEF Ordered, EndsAt
<1>5. EndOf(s, j) = <<i, l>> /\ EndOf(s, k) = <<m, n>>
  BY <1>1, <1>2, <1>3, EndOfIs
<1> QED BY <1>4, <1>5 DEF Before

\* A reader delivers the tuples of its files in their order, and none twice, whatever
\* is asked of it or of other readers in between: CompositeReader::next never goes
\* back to a sink, and no sink to a line.
THEOREM InOrderOfFiles == Spec => []DeliversInOrder
  BY OrderKept, OrderSays, PTL

-----------------------------------------------------------------------------
(***************************************************************************)
(* What a reader has behind it.                                            *)
(***************************************************************************)
LEMMA SinksOf ==
  ASSUME NEW r, GoodReader(r)
  PROVE  /\ r \in Reader /\ r.ptr \in Nat \ {0} /\ Len(r.sinks) \in Nat
         /\ DOMAIN r.sinks = 1 .. Len(r.sinks)
         /\ \A i \in DOMAIN r.sinks :
              /\ r.sinks[i] \in Sinks /\ r.sinks[i].pos \in Nat
              /\ r.sinks[i].file \in DOMAIN Files
              /\ r.sinks[i].pos <= Readable(r.sinks[i].file)
  BY ReaderTypes DEF GoodReader, SoundReader, Sinks

\* The tuple that a call delivers ends where the reader stands then.
LEMMA DeliveredEnds ==
  ASSUME NEW r, GoodReader(r), NEW res, Steps(r, res), res.kind = "tuple"
  PROVE  EndsAt(res.reader, res.tuple, res.reader.ptr,
                res.reader.sinks[res.reader.ptr].pos)
<1> DEFINE q == res.reader
           at == q.sinks[q.ptr].pos
<1>1. GoodReader(q) /\ Len(q.sinks) = Len(r.sinks)
  BY StepsGood DEF Steps
<1>2. q.ptr \in DOMAIN r.sinks /\ q.ptr \in DOMAIN q.sinks /\ q.ptr \in Nat
  BY <1>1, SinksOf DEF Steps
<1>3. r.sinks[q.ptr].pos < at /\ r.sinks[q.ptr].pos \in Nat /\ at \in Nat
  BY <1>1, <1>2, SinksOf DEF Steps
<1>4. \A a, b \in Nat : a < b => b \in 1 .. b
  OBVIOUS
<1>5. at \in 1 .. at
  BY <1>3, <1>4
<1>6. Len(res.tuple.parts) >= 1 /\ LastPart(res.tuple) = <<q.sinks[q.ptr].file, at>>
  BY DEF Steps, LastPart
<1> QED BY <1>2, <1>5, <1>6 DEF EndsAt

LEMMA BuiltLosesNone ==
  ASSUME NEW s \in Sources, NEW q, NEW g, Built(s, q, g)
  PROVE  FiltersKept(q, g) /\ NoneLost(q, g)
<1>1. /\ GoodReader(q) /\ q.ptr = 1 /\ g = Fresh
      /\ \A i \in DOMAIN q.sinks : q.sinks[i].pos = 0 /\ q.sinks[i].filter = NoFilter
  BY BuildGood DEF Built
<1>2. FiltersKept(q, g)
  BY <1>1, FreshIs DEF FiltersKept
<1>3. \A i \in DOMAIN q.sinks : i \in Nat \ {0}
  BY <1>1, SinksOf
<1>4. NoneLost(q, g)
  BY <1>1, <1>3 DEF NoneLost
<1> QED BY <1>2, <1>4

LEMMA RestartLosesNone ==
  ASSUME NEW r, GoodReader(r), NEW h, NEW q, NEW g, Restarted(r, h, q, g), FiltersKept(r, h)
  PROVE  FiltersKept(q, g) /\ NoneLost(q, g)
<1>1. /\ GoodReader(q) /\ q.ptr = 1 /\ g.reset = TRUE /\ g.filters = h.filters
      /\ DOMAIN q.sinks = DOMAIN r.sinks
      /\ \A i \in DOMAIN q.sinks : i \in Nat \ {0}
  BY SinksOf DEF Restarted
<1>2. FiltersKept(q, g)
  BY <1>1 DEF FiltersKept, Restarted
<1>3. \A i \in DOMAIN q.sinks : Stays(q, g, i) \/ q.sinks[i].pos = 0
  BY <1>1 DEF Stays, Restarted, Keeps
<1>4. NoneLost(q, g)
  <2> SUFFICES ASSUME NEW i \in DOMAIN q.sinks
               PROVE  /\ i < q.ptr => q.sinks[i].pos = Readable(q.sinks[i].file)
                      /\ (i > q.ptr /\ ~Stays(q, g, i)) => q.sinks[i].pos = 0
                      /\ ~Stays(q, g, i) => 1 .. q.sinks[i].pos = {}
    BY DEF NoneLost
  <2>1. ~(i < q.ptr)
    BY <1>1
  <2> QED BY <1>3, <2>1
<1> QED BY <1>2, <1>4

LEMMA AskedLosesNone ==
  ASSUME NEW r, GoodReader(r), NEW h, NEW q, NEW g, Asked(r, h, q, g), FiltersKept(r, h)
  PROVE  /\ FiltersKept(q, g)
         /\ (~g.counted /\ NoneLost(r, h)) => NoneLost(q, g)
<1>1. /\ GoodReader(q) /\ q.ptr = r.ptr /\ Len(q.sinks) = Len(r.sinks)
      /\ DOMAIN q.sinks = DOMAIN r.sinks
      /\ g.tuples = h.tuples /\ g.reset = h.reset /\ h.filters \subseteq g.filters
  BY SinksOf DEF Asked
<1>2. FiltersKept(q, g)
  BY <1>1 DEF FiltersKept, Asked
<1>3. ASSUME ~g.counted, NoneLost(r, h) PROVE NoneLost(q, g)
  <2>1. \A i \in DOMAIN r.sinks : q.sinks[i].file = r.sinks[i].file /\ q.sinks[i].pos = r.sinks[i].pos
    BY <1>3 DEF Asked, Keeps
  <2>2. \A i \in DOMAIN r.sinks : Stays(q, g, i) <=> Stays(r, h, i)
    BY <1>1, <2>1 DEF Stays
  <2>3. \A f, l : Wanted(g, f, l) => Wanted(h, f, l)
    BY <1>1 DEF Wanted
  <2>4. \A t, i, l : EndsAt(r, t, i, l) => EndsAt(q, t, i, l)
    BY <1>1, <2>1 DEF EndsAt
  <2>5. ASSUME NEW i \in DOMAIN q.sinks, NEW l \in 1 .. q.sinks[i].pos,
               Wanted(g, q.sinks[i].file, l), ~Stays(q, g, i)
        PROVE  \E k \in DOMAIN g.tuples : EndsAt(q, g.tuples[k], i, l)
    <3>1. i \in DOMAIN r.sinks /\ l \in 1 .. r.sinks[i].pos /\ ~Stays(r, h, i)
          /\ Wanted(h, r.sinks[i].file, l)
      BY <1>1, <2>1, <2>2, <2>3, <2>5
    <3>2. PICK k \in DOMAIN h.tuples : EndsAt(r, h.tuples[k], i, l)
      BY <1>3, <3>1 DEF NoneLost
    <3> QED BY <1>1, <2>4, <3>2
  <2>6. ASSUME NEW i \in DOMAIN q.sinks
        PROVE  /\ i < q.ptr => q.sinks[i].pos = Readable(q.sinks[i].file)
               /\ (i > q.ptr /\ ~Stays(q, g, i)) => q.sinks[i].pos = 0
    BY <1>1, <1>3, <2>1, <2>2 DEF NoneLost
  <2> QED BY <2>5, <2>6 DEF NoneLost
<1> QED BY <1>2, <1>3

LEMMA ReadLosesNone ==
  ASSUME NEW r, GoodReader(r), NEW h \in Hist, NEW pr \in Tuples, NEW q, NEW g, NEW res,
         Read(r, h, pr, q, g, res), FiltersKept(r, h)
  PROVE  /\ FiltersKept(q, g)
         /\ (res.kind \notin {"exit", "undefined"} /\ NoneLost(r, h)) => NoneLost(q, g)
<1>1. Steps(r, res) /\ q = res.reader /\ GoodReader(q)
  BY ReaderSteps, StepsGood DEF Read
<1>2. /\ Len(q.sinks) = Len(r.sinks) /\ DOMAIN q.sinks = DOMAIN r.sinks
      /\ r.ptr <= q.ptr /\ r.ptr \in Nat /\ q.ptr \in Nat
      /\ g.filters = h.filters /\ g.reset = h.reset
      /\ \A i \in DOMAIN r.sinks :
           /\ i \in Nat /\ q.sinks[i].file = r.sinks[i].file
           /\ r.sinks[i].pos <= q.sinks[i].pos
           /\ r.sinks[i].pos \in Nat /\ q.sinks[i].pos \in Nat
           /\ q.sinks[i].filter = r.sinks[i].filter
  BY <1>1, SinksOf DEF Steps, Read
<1>3. FiltersKept(q, g)
  BY <1>2 DEF FiltersKept
<1>4. \A i \in DOMAIN r.sinks : Stays(q, g, i) <=> Stays(r, h, i)
  BY <1>2 DEF Stays
<1>5. ASSUME res.kind \notin {"exit", "undefined"}, NoneLost(r, h) PROVE NoneLost(q, g)
  <2>1. ASSUME NEW i \in DOMAIN q.sinks, i < q.ptr
        PROVE  q.sinks[i].pos = Readable(q.sinks[i].file)
    <3>1. CASE i < r.ptr
      BY <1>1, <1>2, <1>5, <2>1, <3>1 DEF NoneLost, Steps
    <3>2. CASE r.ptr <= i
      BY <1>1, <1>2, <1>5, <2>1, <3>2 DEF Steps
    <3> QED BY <1>2, <2>1, <3>1, <3>2
  <2>2. ASSUME NEW i \in DOMAIN q.sinks, i > q.ptr, ~Stays(q, g, i)
        PROVE  q.sinks[i].pos = 0
    <3>1. i > r.ptr /\ i \in DOMAIN r.sinks /\ q.sinks[i] = r.sinks[i] /\ ~Stays(r, h, i)
      BY <1>1, <1>2, <1>4, <2>2 DEF Steps
    <3> QED BY <1>5, <3>1 DEF NoneLost
  <2>3. ASSUME NEW i \in DOMAIN q.sinks, NEW l \in 1 .. q.sinks[i].pos,
               Wanted(g, q.sinks[i].file, l), ~Stays(q, g, i)
        PROVE  \E k \in DOMAIN g.tuples : EndsAt(q, g.tuples[k], i, l)
    <3>1. i \in DOMAIN r.sinks /\ Wanted(h, r.sinks[i].file, l) /\ ~Stays(r, h, i)
      BY <1>2, <1>4, <2>3 DEF Wanted
    <3>2. CASE l \in 1 .. r.sinks[i].pos
      <4>1. PICK k \in DOMAIN h.tuples : EndsAt(r, h.tuples[k], i, l)
        BY <1>5, <3>1, <3>2 DEF NoneLost
      <4>2. EndsAt(q, h.tuples[k], i, l)
        BY <1>1, <1>2, <4>1, EndsStay
      <4>3. h.tuples \in Seq(Tuples) /\ res.tuple \in Tuples
        BY <1>1 DEF Hist, Steps
      <4>4. k \in DOMAIN g.tuples /\ g.tuples[k] = h.tuples[k]
        BY <4>1, <4>3 DEF Read
      <4> QED BY <4>2, <4>4
    <3>3. CASE l \in r.sinks[i].pos + 1 .. q.sinks[i].pos
      <4>1. IsStop(r.sinks[i], l)
        BY <3>1 DEF IsStop, Wanted, FiltersKept
      <4>2. res.kind = "tuple" /\ i = q.ptr /\ l = q.sinks[i].pos
        BY <1>1, <1>5, <3>1, <3>3, <4>1 DEF Steps
      <4>3. EndsAt(q, res.tuple, i, l)
        BY <1>1, <4>2, DeliveredEnds
      <4>4. h.tuples \in Seq(Tuples) /\ res.tuple \in Tuples
        BY <1>1 DEF Hist, Steps
      <4>5. g.tuples = Append(h.tuples, res.tuple)
        BY <4>2 DEF Read
      <4>6. Len(h.tuples) + 1 \in DOMAIN g.tuples /\ g.tuples[Len(h.tuples) + 1] = res.tuple
        BY <4>4, <4>5
      <4> QED BY <4>3, <4>6
    <3> QED BY <1>2, <2>3, <3>1, <3>2, <3>3
  <2> QED BY <2>1, <2>2, <2>3 DEF NoneLost
<1> QED BY <1>3, <1>5

\* What PassedInv says of one source.
LosesNone(r, h, runs) == FiltersKept(r, h) /\ ((runs /\ ~h.counted) => NoneLost(r, h))

LEMMA PassedStep ==
  ASSUME PassedInv, NEW s \in Sources, StepOf(s), readers'[s] # NoReader
  PROVE  LosesNone(readers'[s], hist'[s], running')
<1> DEFINE r == readers[s]
           h == hist[s]
           q == readers'[s]
           g == hist'[s]
<1>1. TypeInv /\ running
  BY DEF PassedInv, OrderInv, StepOf
<1>2. proto \in Tuples /\ h \in Hist
  BY <1>1 DEF TypeInv
<1>3. IsOpen(s) => GoodReader(r) /\ FiltersKept(r, h) /\ (~h.counted => NoneLost(r, h))
  BY <1>1 DEF TypeInv, PassedInv
<1>4. CASE Built(s, q, g)
  BY <1>4, BuiltLosesNone DEF LosesNone
<1>5. ASSUME NEW res, IsOpen(s), Read(r, h, proto, q, g, res),
             running' = (res.kind \notin {"exit", "undefined"})
      PROVE  LosesNone(q, g, running')
  <2>1. g.counted = h.counted
    BY <1>5 DEF Read
  <2> QED BY <1>2, <1>3, <1>5, <2>1, ReadLosesNone DEF LosesNone
<1>6. CASE IsOpen(s) /\ Asked(r, h, q, g)
  <2>1. ~g.counted => ~h.counted
    BY <1>6 DEF Asked
  <2> QED BY <1>3, <1>6, <2>1, AskedLosesNone DEF LosesNone
<1>7. CASE IsOpen(s) /\ Restarted(r, h, q, g)
  BY <1>3, <1>7, RestartLosesNone DEF LosesNone
<1> QED BY <1>4, <1>5, <1>6, <1>7 DEF StepOf

LEMMA PassedSteps ==
  ASSUME PassedInv, Next
  PROVE  PassedInv'
<1>1. OrderInv /\ TypeInv
  BY DEF PassedInv, OrderInv
<1>2. PICK s \in Sources : StepOf(s)
  BY <1>1, SomeStep
<1>3. OrderInv'
  BY <1>1, OrderSteps
<1>4. ASSUME NEW t \in Sources, readers'[t] # NoReader
      PROVE  LosesNone(readers'[t], hist'[t], running')
  <2>1. CASE t = s
    BY <1>2, <1>4, <2>1, PassedStep
  <2>2. CASE t # s
    <3>1. readers'[t] = readers[t] /\ hist'[t] = hist[t] /\ running
      BY <1>2, <2>2 DEF StepOf
    <3> QED BY <1>4, <3>1 DEF PassedInv, IsOpen, LosesNone
  <2> QED BY <2>1, <2>2
<1> QED BY <1>3, <1>4 DEF PassedInv, IsOpen, LosesNone

LEMMA PassedKept == Spec => []PassedInv
<1>1. Init => PassedInv
  BY InitTypes DEF Init, PassedInv, OrderInv, IsOpen
<1>2. OrderInv /\ UNCHANGED vars => OrderInv'
  BY TypesSame DEF OrderInv, IsOpen, vars
<1>3. PassedInv /\ UNCHANGED vars => PassedInv'
  BY <1>2 DEF PassedInv, IsOpen, vars
<1>4. PassedInv /\ [Next]_vars => PassedInv'
  BY <1>3, PassedSteps
<1> QED BY <1>1, <1>4, PTL DEF Spec

\* What NonePassedOver says of one sink.
NonePassedBy(s, i) ==
  LET r     == readers[s]
      f     == r.sinks[i].file
      stays == hist[s].reset /\ Files[f].backend = "sqlite"
  IN  /\ i < r.ptr => r.sinks[i].pos = Readable(f)
      /\ (i > r.ptr /\ ~stays) => r.sinks[i].pos = 0
      /\ \A l \in 1 .. r.sinks[i].pos :
           LET line == Files[f].lines[l]
           IN  (/\ line.kind = "done" /\ ~stays
                /\ \A filter \in hist[s].filters : Accepts(filter, f, line.name))
                 => \E k \in DOMAIN hist[s].tuples : EndOf(s, k) = <<i, l>>

LEMMA PassedSays == PassedInv => NonePassedOver
<1> SUFFICES ASSUME PassedInv PROVE NonePassedOver
  OBVIOUS
<1>1. ASSUME NEW s \in Sources, IsOpen(s), running, ~hist[s].counted,
             NEW i \in DOMAIN readers[s].sinks
      PROVE  NonePassedBy(s, i)
  <2> DEFINE r == readers[s]
             h == hist[s]
             f == r.sinks[i].file
  <2>1. GoodReader(r) /\ NoneLost(r, h)
    BY <1>1 DEF PassedInv, OrderInv, TypeInv
  <2>2. /\ i < r.ptr => r.sinks[i].pos = Readable(f)
        /\ (i > r.ptr /\ ~Stays(r, h, i)) => r.sinks[i].pos = 0
    BY <1>1, <2>1 DEF NoneLost
  <2>3. ASSUME NEW l \in 1 .. r.sinks[i].pos, Wanted(h, f, l), ~Stays(r, h, i)
        PROVE  \E k \in DOMAIN h.tuples : EndOf(s, k) = <<i, l>>
    <3>1. PICK k \in DOMAIN h.tuples : EndsAt(r, h.tuples[k], i, l)
      BY <1>1, <2>1, <2>3 DEF NoneLost
    <3> QED BY <2>1, <3>1, EndOfIs
  <2> QED BY <2>2, <2>3 DEF NonePassedBy, Wanted, Stays, Lines
<1> QED BY <1>1 DEF NonePassedOver, NonePassedBy

\* No complete tuple is passed over: what a reader has behind it and all its filters
\* accept was delivered, an exhausted sink of a composite has delivered all of its
\* tuples and the sinks behind the current one are untouched.
THEOREM NoTupleLost == Spec => []NonePassedOver
  BY PassedKept, PassedSays, PTL

-----------------------------------------------------------------------------
(***************************************************************************)
(* The lines that a delivered tuple is made of.                            *)
(***************************************************************************)
LEMMA AddLineGz ==
  ASSUME NEW f \in DOMAIN Files, NEW i \in 1 .. Readable(f), NEW cur \in Tuples,
         Files[f].backend = "gz", OfGzip(cur)
  PROVE  OfGzip(AddLine(cur, f, i))
<1> DEFINE parts == AddLine(cur, f, i).parts
<1>1. cur.parts \in Seq(Parts)
  BY DEF Tuples, Parts
<1>2. parts = cur.parts \/ parts = Append(cur.parts, <<f, i>>) \/ parts = <<<<f, i>>>>
  BY AddLineIs
<1> HIDE DEF parts
<1>3. ASSUME NEW k \in DOMAIN parts
      PROVE  parts[k] = <<f, i>> \/ \E j \in DOMAIN cur.parts : parts[k] = cur.parts[j]
  <2>1. CASE parts = cur.parts
    BY <1>3, <2>1
  <2>2. CASE parts = Append(cur.parts, <<f, i>>)
    <3>1. k \in 1 .. Len(cur.parts) + 1 /\ DOMAIN cur.parts = 1 .. Len(cur.parts)
      BY <1>1, <1>3, <2>2
    <3>2. k = Len(cur.parts) + 1 => parts[k] = <<f, i>>
      BY <1>1, <2>2
    <3>3. k \in 1 .. Len(cur.parts) => parts[k] = cur.parts[k]
      BY <1>1, <2>2
    <3> QED BY <1>1, <3>1, <3>2, <3>3
  <2>3. CASE parts = <<<<f, i>>>>
    BY <1>3, <2>3
  <2> QED BY <1>2, <2>1, <2>2, <2>3
<1>4. \A k \in DOMAIN parts : Files[parts[k][1]].backend = "gz"
  BY <1>3 DEF OfGzip
<1> QED BY <1>4 DEF OfGzip, parts

LEMMA CarriedGz ==
  ASSUME NEW f \in DOMAIN Files, NEW cur \in Tuples, NEW from \in Nat, NEW to \in Nat,
         1 <= from, from <= to + 1, to <= Readable(f),
         Files[f].backend = "gz", OfGzip(cur)
  PROVE  OfGzip(Carried(cur, f, from, to))
<1> DEFINE N == to - from + 1
<1>1. PICK after : Carries(after, cur, f, from, to)
  BY CarriedIs
<1>2. N \in Nat
  OBVIOUS
<1> DEFINE S == {n \in Nat : n <= N => OfGzip(after[n])}
<1>3. 0 \in S
  BY <1>1 DEF Carries
<1>4. ASSUME NEW n \in Nat, n \in S PROVE n + 1 \in S
  <2> SUFFICES ASSUME n + 1 <= N PROVE OfGzip(after[n + 1])
    OBVIOUS
  <2>1. /\ n + 1 \in 1 .. N /\ (n + 1) - 1 = n /\ n \in 0 .. N
        /\ from + (n + 1) - 1 = from + n /\ from + n \in 1 .. Readable(f)
    BY <1>2, FileTypes
  <2>2. after[n] \in Tuples /\ OfGzip(after[n])
    BY <1>1, <1>4, <2>1 DEF Carries
  <2>3. after[n + 1] = Passed(after[n], f, from + n)
    BY <1>1, <2>1 DEF Carries
  <2>4. OfGzip(NoTuple)
    BY NoTupleIs DEF OfGzip
  <2> QED BY <2>1, <2>2, <2>3, <2>4, AddLineGz DEF Passed
<1> HIDE DEF S
<1>5. \A n \in Nat : n \in S
  BY <1>3, <1>4, SetInduction
<1>6. N \in S
  BY <1>2, <1>5
<1> QED BY <1>1, <1>2, <1>6 DEF S, Carries

\* What next() of a backend makes of the lines.
LEMMA SinkWhole ==
  ASSUME NEW sink \in Sinks, NEW pr \in Tuples, sink.pos <= Readable(sink.file), OfGzip(pr),
         NEW res, res = SinkNext(sink, pr)
  PROVE  /\ OfGzip(res.proto)
         /\ RunKept(sink) => /\ res.kind = "tuple" => Complete(res.tuple)
                             /\ res.kind # "exit" => RunKept(res.sink)
<1> DEFINE f == sink.file
           l == sink.pos
<1>1. /\ f \in DOMAIN Files /\ l \in Nat /\ sink.cur \in Tuples /\ Readable(f) \in Nat
      /\ Begun(sink, pr) \in Tuples /\ OfGzip(NoTuple)
  BY SinkTypes, NoTupleIs DEF OfGzip
<1>2. CASE StopsAt(sink) = {}
  <2>1. /\ res.sink.pos = Readable(f) /\ res.sink.file = f /\ res.kind = "terminate"
        /\ res.proto = IF IsGz(sink) THEN AtEnd(sink, pr) ELSE pr
    BY <1>2, SinkEnds
  <2>2. RunKept(res.sink)
    BY <1>1, <2>1 DEF RunKept
  <2>3. ASSUME IsGz(sink) PROVE OfGzip(AtEnd(sink, pr))
    <3>1. Begun(sink, pr) = pr /\ Files[f].backend = "gz"
      BY <2>3 DEF Begun, IsGz
    <3>2. /\ l + 1 \in Nat /\ 1 <= l + 1 /\ l + 1 <= Readable(f) + 1
      BY <1>1
    <3> QED BY <1>1, <3>1, <3>2, CarriedGz DEF AtEnd
  <2> QED BY <2>1, <2>2, <2>3
<1>3. CASE StopsAt(sink) # {}
  <2> DEFINE at == FirstStop(sink)
             cur == AtStop(sink, pr)
  <2>1. /\ at \in StopsAt(sink) /\ at \in Nat /\ l < at /\ at <= Readable(f)
        /\ cur \in Tuples
        /\ res.sink \in Sinks /\ res.sink.file = f /\ res.sink.pos = at
        /\ res.sink.cur = IF IsGz(sink) THEN sink.cur ELSE NoTuple
        /\ res.proto = IF IsGz(sink) THEN NoTuple ELSE pr
        /\ res.kind = IF Lines(f)[at].kind = "broken" THEN "exit" ELSE "tuple"
        /\ res.tuple = IF Lines(f)[at].kind = "broken" THEN NoTuple ELSE AddLine(cur, f, at)
    BY <1>3, SinkStops
  <2>2. OfGzip(res.proto)
    BY <1>1, <2>1
  <2>3. at \in 1 .. Readable(f) /\ IsStop(sink, at)
    BY <1>1, <2>1, StopsAtIs
  <2>4. /\ l + 1 \in Nat /\ 1 <= l + 1 /\ at - 1 \in Nat /\ l + 1 <= (at - 1) + 1
        /\ at - 1 <= Readable(f) /\ (l + 1) - 1 = l
    BY <1>1, <2>1
  <2> HIDE DEF at, cur
  <2>5. ASSUME RunKept(sink), res.kind = "tuple"
        PROVE  Complete(res.tuple) /\ RunKept(res.sink)
    <3>1. Lines(f)[at].kind = "done" /\ res.tuple = AddLine(cur, f, at)
      BY <2>1, <2>3, <2>5 DEF IsStop
    <3>2. /\ Len(res.tuple.parts) >= 1 /\ res.tuple \in Tuples
          /\ res.tuple.parts[Len(res.tuple.parts)] = <<f, at>>
      BY <2>1, <2>5, SinkNextIs DEF Advances
    <3>3. CASE IsGz(sink)
      <4>1. Begun(sink, pr) = pr /\ Files[f].backend = "gz"
        BY <3>3 DEF Begun, IsGz
      <4>2. OfGzip(cur)
        BY <1>1, <2>4, <4>1, CarriedGz DEF AtStop, at, cur
      <4>3. OfGzip(res.tuple)
        BY <1>1, <2>1, <2>3, <3>1, <4>1, <4>2, AddLineGz
      <4>4. RunKept(res.sink)
        BY <2>1, <3>3 DEF RunKept, IsGz
      <4> QED BY <3>2, <4>3, <4>4 DEF Complete
    <3>4. CASE ~IsGz(sink)
      <4>1. Begun(sink, pr) = sink.cur /\ IsRun(sink.cur, f, l)
        BY <1>1, <2>1, <2>5, <3>4 DEF Begun, IsGz, RunKept
      <4>2. IsRun(cur, f, at - 1)
        BY <1>1, <2>4, <4>1, CarriedRun DEF AtStop, at, cur
      <4>3. res.tuple = TupleAt(f, at)
        BY <1>1, <2>1, <2>3, <3>1, <4>2, RunAdded
      <4>4. IsWhole(res.tuple)
        BY <3>2, <4>3 DEF IsWhole
      <4>5. OpenLines(f, at) = {}
        BY <1>1, <2>3, <3>1, OpenLinesIs
      <4>6. IsRun(NoTuple, f, at)
        BY <4>5, NoTupleIs, PartsNone DEF IsRun
      <4>7. RunKept(res.sink)
        BY <2>1, <3>4, <4>6 DEF RunKept
      <4> QED BY <3>2, <4>4, <4>7 DEF Complete
    <3> QED BY <3>3, <3>4
  <2>6. res.kind = "exit" \/ res.kind = "tuple"
    BY <2>1
  <2> QED BY <2>2, <2>5, <2>6
<1> QED BY <1>2, <1>3

\* ... and next() of a reader.
LEMMA ReaderWhole ==
  ASSUME NEW r, GoodReader(r), NEW pr \in Tuples, OfGzip(pr), NEW res, res = ReaderNext(r, pr)
  PROVE  /\ OfGzip(res.proto)
         /\ RunsKept(r) => /\ res.kind = "tuple" => Complete(res.tuple)
                           /\ res.kind \notin {"exit", "undefined"} => RunsKept(res.reader)
<1>1. \A i \in DOMAIN r.sinks : r.sinks[i] \in Sinks /\ r.sinks[i].pos <= Readable(r.sinks[i].file)
  BY SinksOf
<1>2. CASE Says(res, "undefined", NoTuple, pr)
  BY <1>2 DEF Says
<1>3. CASE r.ptr \in DOMAIN r.sinks /\ Calls1(r, pr, res)
  <2> DEFINE k == r.ptr
  <2>1. PICK first : /\ first = SinkNext(r.sinks[k], pr)
                     /\ Replaces(r, res.reader, k, first.sink)
                     /\ Says(res, first.kind, first.tuple, first.proto)
    BY <1>3 DEF Calls1
  <2>2. /\ OfGzip(first.proto)
        /\ RunKept(r.sinks[k]) => /\ first.kind = "tuple" => Complete(first.tuple)
                                  /\ first.kind # "exit" => RunKept(first.sink)
    BY <1>1, <1>3, <2>1, SinkWhole
  <2>3. ASSUME RunsKept(r), first.kind # "exit" PROVE RunsKept(res.reader)
    <3>1. DOMAIN res.reader.sinks = DOMAIN r.sinks
      BY <1>3, <2>1, SinksOf, ReaderTypes DEF Replaces
    <3> QED BY <1>3, <2>1, <2>2, <2>3, <3>1 DEF Replaces, RunsKept
  <2> QED BY <1>3, <2>1, <2>2, <2>3 DEF Says, RunsKept
<1>4. CASE r.ptr \in DOMAIN r.sinks /\ Calls2(r, pr, res)
  <2> DEFINE k == r.ptr
  <2>1. PICK first, second, mid :
          /\ first = SinkNext(r.sinks[k], pr) /\ first.kind = "terminate"
          /\ k + 1 \in DOMAIN r.sinks
          /\ second = SinkNext(r.sinks[k + 1], first.proto)
          /\ Replaces(r, mid, k, first.sink)
          /\ Replaces(mid, res.reader, k + 1, second.sink)
          /\ Says(res, second.kind, second.tuple, second.proto)
    BY <1>4 DEF Calls2
  <2>2. /\ OfGzip(first.proto)
        /\ RunKept(r.sinks[k]) => RunKept(first.sink)
    BY <1>1, <1>4, <2>1, SinkWhole
  <2>3. first.proto \in Tuples
    BY <1>1, <1>4, <2>1, SinkNextIs DEF Advances
  <2>4. /\ OfGzip(second.proto)
        /\ RunKept(r.sinks[k + 1]) => /\ second.kind = "tuple" => Complete(second.tuple)
                                      /\ second.kind # "exit" => RunKept(second.sink)
    <3> DEFINE sink == r.sinks[k + 1]
               pr2 == first.proto
    <3>1. /\ sink \in Sinks /\ sink.pos <= Readable(sink.file)
          /\ pr2 \in Tuples /\ OfGzip(pr2) /\ second = SinkNext(sink, pr2)
      BY <1>1, <2>1, <2>2, <2>3
    <3> HIDE DEF sink, pr2
    <3>2. /\ OfGzip(second.proto)
          /\ RunKept(sink) => /\ second.kind = "tuple" => Complete(second.tuple)
                              /\ second.kind # "exit" => RunKept(second.sink)
      BY <3>1, SinkWhole
    <3> QED BY <3>2 DEF sink
  <2>5. /\ DOMAIN mid.sinks = DOMAIN r.sinks /\ DOMAIN res.reader.sinks = DOMAIN r.sinks
        /\ k \in Nat
    BY <1>4, <2>1, SinksOf, ReaderTypes DEF Replaces
  <2>6. ASSUME RunsKept(r), second.kind # "exit" PROVE RunsKept(res.reader)
    <3> SUFFICES ASSUME NEW i \in DOMAIN r.sinks PROVE RunKept(res.reader.sinks[i])
      BY <2>5 DEF RunsKept
    <3>1. CASE i = k + 1
      BY <2>1, <2>4, <2>6, <3>1 DEF Replaces, RunsKept
    <3>2. CASE i = k
      <4>1. res.reader.sinks[k] = first.sink
        BY <1>4, <2>1, <2>5 DEF Replaces
      <4> QED BY <2>2, <2>6, <3>2, <4>1 DEF RunsKept
    <3>3. CASE i # k /\ i # k + 1
      <4>1. res.reader.sinks[i] = r.sinks[i]
        BY <2>1, <2>5, <3>3 DEF Replaces
      <4> QED BY <2>6, <4>1 DEF RunsKept
    <3> QED BY <3>1, <3>2, <3>3
  <2> QED BY <2>1, <2>4, <2>6 DEF Says, RunsKept
<1> QED BY <1>2, <1>3, <1>4, ReaderNextIs DEF GoodReader

AllComplete(h) == ~h.reset => \A k \in DOMAIN h.tuples : Complete(h.tuples[k])

LEMMA BuiltRuns ==
  ASSUME NEW s \in Sources, NEW q, NEW g, Built(s, q, g)
  PROVE  RunsKept(q) /\ AllComplete(g)
<1>1. AllComplete(g)
  BY FreshIs DEF Built, AllComplete
<1>2. \A i \in DOMAIN q.sinks : q.sinks[i].pos = 0 /\ q.sinks[i].cur = NoTuple
  BY BuildGood DEF Built
<1>3. \A f : IsRun(NoTuple, f, 0)
  <2>1. \A f : OpenLines(f, 0) = {}
    BY DEF OpenLines
  <2> QED BY <2>1, NoTupleIs, PartsNone DEF IsRun
<1>4. RunsKept(q)
  BY <1>2, <1>3 DEF RunsKept, RunKept
<1> QED BY <1>1, <1>4

LEMMA AskedRuns ==
  ASSUME NEW r, GoodReader(r), NEW h, NEW q, NEW g, Asked(r, h, q, g), RunsKept(r)
  PROVE  RunsKept(q)
<1>1. DOMAIN q.sinks = DOMAIN r.sinks
  BY SinksOf DEF Asked
<1>2. ASSUME NEW i \in DOMAIN r.sinks PROVE RunKept(q.sinks[i])
  <2>1. /\ q.sinks[i].file = r.sinks[i].file /\ q.sinks[i].cur = r.sinks[i].cur
        /\ Readable(r.sinks[i].file) \in Nat
    BY <1>2, SinksOf, FileTypes DEF Asked, Keeps
  <2>2. CASE q.sinks[i].pos = r.sinks[i].pos
    BY <1>2, <2>1, <2>2 DEF RunsKept, RunKept, IsGz
  <2>3. CASE q.sinks[i].pos = Readable(r.sinks[i].file)
    BY <2>1, <2>3 DEF RunKept
  <2> QED BY <1>2, <2>2, <2>3 DEF Asked
<1> QED BY <1>1, <1>2 DEF RunsKept

LEMMA ReadCompletes ==
  ASSUME NEW h \in Hist, NEW g, NEW t, t \in Tuples, Complete(t), AllComplete(h),
         g.tuples = Append(h.tuples, t), g.reset = h.reset
  PROVE  AllComplete(g)
<1>1. h.tuples \in Seq(Tuples)
  BY DEF Hist
<1>2. \A k \in DOMAIN g.tuples :
        g.tuples[k] = t \/ \E j \in DOMAIN h.tuples : g.tuples[k] = h.tuples[j]
  <2> TAKE k \in DOMAIN g.tuples
  <2>1. k \in 1 .. Len(h.tuples) + 1 /\ DOMAIN h.tuples = 1 .. Len(h.tuples)
    BY <1>1
  <2>2. k = Len(h.tuples) + 1 => g.tuples[k] = t
    BY <1>1
  <2>3. k \in 1 .. Len(h.tuples) => g.tuples[k] = h.tuples[k]
    BY <1>1
  <2> QED BY <1>1, <2>1, <2>2, <2>3
<1> QED BY <1>2 DEF AllComplete

\* What WholeInv says of one source.
Holds(r, h, runs) == AllComplete(h) /\ ((runs /\ r # NoReader /\ ~h.reset) => RunsKept(r))

LEMMA WholeStep ==
  ASSUME WholeInv, NEW s \in Sources, StepOf(s)
  PROVE  OfGzip(proto') /\ Holds(readers'[s], hist'[s], running')
<1> DEFINE r == readers[s]
           h == hist[s]
           q == readers'[s]
           g == hist'[s]
<1>1. TypeInv /\ running
  BY DEF WholeInv, StepOf
<1>2. proto \in Tuples /\ h \in Hist /\ OfGzip(proto) /\ AllComplete(h)
  BY <1>1 DEF TypeInv, WholeInv, AllComplete
<1>3. IsOpen(s) => GoodReader(r) /\ (~h.reset => RunsKept(r))
  BY <1>1 DEF TypeInv, WholeInv
<1>4. CASE Built(s, q, g) /\ UNCHANGED <<proto, running>>
  BY <1>2, <1>4, BuiltRuns DEF Holds
<1>5. ASSUME NEW res, IsOpen(s), Read(r, h, proto, q, g, res), proto' = res.proto,
             running' = (res.kind \notin {"exit", "undefined"})
      PROVE  OfGzip(proto') /\ Holds(q, g, running')
  <2>1. GoodReader(r) /\ res = ReaderNext(r, proto) /\ q = res.reader /\ g.reset = h.reset
    BY <1>3, <1>5 DEF Read
  <2>2. OfGzip(res.proto) /\ res.tuple \in Tuples
    BY <1>2, <2>1, ReaderWhole, ReaderSteps DEF Steps
  <2>3. ASSUME ~h.reset
        PROVE  /\ res.kind = "tuple" => Complete(res.tuple)
               /\ res.kind \notin {"exit", "undefined"} => RunsKept(q)
    BY <1>2, <1>3, <1>5, <2>1, <2>3, ReaderWhole
  <2>4. AllComplete(g)
    <3>1. CASE g.reset
      BY <3>1 DEF AllComplete
    <3>2. CASE ~g.reset /\ res.kind = "tuple"
      BY <1>2, <1>5, <2>1, <2>2, <2>3, <3>2, ReadCompletes DEF Read
    <3>3. CASE res.kind # "tuple"
      BY <1>2, <1>5, <3>3 DEF Read, AllComplete
    <3> QED BY <3>1, <3>2, <3>3
  <2> QED BY <1>5, <2>1, <2>2, <2>3, <2>4 DEF Holds
<1>6. CASE IsOpen(s) /\ Asked(r, h, q, g) /\ UNCHANGED <<proto, running>>
  <2>1. g.tuples = h.tuples /\ g.reset = h.reset
    BY <1>6 DEF Asked
  <2>2. AllComplete(g)
    BY <1>2, <2>1 DEF AllComplete
  <2> QED BY <1>2, <1>3, <1>6, <2>1, <2>2, AskedRuns DEF Holds
<1>7. CASE Restarted(r, h, q, g) /\ UNCHANGED <<proto, running>>
  BY <1>2, <1>7 DEF Restarted, Holds, AllComplete
<1>8. CASE q = NoReader /\ g \in {h, Fresh} /\ UNCHANGED <<proto, running>>
  BY <1>2, <1>8, FreshIs DEF Holds, AllComplete
<1> QED BY <1>4, <1>5, <1>6, <1>7, <1>8 DEF StepOf

LEMMA WholeSteps ==
  ASSUME WholeInv, Next
  PROVE  WholeInv'
<1>1. TypeInv
  BY DEF WholeInv
<1>2. PICK s \in Sources : StepOf(s)
  BY <1>1, SomeStep
<1>3. TypeInv'
  BY <1>1, <1>2, StepTypes
<1>4. OfGzip(proto') /\ Holds(readers'[s], hist'[s], running')
  BY <1>2, WholeStep
<1>5. \A t \in Sources : Holds(readers'[t], hist'[t], running')
  <2> TAKE t \in Sources
  <2>1. CASE t # s
    <3>1. readers'[t] = readers[t] /\ hist'[t] = hist[t] /\ running
      BY <1>2, <2>1 DEF StepOf
    <3> QED BY <3>1 DEF WholeInv, Holds, AllComplete, IsOpen
  <2> QED BY <1>4, <2>1
<1> QED BY <1>3, <1>4, <1>5 DEF WholeInv, Holds, AllComplete, IsOpen

LEMMA WholeKept == Spec => []WholeInv
<1>1. Init => WholeInv
  <2> SUFFICES ASSUME Init PROVE WholeInv
    OBVIOUS
  <2>1. TypeInv /\ OfGzip(proto)
    BY InitTypes, NoTupleIs DEF Init, OfGzip
  <2>2. \A s \in Sources : ~IsOpen(s) /\ hist[s].tuples = <<>>
    BY FreshIs DEF Init, IsOpen
  <2> QED BY <2>1, <2>2 DEF WholeInv
<1>2. WholeInv /\ UNCHANGED vars => WholeInv'
  BY TypesSame DEF WholeInv, IsOpen, vars
<1>3. WholeInv /\ [Next]_vars => WholeInv'
  BY <1>2, WholeSteps
<1> QED BY <1>1, <1>3, PTL DEF Spec

LEMMA WholeSays == WholeInv => TuplesAreWhole
<1> SUFFICES ASSUME WholeInv, NEW s \in Sources, NEW k \in DOMAIN hist[s].tuples,
                    Files[hist[s].tuples[k].parts[1][1]].backend = "txt", ~hist[s].reset
             PROVE  IsWhole(hist[s].tuples[k])
  BY DEF TuplesAreWhole
<1> DEFINE t == hist[s].tuples[k]
<1>1. Complete(t)
  BY DEF WholeInv
<1>2. t \in Tuples
  BY DEF WholeInv, TypeInv, Hist
<1>3. 1 \in DOMAIN t.parts
  <2>1. t.parts \in Seq(Parts) /\ Len(t.parts) >= 1
    BY <1>1, <1>2 DEF Tuples, Parts, Complete
  <2> QED BY <2>1
<1>4. ~OfGzip(t)
  BY <1>3 DEF OfGzip
<1> QED BY <1>1, <1>4 DEF Complete

\* A text reader that was not reset puts a tuple together from the lines that belong
\* to it, each once and in their order, and from no other, whatever its filters reject and however the
\* calls of this and the other readers, which share the prototype, are interleaved.
THEOREM WholeTuples == Spec => []TuplesAreWhole
  BY WholeKept, WholeSays, PTL
=============================================================================
