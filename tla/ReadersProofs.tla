---------------------------- MODULE ReadersProofs ----------------------------
(***************************************************************************)
(* Lemmas about the readers of Readers, which the proofs about those who   *)
(* use them share: what a call of next() does to a backend and to a        *)
(* composite, and which lines the tuple in progress is made of.            *)
(***************************************************************************)
EXTENDS Readers, NatRecursion, SequenceTheorems, FiniteSetTheorems, TLAPS

Lines(f) == Files[f].lines

Parts == (DOMAIN Files) \X Nat

LEMMA FileTypes ==
  ASSUME NEW f \in DOMAIN Files
  PROVE  /\ Files[f].backend \in {"txt", "gz", "dhf", "sqlite"}
         /\ Files[f].exists \in BOOLEAN /\ Files[f].ended \in BOOLEAN
         /\ Lines(f) \in Seq(Line)
         /\ Len(Lines(f)) \in Nat
         /\ DOMAIN Lines(f) = 1 .. Len(Lines(f))
         /\ Readable(f) \in Nat /\ Readable(f) <= Len(Lines(f))
<1>1. /\ Files[f].backend \in {"txt", "gz", "dhf", "sqlite"}
      /\ Files[f].exists \in BOOLEAN /\ Files[f].ended \in BOOLEAN
      /\ Lines(f) \in Seq(Line)
  BY FilesAssumption DEF Lines
<1>2. Len(Lines(f)) \in Nat /\ DOMAIN Lines(f) = 1 .. Len(Lines(f))
  BY <1>1
<1>3. Lines(f) = <<>> \/ Len(Lines(f)) >= 1
  BY <1>1, <1>2, EmptySeq
<1>4. Lines(f) = <<>> => Files[f].ended
  BY FilesAssumption DEF Lines
<1>5. Readable(f) \in {Len(Lines(f)), Len(Lines(f)) - 1}
  BY DEF Readable, Lines
<1>6. ~Files[f].ended => Len(Lines(f)) >= 1
  BY <1>3, <1>4
<1>7. Files[f].ended => Readable(f) = Len(Lines(f))
  BY DEF Readable, Lines
<1> QED BY <1>1, <1>2, <1>5, <1>6, <1>7

LEMMA LineTypes ==
  ASSUME NEW f \in DOMAIN Files, NEW i \in 1 .. Readable(f)
  PROVE  /\ Lines(f)[i].kind \in {"junk", "data", "done", "broken"}
         /\ Lines(f)[i].name \in Names
         /\ i \in DOMAIN Lines(f)
<1>1. Lines(f)[i] \in Line /\ i \in DOMAIN Lines(f)
  BY FileTypes
<1> QED BY <1>1 DEF Line

LEMMA NoTupleIs == NoTuple \in Tuples /\ NoTuple.parts = <<>> /\ NoTuple.name = NoName
  BY DEF NoTuple, Tuples

\* What addLine() makes of a line that is not junk.
LEMMA AddLineIs ==
  ASSUME NEW f \in DOMAIN Files, NEW i \in 1 .. Readable(f), NEW cur \in Tuples
  PROVE  /\ AddLine(cur, f, i) \in Tuples
         /\ Lines(f)[i].kind = "junk" => AddLine(cur, f, i) = cur
         /\ Lines(f)[i].kind # "junk" =>
              /\ AddLine(cur, f, i).name = Lines(f)[i].name
              /\ AddLine(cur, f, i).parts =
                   IF cur.name = Lines(f)[i].name THEN Append(cur.parts, <<f, i>>)
                   ELSE <<<<f, i>>>>
<1> DEFINE line == Lines(f)[i]
<1>1. line.name \in Names /\ <<f, i>> \in (DOMAIN Files) \X Nat
  BY LineTypes, FileTypes
<1>2. CASE line.kind = "junk"
  BY <1>2 DEF AddLine, Lines
<1>3. CASE line.kind # "junk" /\ cur.name = line.name
  <2>1. AddLine(cur, f, i) = [cur EXCEPT !.parts = Append(@, <<f, i>>)]
    BY <1>3 DEF AddLine, Lines
  <2>2. cur.parts \in Seq(Parts) /\ cur = [name |-> cur.name, parts |-> cur.parts]
    BY DEF Tuples, Parts
  <2>3. Append(cur.parts, <<f, i>>) \in Seq(Parts)
    BY <1>1, <2>2 DEF Parts
  <2>4. AddLine(cur, f, i) = [name |-> cur.name, parts |-> Append(cur.parts, <<f, i>>)]
    BY <2>1, <2>2
  <2> QED BY <1>1, <1>3, <2>3, <2>4 DEF Tuples, Parts
<1>4. CASE line.kind # "junk" /\ cur.name # line.name
  <2>1. AddLine(cur, f, i) = [name |-> line.name, parts |-> <<<<f, i>>>>]
    BY <1>4 DEF AddLine, Lines
  <2>2. <<<<f, i>>>> \in Seq(Parts)
    BY <1>1 DEF Parts
  <2> QED BY <1>1, <1>4, <2>1, <2>2 DEF Tuples, Parts
<1> QED BY <1>2, <1>3, <1>4

\* Carried, line by line: a complete tuple, which was rejected, is dropped.
Passed(cur, f, i) == IF Lines(f)[i].kind = "done" THEN NoTuple ELSE AddLine(cur, f, i)

Carries(after, cur, f, from, to) ==
  /\ after \in [0 .. to - from + 1 -> Tuples]
  /\ Carried(cur, f, from, to) = after[to - from + 1]
  /\ after[0] = cur
  /\ \A n \in 1 .. to - from + 1 : after[n] = Passed(after[n - 1], f, from + n - 1)

LEMMA CarriedIs ==
  ASSUME NEW f \in DOMAIN Files, NEW cur \in Tuples, NEW from \in Nat, NEW to \in Nat,
         1 <= from, from <= to + 1, to <= Readable(f)
  PROVE  \E after : Carries(after, cur, f, from, to)
<1> DEFINE N == to - from + 1
           step == [a \in (1 .. N) \X Tuples |-> Passed(a[2], f, from + a[1] - 1)]
           Body(g) == [n \in 0 .. N |-> IF n = 0 THEN cur
                         ELSE IF Files[f].lines[from + n - 1].kind = "done" THEN NoTuple
                         ELSE AddLine(g[n - 1], f, from + n - 1)]
           after == CHOOSE g : g = Body(g)
<1>1. N \in Nat /\ Readable(f) \in Nat
      /\ \A n \in 1 .. N : from + n - 1 \in 1 .. Readable(f)
  BY FileTypes
<1>2. step \in [(1 .. N) \X Tuples -> Tuples]
  BY <1>1, AddLineIs, NoTupleIs DEF Passed
<1>3. PICK g : Recurs(g, Tuples, N, cur, step)
  <2> HIDE DEF step, N
  <2> QED BY <1>1, <1>2, Recursion
<1>4. /\ g \in [0 .. N -> Tuples] /\ g[0] = cur
      /\ \A n \in 1 .. N : g[n] = step[<<n, g[n - 1]>>]
  <2> HIDE DEF step, N
  <2> QED BY <1>3 DEF Recurs
<1>5. ASSUME NEW n \in 1 .. N
      PROVE  n - 1 \in 0 .. N /\ g[n] = Passed(g[n - 1], f, from + n - 1)
  <2>1. n - 1 \in 0 .. N
    BY <1>1
  <2>2. <<n, g[n - 1]>> \in (1 .. N) \X Tuples
    BY <1>4, <2>1
  <2>3. g[n] = step[<<n, g[n - 1]>>]
    BY <1>4
  <2> HIDE DEF N
  <2> QED BY <2>1, <2>2, <2>3
<1>6. g = Body(g)
  <2>1. DOMAIN Body(g) = DOMAIN g
    BY <1>4
  <2>2. \A n \in 0 .. N : Body(g)[n] = g[n]
    BY <1>1, <1>4, <1>5 DEF Passed, Lines
  <2>3. g = [n \in DOMAIN g |-> g[n]] /\ Body(g) = [n \in 0 .. N |-> Body(g)[n]]
    BY <1>4
  <2> HIDE DEF Body
  <2> QED BY <1>4, <2>1, <2>2, <2>3
<1>7. after = Body(after)
  BY <1>6
<1>8. Carried(cur, f, from, to) = after[to - from + 1]
  BY DEF Carried
<1> HIDE DEF after, step
<1>9. DOMAIN after = 0 .. N /\ after[0] = cur
  BY <1>1, <1>7
<1>10. ASSUME NEW n \in 1 .. N
       PROVE  after[n] = Passed(after[n - 1], f, from + n - 1)
  BY <1>1, <1>7 DEF Passed, Lines
<1> DEFINE S == {n \in Nat : n <= N => after[n] \in Tuples}
<1>11. 0 \in S
  BY <1>9
<1>12. ASSUME NEW n \in Nat, n \in S PROVE n + 1 \in S
  <2> SUFFICES ASSUME n + 1 <= N PROVE after[n + 1] \in Tuples
    OBVIOUS
  <2>1. n + 1 \in 1 .. N /\ (n + 1) - 1 = n /\ after[n] \in Tuples
    BY <1>1, <1>12
  <2>2. after[n + 1] = Passed(after[n], f, from + (n + 1) - 1)
    BY <1>10, <2>1
  <2>3. from + (n + 1) - 1 \in 1 .. Readable(f)
    BY <1>1, <2>1
  <2>4. AddLine(after[n], f, from + (n + 1) - 1) \in Tuples
    BY <2>1, <2>3, AddLineIs
  <2> QED BY <2>2, <2>4, NoTupleIs DEF Passed
<1>13. \A n \in Nat : n \in S
  <2> HIDE DEF S
  <2> QED BY <1>11, <1>12, SetInduction
<1>14. \A n \in 0 .. N : after[n] \in Tuples
  BY <1>1, <1>13
<1>15. after \in [0 .. N -> Tuples]
  <2>1. after = [n \in 0 .. N |-> after[n]]
    <3>1. after = Body(after) /\ Body(after) = [n \in DOMAIN Body(after) |-> Body(after)[n]]
      BY <1>7
    <3> HIDE DEF Body
    <3> QED BY <1>9, <3>1
  <2> QED BY <1>14, <2>1
<1>16. Carries(after, cur, f, from, to)
  BY <1>8, <1>9, <1>10, <1>15 DEF Carries
<1> QED BY <1>16

\* Readables, file by file.
Opens(upTo, s) ==
  /\ upTo \in [0 .. Len(s) -> Seq(DOMAIN Files)]
  /\ Readables(s) = upTo[Len(s)]
  /\ upTo[0] = <<>>
  /\ \A n \in 1 .. Len(s) :
       upTo[n] = IF Files[s[n]].exists THEN Append(upTo[n - 1], s[n]) ELSE upTo[n - 1]

LEMMA ReadablesStep ==
  ASSUME NEW s \in Seq(DOMAIN Files)
  PROVE  \E upTo : Opens(upTo, s)
<1> DEFINE N == Len(s)
           F == DOMAIN Files
           upTo == CHOOSE g : g = [n \in 0 .. N |-> IF n = 0 THEN <<>>
             ELSE IF Files[s[n]].exists THEN Append(g[n - 1], s[n]) ELSE g[n - 1]]
           step == [a \in (1 .. N) \X Seq(F) |->
                      IF Files[s[a[1]]].exists THEN Append(a[2], s[a[1]]) ELSE a[2]]
<1>1. Readables(s) = upTo[Len(s)]
  BY DEF Readables
<1>2. s \in Seq(F) /\ N \in Nat /\ DOMAIN s = 1 .. N /\ \A i \in 1 .. N : s[i] \in F
  OBVIOUS
<1>3. /\ DOMAIN upTo = 0 .. N /\ upTo = [n \in 0 .. N |-> upTo[n]]
      /\ upTo[0] = <<>>
      /\ \A n \in 1 .. N :
           upTo[n] = IF Files[s[n]].exists THEN Append(upTo[n - 1], s[n]) ELSE upTo[n - 1]
  <2> DEFINE e == <<>>
             Body(g) == [n \in 0 .. N |-> IF n = 0 THEN e
               ELSE IF Files[s[n]].exists THEN Append(g[n - 1], s[n]) ELSE g[n - 1]]
  <2>1. step \in [(1 .. N) \X Seq(F) -> Seq(F)]
    <3>1. ASSUME NEW a \in (1 .. N) \X Seq(F)
          PROVE  (IF Files[s[a[1]]].exists THEN Append(a[2], s[a[1]]) ELSE a[2]) \in Seq(F)
      <4>1. a[2] \in Seq(F) /\ s[a[1]] \in F
        BY <1>2
      <4>2. ASSUME NEW t \in Seq(F), NEW x \in F PROVE Append(t, x) \in Seq(F)
        OBVIOUS
      <4> QED BY <4>1, <4>2
    <3> QED BY <3>1
  <2>2. PICK g \in [0 .. N -> Seq(F)] :
          g[0] = e /\ \A n \in 1 .. N : g[n] = step[<<n, g[n - 1]>>]
    <3>1. e \in Seq(F)
      OBVIOUS
    <3> HIDE DEF step, e, N
    <3>2. PICK g : Recurs(g, Seq(F), N, e, step)
      BY <1>2, <2>1, <3>1, Recursion
    <3> QED BY <3>2 DEF Recurs
  <2>3. \A n \in 1 .. N : g[n - 1] \in Seq(F)
    BY <1>2
  <2>4. \A n \in 1 .. N :
          g[n] = IF Files[s[n]].exists THEN Append(g[n - 1], s[n]) ELSE g[n - 1]
    BY <2>2, <2>3
  <2>5. DOMAIN Body(g) = DOMAIN g /\ \A n \in 0 .. N : Body(g)[n] = g[n]
    <3>1. 0 \in 0 .. N /\ \A n \in 0 .. N : n # 0 => n \in 1 .. N
      BY <1>2
    <3>2. DOMAIN g = 0 .. N /\ g[0] = e
      BY <2>2
    <3> HIDE DEF e, step, N
    <3> QED BY <2>4, <3>1, <3>2
  <2>6. g = Body(g)
    <3>1. g = [n \in DOMAIN g |-> g[n]] /\ Body(g) = [n \in 0 .. N |-> Body(g)[n]]
      OBVIOUS
    <3> HIDE DEF Body
    <3> QED BY <2>5, <3>1
  <2>7. upTo = Body(upTo)
    BY <2>6
  <2> HIDE DEF upTo
  <2>8. Body(upTo)[0] = <<>>
    BY <1>2
  <2>9. ASSUME NEW n \in 1 .. N
        PROVE  Body(upTo)[n] = IF Files[s[n]].exists THEN Append(upTo[n - 1], s[n])
                               ELSE upTo[n - 1]
    BY <1>2
  <2>10. DOMAIN Body(upTo) = 0 .. N /\ Body(upTo) = [n \in 0 .. N |-> Body(upTo)[n]]
    OBVIOUS
  <2> HIDE DEF Body
  <2> QED BY <2>7, <2>8, <2>9, <2>10
<1> HIDE DEF upTo, step
<1> DEFINE S == {n \in Nat : n <= N => upTo[n] \in Seq(F)}
<1>4. 0 \in S
  BY <1>3
<1>5. ASSUME NEW n \in Nat, n \in S PROVE n + 1 \in S
  <2> SUFFICES ASSUME n + 1 <= N PROVE upTo[n + 1] \in Seq(F)
    OBVIOUS
  <2>1. n + 1 \in 1 .. N /\ (n + 1) - 1 = n /\ upTo[n] \in Seq(F)
    BY <1>2, <1>5
  <2>2. s[n + 1] \in F
    BY <1>2, <2>1
  <2>3. \A t \in Seq(F), x \in F : Append(t, x) \in Seq(F)
    OBVIOUS
  <2> QED BY <1>3, <2>1, <2>2, <2>3
<1>6. \A n \in Nat : n \in S
  <2> HIDE DEF S
  <2> QED BY <1>4, <1>5, SetInduction
<1>7. \A n \in 0 .. N : upTo[n] \in Seq(F)
  BY <1>2, <1>6
<1>8. upTo \in [0 .. N -> Seq(F)]
  BY <1>3, <1>7
<1> QED BY <1>1, <1>3, <1>8 DEF Opens

\* What opens of a source: its files that exist, and each once if it names each once.
LEMMA ReadablesIs ==
  ASSUME NEW s \in Seq(DOMAIN Files)
  PROVE  /\ Readables(s) \in Seq(DOMAIN Files)
         /\ Len(Readables(s)) <= Len(s)
         /\ \A k \in DOMAIN Readables(s) : Files[Readables(s)[k]].exists
         /\ (\A i, j \in DOMAIN s : s[i] = s[j] => i = j)
              => \A k, l \in DOMAIN Readables(s) : Readables(s)[k] = Readables(s)[l] => k = l
<1> DEFINE N == Len(s)
           F == DOMAIN Files
           once == \A i, j \in DOMAIN s : s[i] = s[j] => i = j
           Good(t, n) ==
             /\ t \in Seq(F) /\ Len(t) <= n
             /\ \A k \in DOMAIN t : Files[t[k]].exists /\ \E i \in 1 .. n : s[i] = t[k]
             /\ once => \A k, l \in DOMAIN t : t[k] = t[l] => k = l
<1>0. PICK upTo : Opens(upTo, s)
  BY ReadablesStep
<1>1. Readables(s) = upTo[Len(s)]
  BY <1>0 DEF Opens
<1>2. N \in Nat /\ DOMAIN s = 1 .. N /\ \A i \in 1 .. N : s[i] \in F
  OBVIOUS
<1>3. /\ upTo[0] = <<>>
      /\ \A n \in 1 .. N :
           upTo[n] = IF Files[s[n]].exists THEN Append(upTo[n - 1], s[n]) ELSE upTo[n - 1]
  BY <1>0 DEF Opens
<1> DEFINE S == {n \in Nat : n <= N => Good(upTo[n], n)}
<1>4. 0 \in S
  <2>1. upTo[0] = <<>>
    BY <1>3
  <2>2. Good(<<>>, 0)
    OBVIOUS
  <2> HIDE DEF Good
  <2> QED BY <2>1, <2>2
<1>5. ASSUME NEW n \in Nat, n \in S PROVE n + 1 \in S
  <2> SUFFICES ASSUME n + 1 <= N PROVE Good(upTo[n + 1], n + 1)
    OBVIOUS
  <2>1. Good(upTo[n], n)
    <3>1. n <= N
      BY <1>2
    <3> HIDE DEF Good
    <3> QED BY <1>5, <3>1
  <2>2. n + 1 \in 1 .. N /\ (n + 1) - 1 = n
    BY <1>2
  <2>3. upTo[n + 1] = IF Files[s[n + 1]].exists THEN Append(upTo[n], s[n + 1]) ELSE upTo[n]
    BY <1>2, <1>3, <2>2
  <2>4. CASE ~Files[s[n + 1]].exists
    <3>1. Len(upTo[n]) \in Nat
      BY <2>1
    <3> QED BY <2>1, <2>3, <2>4, <3>1
  <2>5. CASE Files[s[n + 1]].exists
    <3> DEFINE t == upTo[n]
               u == Append(t, s[n + 1])
    <3> HIDE DEF t
    <3>1. t \in Seq(F) /\ s[n + 1] \in F /\ upTo[n + 1] = u /\ Len(t) <= n
      BY <1>2, <2>1, <2>2, <2>3, <2>5 DEF t
    <3>2. /\ u \in Seq(F) /\ Len(u) = Len(t) + 1 /\ Len(t) \in Nat
          /\ DOMAIN u = 1 .. Len(t) + 1 /\ DOMAIN t = 1 .. Len(t)
          /\ u[Len(t) + 1] = s[n + 1] /\ \A k \in 1 .. Len(t) : u[k] = t[k]
      BY <3>1
    <3> HIDE DEF u
    <3>3. \A k \in 1 .. Len(t) : Files[t[k]].exists /\ \E i \in 1 .. n : s[i] = t[k]
      BY <2>1, <3>2 DEF t
    <3>4. once => \A k, l \in 1 .. Len(t) : t[k] = t[l] => k = l
      BY <2>1, <3>2 DEF t
    <3>5. once => \A k \in 1 .. Len(t) : t[k] # s[n + 1]
      BY <1>2, <2>2, <3>3
    <3>6. \A k \in DOMAIN u : Files[u[k]].exists /\ \E i \in 1 .. n + 1 : s[i] = u[k]
      BY <2>2, <2>5, <3>2, <3>3
    <3>7. once => \A k, l \in DOMAIN u : u[k] = u[l] => k = l
      BY <3>2, <3>4, <3>5
    <3> QED BY <3>1, <3>2, <3>6, <3>7
  <2> QED BY <2>4, <2>5
<1>6. \A n \in Nat : n \in S
  <2> HIDE DEF S
  <2> QED BY <1>4, <1>5, SetInduction
<1> QED BY <1>1, <1>2, <1>6

-----------------------------------------------------------------------------
(***************************************************************************)
(* next() of a backend.                                                    *)
(***************************************************************************)
\* A line at which the call ends.
IsStop(sink, i) ==
  \/ Lines(sink.file)[i].kind = "broken"
  \/ Lines(sink.file)[i].kind = "done" /\ Accepts(sink.filter, sink.file, Lines(sink.file)[i].name)

LEMMA StopsAtIs ==
  ASSUME NEW sink \in Sinks, sink.pos <= Readable(sink.file)
  PROVE  /\ StopsAt(sink) = {i \in sink.pos + 1 .. Readable(sink.file) : IsStop(sink, i)}
         /\ StopsAt(sink) # {} =>
              /\ Min(StopsAt(sink)) \in StopsAt(sink)
              /\ \A i \in StopsAt(sink) : Min(StopsAt(sink)) <= i
<1>1. StopsAt(sink) = {i \in sink.pos + 1 .. Readable(sink.file) : IsStop(sink, i)}
  BY DEF StopsAt, IsStop, Lines
<1>2. sink.file \in DOMAIN Files /\ sink.pos \in Nat
  BY DEF Sinks
<1>3. Readable(sink.file) \in Nat
  BY <1>2, FileTypes
<1>4. StopsAt(sink) \in SUBSET Nat
  BY <1>1, <1>2, <1>3
<1>5. ASSUME StopsAt(sink) # {}
      PROVE  \E n \in StopsAt(sink) : \A m \in StopsAt(sink) : n <= m
  BY <1>4, <1>5, LeastNatural
<1> QED BY <1>1, <1>5 DEF Min

\* The tuple that the call goes on with.
Begun(sink, pr) == IF Files[sink.file].backend = "gz" THEN pr ELSE sink.cur

LEMMA SinkTypes ==
  ASSUME NEW sink \in Sinks, NEW pr \in Tuples
  PROVE  /\ sink.file \in DOMAIN Files /\ sink.pos \in Nat /\ sink.cur \in Tuples
         /\ sink.filter \in Names \cup {NoFilter} /\ Begun(sink, pr) \in Tuples
         /\ sink = [file |-> sink.file, pos |-> sink.pos, cur |-> sink.cur,
                    filter |-> sink.filter]
         /\ Readable(sink.file) \in Nat
<1>1. /\ sink.file \in DOMAIN Files /\ sink.pos \in Nat /\ sink.cur \in Tuples
      /\ sink.filter \in Names \cup {NoFilter}
      /\ sink = [file |-> sink.file, pos |-> sink.pos, cur |-> sink.cur,
                 filter |-> sink.filter]
  BY DEF Sinks
<1> QED BY <1>1, FileTypes DEF Begun

LEMMA CarriedTypes ==
  ASSUME NEW f \in DOMAIN Files, NEW cur \in Tuples, NEW from \in Nat, NEW to \in Nat,
         1 <= from, from <= to + 1, to <= Readable(f)
  PROVE  Carried(cur, f, from, to) \in Tuples
<1>1. PICK after : Carries(after, cur, f, from, to)
  BY CarriedIs
<1> QED BY <1>1 DEF Carries

Changed(sink, pos, cur) == [sink EXCEPT !.pos = pos, !.cur = cur]

LEMMA SinkChanged ==
  ASSUME NEW sink \in Sinks, NEW pos \in Nat, NEW cur \in Tuples
  PROVE  /\ Changed(sink, pos, cur) \in Sinks
         /\ Changed(sink, pos, cur).file = sink.file
         /\ Changed(sink, pos, cur).filter = sink.filter
         /\ Changed(sink, pos, cur).pos = pos
         /\ Changed(sink, pos, cur).cur = cur
  BY DEF Sinks, Changed

IsGz(sink) == Files[sink.file].backend = "gz"

\* The tuple in hand behind the last line, and before the line at which the call ends.
AtEnd(sink, pr) == Carried(Begun(sink, pr), sink.file, sink.pos + 1, Readable(sink.file))

FirstStop(sink) == Min(StopsAt(sink))

AtStop(sink, pr) == Carried(Begun(sink, pr), sink.file, sink.pos + 1, FirstStop(sink) - 1)

\* Without a stop the call reads to the end and keeps the tuple it has then.
LEMMA SinkEnds ==
  ASSUME NEW sink \in Sinks, NEW pr \in Tuples, sink.pos <= Readable(sink.file),
         StopsAt(sink) = {}, NEW res, res = SinkNext(sink, pr)
  PROVE  /\ AtEnd(sink, pr) \in Tuples
         /\ res.sink \in Sinks /\ res.sink.file = sink.file /\ res.sink.filter = sink.filter
         /\ res.sink.pos = Readable(sink.file)
         /\ res.sink.cur = IF IsGz(sink) THEN sink.cur ELSE AtEnd(sink, pr)
         /\ res.proto = IF IsGz(sink) THEN AtEnd(sink, pr) ELSE pr
         /\ res.kind = "terminate" /\ res.tuple = NoTuple
<1> DEFINE c == AtEnd(sink, pr)
           cur == IF IsGz(sink) THEN sink.cur ELSE c
           new == Changed(sink, Readable(sink.file), cur)
<1>1. c \in Tuples
  <2>1. /\ sink.pos + 1 \in Nat /\ 1 <= sink.pos + 1
        /\ sink.pos + 1 <= Readable(sink.file) + 1 /\ Readable(sink.file) <= Readable(sink.file)
    BY SinkTypes
  <2> QED BY <2>1, SinkTypes, CarriedTypes DEF AtEnd
<1>2. res = [sink |-> new, proto |-> IF IsGz(sink) THEN c ELSE pr,
             kind |-> "terminate", tuple |-> NoTuple]
  BY DEF SinkNext, Begun, AtEnd, IsGz, Changed
<1>3. cur \in Tuples /\ Readable(sink.file) \in Nat
  BY <1>1, SinkTypes
<1> HIDE DEF c, cur
<1>5. /\ res.sink = new /\ res.proto = IF IsGz(sink) THEN c ELSE pr
      /\ res.kind = "terminate" /\ res.tuple = NoTuple
  BY <1>2
<1>6. /\ new \in Sinks /\ new.file = sink.file /\ new.pos = Readable(sink.file)
      /\ new.cur = cur /\ new.filter = sink.filter
  BY <1>3, SinkChanged
<1> QED BY <1>1, <1>5, <1>6 DEF c, cur

\* With one it reads to the first.
LEMMA SinkStops ==
  ASSUME NEW sink \in Sinks, NEW pr \in Tuples, sink.pos <= Readable(sink.file),
         StopsAt(sink) # {}, NEW res, res = SinkNext(sink, pr)
  PROVE  LET at     == FirstStop(sink)
             broken == Lines(sink.file)[at].kind = "broken"
         IN  /\ at \in StopsAt(sink) /\ at \in Nat /\ sink.pos < at /\ at <= Readable(sink.file)
             /\ AtStop(sink, pr) \in Tuples
             /\ res.sink \in Sinks /\ res.sink.file = sink.file /\ res.sink.filter = sink.filter
             /\ res.sink.pos = at
             /\ res.sink.cur = IF IsGz(sink) THEN sink.cur ELSE NoTuple
             /\ res.proto = IF IsGz(sink) THEN NoTuple ELSE pr
             /\ res.kind = IF broken THEN "exit" ELSE "tuple"
             /\ res.tuple = IF broken THEN NoTuple ELSE AddLine(AtStop(sink, pr), sink.file, at)
<1> DEFINE at == FirstStop(sink)
           c  == AtStop(sink, pr)
           broken == Lines(sink.file)[at].kind = "broken"
           kind == IF broken THEN "exit" ELSE "tuple"
           cur == IF IsGz(sink) THEN sink.cur ELSE NoTuple
           new == Changed(sink, at, cur)
<1>1. at \in StopsAt(sink) /\ at \in sink.pos + 1 .. Readable(sink.file)
  BY StopsAtIs DEF FirstStop
<1>2. res = [sink |-> new, proto |-> IF IsGz(sink) THEN NoTuple ELSE pr,
             kind |-> kind,
             tuple |-> IF kind = "tuple" THEN AddLine(c, sink.file, at) ELSE NoTuple]
  BY DEF SinkNext, Begun, Lines, AtStop, IsGz, FirstStop, Changed
<1>3. c \in Tuples
  <2> HIDE DEF at
  <2>1. at - 1 \in Nat /\ sink.pos + 1 \in Nat /\ 1 <= sink.pos + 1
        /\ sink.pos + 1 <= (at - 1) + 1 /\ at - 1 <= Readable(sink.file)
    <3>1. sink.pos \in Nat /\ Readable(sink.file) \in Nat
      BY SinkTypes
    <3> QED BY <1>1, <3>1
  <2> QED BY <2>1, SinkTypes, CarriedTypes DEF AtStop, at
<1> HIDE DEF c, at
<1>4. at \in Nat /\ sink.pos < at /\ at <= Readable(sink.file)
  BY <1>1, SinkTypes
<1>5. cur \in Tuples
  BY SinkTypes, NoTupleIs
<1> HIDE DEF cur
<1>7. /\ res.sink = new /\ res.proto = IF IsGz(sink) THEN NoTuple ELSE pr
      /\ res.kind = IF broken THEN "exit" ELSE "tuple"
      /\ res.tuple = IF broken THEN NoTuple ELSE AddLine(c, sink.file, at)
  BY <1>2
<1>8. /\ new \in Sinks /\ new.file = sink.file /\ new.pos = at
      /\ new.cur = cur /\ new.filter = sink.filter
  BY <1>4, <1>5, SinkChanged
<1> QED BY <1>1, <1>3, <1>4, <1>7, <1>8 DEF c, at, cur

\* What a call of next() of a backend does, as far as positions go.
Advances(sink, res) ==
  /\ res.sink \in Sinks /\ res.sink.file = sink.file /\ res.sink.filter = sink.filter
  /\ sink.pos <= res.sink.pos /\ res.sink.pos <= Readable(sink.file)
  /\ res.proto \in Tuples /\ res.tuple \in Tuples
  /\ res.kind \in {"terminate", "tuple", "exit"}
  /\ res.kind = "terminate" => res.sink.pos = Readable(sink.file)
  /\ res.kind = "tuple" =>
       /\ sink.pos < res.sink.pos
       /\ Len(res.tuple.parts) >= 1
       /\ res.tuple.parts[Len(res.tuple.parts)] = <<sink.file, res.sink.pos>>
  /\ res.kind # "exit" =>
       \A l \in sink.pos + 1 .. res.sink.pos :
         IsStop(sink, l) => res.kind = "tuple" /\ l = res.sink.pos

LEMMA LastAdded ==
  ASSUME NEW f \in DOMAIN Files, NEW i \in 1 .. Readable(f), NEW cur \in Tuples,
         Lines(f)[i].kind # "junk"
  PROVE  LET parts == AddLine(cur, f, i).parts
         IN  Len(parts) >= 1 /\ parts[Len(parts)] = <<f, i>>
<1>1. cur.parts \in Seq(Parts)
  BY DEF Tuples, Parts
<1>2. CASE cur.name = Lines(f)[i].name
  <2>1. AddLine(cur, f, i).parts = Append(cur.parts, <<f, i>>)
    BY <1>2, AddLineIs
  <2>2. LET parts == Append(cur.parts, <<f, i>>)
        IN  Len(parts) = Len(cur.parts) + 1 /\ parts[Len(cur.parts) + 1] = <<f, i>>
            /\ Len(cur.parts) \in Nat
    BY <1>1
  <2> QED BY <2>1, <2>2
<1>3. CASE cur.name # Lines(f)[i].name
  <2>1. AddLine(cur, f, i).parts = <<<<f, i>>>>
    BY <1>3, AddLineIs
  <2>2. Len(<<<<f, i>>>>) = 1 /\ <<<<f, i>>>>[1] = <<f, i>>
    OBVIOUS
  <2> QED BY <2>1, <2>2
<1> QED BY <1>2, <1>3

LEMMA SinkNextIs ==
  ASSUME NEW sink \in Sinks, NEW pr \in Tuples, sink.pos <= Readable(sink.file),
         NEW res, res = SinkNext(sink, pr)
  PROVE  Advances(sink, res)
<1> DEFINE f == sink.file
           gz == Files[f].backend = "gz"
<1>1. f \in DOMAIN Files /\ sink.pos \in Nat /\ Readable(f) \in Nat /\ sink.cur \in Tuples
  BY SinkTypes
<1>2. StopsAt(sink) = {i \in sink.pos + 1 .. Readable(f) : IsStop(sink, i)}
  BY StopsAtIs
<1>3. CASE StopsAt(sink) = {}
  <2> DEFINE c == AtEnd(sink, pr)
  <2>1. /\ c \in Tuples
        /\ res.sink \in Sinks /\ res.sink.file = f /\ res.sink.filter = sink.filter
        /\ res.sink.pos = Readable(f)
        /\ res.proto = IF IsGz(sink) THEN c ELSE pr
        /\ res.kind = "terminate" /\ res.tuple = NoTuple
    BY <1>3, SinkEnds
  <2>2. \A l \in sink.pos + 1 .. res.sink.pos : ~IsStop(sink, l)
    BY <1>2, <1>3, <2>1
  <2> HIDE DEF c
  <2> QED BY <1>1, <2>1, <2>2, NoTupleIs DEF Advances
<1>4. CASE StopsAt(sink) # {}
  <2> DEFINE at == FirstStop(sink)
             c == AtStop(sink, pr)
             broken == Lines(f)[at].kind = "broken"
  <2>1. /\ at \in StopsAt(sink) /\ at \in Nat /\ sink.pos < at /\ at <= Readable(f)
        /\ c \in Tuples
        /\ res.sink \in Sinks /\ res.sink.file = f /\ res.sink.filter = sink.filter
        /\ res.sink.pos = at
        /\ res.proto = IF IsGz(sink) THEN NoTuple ELSE pr
        /\ res.kind = IF broken THEN "exit" ELSE "tuple"
        /\ res.tuple = IF broken THEN NoTuple ELSE AddLine(c, f, at)
    BY <1>4, SinkStops
  <2>2. \A i \in StopsAt(sink) : at <= i
    BY <1>4, StopsAtIs DEF FirstStop
  <2> HIDE DEF at, c
  <2>3. at \in 1 .. Readable(f) /\ IsStop(sink, at) /\ sink.pos <= at
    BY <1>1, <1>2, <2>1
  <2>4. ASSUME NEW l \in sink.pos + 1 .. at, IsStop(sink, l) PROVE l = at
    <3>1. l \in StopsAt(sink)
      BY <1>1, <1>2, <2>1, <2>4
    <3> QED BY <1>1, <2>1, <2>2, <2>4, <3>1
  <2>5. AddLine(c, f, at) \in Tuples
    BY <1>1, <2>1, <2>3, AddLineIs
  <2>6. ~broken => Lines(f)[at].kind = "done"
    BY <2>3 DEF IsStop
  <2>7. ~broken => LET parts == AddLine(c, f, at).parts
                   IN  Len(parts) >= 1 /\ parts[Len(parts)] = <<f, at>>
    BY <1>1, <2>1, <2>3, <2>6, LastAdded
  <2> HIDE DEF broken
  <2>8. res.proto \in Tuples /\ res.tuple \in Tuples
    BY <2>1, <2>5, NoTupleIs
  <2>9. CASE broken
    BY <2>1, <2>3, <2>8, <2>9 DEF Advances
  <2>10. CASE ~broken
    BY <2>1, <2>3, <2>4, <2>7, <2>8, <2>10 DEF Advances
  <2> QED BY <2>9, <2>10
<1> QED BY <1>3, <1>4

-----------------------------------------------------------------------------
(***************************************************************************)
(* Numbers in ascending order.                                             *)
(***************************************************************************)
LEMMA AsSeq ==
  ASSUME NEW T, NEW n \in Nat, NEW f \in [1 .. n -> T]
  PROVE  f \in Seq(T) /\ Len(f) = n
<1>1. f = [i \in 1 .. n |-> f[i]] /\ \A i \in 1 .. n : f[i] \in T
  OBVIOUS
<1> QED BY <1>1, SMTT(30)

\* What Append makes of a function that is a sequence.
LEMMA LastIsNew ==
  ASSUME NEW n \in Nat, NEW p, DOMAIN p = 1 .. n, p = [k \in 1 .. n |-> p[k]], NEW x
  PROVE  Append(p, x) = [k \in 1 .. n + 1 |-> IF k = n + 1 THEN x ELSE p[k]]
<1> DEFINE T == {p[k] : k \in 1 .. n} \cup {x}
<1>1. p \in Seq(T) /\ Len(p) = n
  <2>1. p \in [1 .. n -> T]
    OBVIOUS
  <2> HIDE DEF T
  <2> QED BY <2>1, AsSeq
<1>2. x \in T
  OBVIOUS
<1> HIDE DEF T
<1>3. /\ Append(p, x) \in Seq(T) /\ Len(Append(p, x)) = n + 1
      /\ \A k \in 1 .. n + 1 : Append(p, x)[k] = IF k <= n THEN p[k] ELSE x
  BY <1>1, <1>2, AppendProperties
<1>4. DOMAIN Append(p, x) = 1 .. n + 1 /\ Append(p, x) = [k \in 1 .. n + 1 |-> Append(p, x)[k]]
  BY <1>3
<1>5. \A k \in 1 .. n + 1 : Append(p, x)[k] = IF k = n + 1 THEN x ELSE p[k]
  BY <1>3
<1> QED BY <1>4, <1>5

\* A number that is greater than all comes last.
LEMMA AscendingMore ==
  ASSUME NEW S \in SUBSET Nat, IsFiniteSet(S), NEW l \in Nat, \A i \in S : i < l
  PROVE  /\ Cardinality(S) \in Nat /\ IsFiniteSet(S \cup {l})
         /\ Cardinality(S \cup {l}) = Cardinality(S) + 1
         /\ \A k \in 1 .. Cardinality(S) : Ascending(S \cup {l})[k] = Ascending(S)[k]
         /\ Ascending(S \cup {l})[Cardinality(S) + 1] = l
<1> DEFINE c == Cardinality(S)
           T == S \cup {l}
           Below(U, i) == {j \in U : j <= i}
<1>1. c \in Nat /\ IsFiniteSet(T) /\ Cardinality(T) = c + 1
  <2>1. l \notin S
    OBVIOUS
  <2> QED BY <2>1, FS_CardinalityType, FS_AddElement
<1>2. \A i \in S : Below(T, i) = Below(S, i)
  OBVIOUS
<1>3. \A i \in S : Cardinality(Below(S, i)) \in Nat /\ Cardinality(Below(S, i)) <= c
  <2> TAKE i \in S
  <2>1. Below(S, i) \in SUBSET S
    OBVIOUS
  <2> HIDE DEF Below
  <2>2. IsFiniteSet(Below(S, i)) /\ Cardinality(Below(S, i)) <= c
    BY <2>1, FS_Subset
  <2> QED BY <2>2, FS_CardinalityType
<1>4. Below(T, l) = T
  <2>1. \A i \in T : i <= l
    OBVIOUS
  <2> QED BY <2>1
<1>5. \A U, k : Ranked(U, k) = {i \in U : Cardinality(Below(U, i)) = k}
  BY DEF Ranked
<1> HIDE DEF Below
<1>6. \A k \in 1 .. c : Ranked(T, k) = Ranked(S, k)
  <2> TAKE k \in 1 .. c
  <2>1. c + 1 # k
    BY <1>1
  <2>2. Cardinality(Below(T, l)) # k
    BY <1>1, <1>4, <2>1
  <2> QED BY <1>2, <1>5, <2>2
<1>7. Ranked(T, c + 1) = {l}
  <2>1. \A i \in S : Cardinality(Below(T, i)) # c + 1
    BY <1>1, <1>2, <1>3
  <2> QED BY <1>1, <1>4, <1>5, <2>1
<1>8. \A U : \A k \in 1 .. Cardinality(U) : Ascending(U)[k] = CHOOSE i \in Ranked(U, k) : TRUE
  BY DEF Ascending
<1> HIDE DEF T, c
<1>9. \A k \in 1 .. c : k \in 1 .. c + 1
  BY <1>1
<1>10. \A k \in 1 .. c : Ascending(T)[k] = Ascending(S)[k]
  <2> TAKE k \in 1 .. c
  <2>1. Ascending(T)[k] = CHOOSE i \in Ranked(T, k) : TRUE
    BY <1>1, <1>8, <1>9
  <2>2. Ascending(S)[k] = CHOOSE i \in Ranked(S, k) : TRUE
    BY <1>8 DEF c
  <2> QED BY <1>6, <2>1, <2>2
<1>11. Ascending(T)[c + 1] = l
  <2>1. c + 1 \in 1 .. c + 1
    BY <1>1
  <2>2. Ascending(T)[c + 1] = CHOOSE i \in Ranked(T, c + 1) : TRUE
    BY <1>1, <1>8, <2>1
  <2> QED BY <1>7, <2>2
<1> QED BY <1>1, <1>10, <1>11 DEF T, c

LEMMA PartsNone == ASSUME NEW f PROVE PartsOf(f, {}) = <<>>
<1>1. Cardinality({}) = 0
  BY FS_EmptySet
<1>2. 1 .. 0 = {}
  OBVIOUS
<1> QED BY <1>1, <1>2 DEF PartsOf

LEMMA PartsMore ==
  ASSUME NEW f, NEW S \in SUBSET Nat, IsFiniteSet(S), NEW l \in Nat, \A i \in S : i < l
  PROVE  PartsOf(f, S \cup {l}) = Append(PartsOf(f, S), <<f, l>>)
<1> DEFINE c == Cardinality(S)
           T == S \cup {l}
           P == PartsOf(f, S)
<1>1. /\ c \in Nat /\ Cardinality(T) = c + 1
      /\ \A k \in 1 .. c : Ascending(T)[k] = Ascending(S)[k]
      /\ Ascending(T)[c + 1] = l
  BY AscendingMore
<1>2. P = [k \in 1 .. c |-> <<f, Ascending(S)[k]>>]
  BY DEF PartsOf
<1>3. PartsOf(f, T) = [k \in 1 .. c + 1 |-> <<f, Ascending(T)[k]>>]
  BY <1>1 DEF PartsOf
<1> HIDE DEF c, T, P
<1>4. Len(P) = c
  BY <1>1, <1>2
<1>5. Append(P, <<f, l>>) = [k \in 1 .. c + 1 |-> IF k = c + 1 THEN <<f, l>> ELSE P[k]]
  BY <1>1, <1>2, <1>4, LastIsNew
<1>6. \A k \in 1 .. c + 1 :
        <<f, Ascending(T)[k]>> = IF k = c + 1 THEN <<f, l>> ELSE P[k]
  BY <1>1, <1>2
<1> QED BY <1>3, <1>5, <1>6 DEF T, P

LEMMA PartsOne ==
  ASSUME NEW f, NEW l \in Nat
  PROVE  PartsOf(f, {l}) = <<<<f, l>>>>
<1>1. {} \in SUBSET Nat /\ IsFiniteSet({}) /\ {} \cup {l} = {l}
  BY FS_EmptySet
<1>2. PartsOf(f, {} \cup {l}) = Append(PartsOf(f, {}), <<f, l>>)
  BY <1>1, PartsMore
<1>3. \A x : Append(<<>>, x) = <<x>>
  OBVIOUS
<1> QED BY <1>1, <1>2, <1>3, PartsNone

-----------------------------------------------------------------------------
(***************************************************************************)
(* Which lines a tuple is made of.                                         *)
(***************************************************************************)
\* The lines that the current tuple has behind line l.
OpenLines(f, l) ==
  {i \in 1 .. l :
     /\ Lines(f)[i].kind # "junk"
     /\ \A j \in i .. l : /\ Lines(f)[j].kind # "done"
                          /\ Lines(f)[j].kind # "junk" => Lines(f)[j].name = Lines(f)[i].name}

\* The current tuple is what the lines up to l make of it.
IsRun(cur, f, l) ==
  /\ cur.parts = PartsOf(f, OpenLines(f, l))
  /\ OpenLines(f, l) = {} => cur.name = NoName
  /\ \A i \in OpenLines(f, l) : Lines(f)[i].name = cur.name

\* What a line of a tuple is put to: the open lines of its name, and itself.
OfName(f, l) ==
  {i \in OpenLines(f, l - 1) : Lines(f)[i].name = Lines(f)[l].name} \cup {l}

LEMMA OpenLinesIs ==
  ASSUME NEW f \in DOMAIN Files, NEW l \in 1 .. Readable(f)
  PROVE  /\ Lines(f)[l].kind = "done" => OpenLines(f, l) = {}
         /\ Lines(f)[l].kind = "junk" => OpenLines(f, l) = OpenLines(f, l - 1)
         /\ Lines(f)[l].kind \notin {"done", "junk"} => OpenLines(f, l) = OfName(f, l)
<1>1. l \in Nat /\ l >= 1
  BY FileTypes
<1> DEFINE K(i) == Lines(f)[i].kind
           M(i) == Lines(f)[i].name
           In(i, m) == /\ K(i) # "junk"
                       /\ \A j \in i .. m : K(j) # "done" /\ (K(j) # "junk" => M(j) = M(i))
<1>2. \A m : OpenLines(f, m) = {i \in 1 .. m : In(i, m)}
  BY DEF OpenLines
<1>3. \A i \in 1 .. l - 1 : \A j \in i .. l : j \in i .. l - 1 \/ j = l
  BY <1>1
<1>4. \A i \in 1 .. l : i \in 1 .. l - 1 \/ i = l
  BY <1>1
<1>5. \A i \in 1 .. l - 1 : i \in 1 .. l /\ l \in i .. l /\ (\A j \in i .. l - 1 : j \in i .. l)
  BY <1>1
<1>6. l \in 1 .. l /\ l \notin 1 .. l - 1 /\ \A j \in l .. l : j = l
  BY <1>1
<1> HIDE DEF K, M
<1>7. \A i \in 1 .. l - 1 :
        In(i, l) <=> (In(i, l - 1) /\ K(l) # "done" /\ (K(l) # "junk" => M(l) = M(i)))
  BY <1>3, <1>5
<1>8. In(l, l) <=> K(l) \notin {"junk", "done"}
  BY <1>6
<1> HIDE DEF In
<1>9. CASE K(l) = "done"
  BY <1>2, <1>4, <1>7, <1>8, <1>9 DEF K
<1>10. CASE K(l) = "junk"
  <2>1. \A i : (i \in 1 .. l /\ In(i, l)) <=> (i \in 1 .. l - 1 /\ In(i, l - 1))
    BY <1>4, <1>5, <1>7, <1>8, <1>10
  <2>2. OpenLines(f, l) = OpenLines(f, l - 1)
    BY <1>2, <2>1
  <2> QED BY <1>10, <2>2 DEF K
<1>11. CASE K(l) \notin {"done", "junk"}
  <2>1. \A i : (i \in 1 .. l /\ In(i, l)) <=>
               ((i \in 1 .. l - 1 /\ In(i, l - 1) /\ M(i) = M(l)) \/ i = l)
    BY <1>4, <1>5, <1>6, <1>7, <1>8, <1>11
  <2>2. OpenLines(f, l) = {i \in OpenLines(f, l - 1) : M(i) = M(l)} \cup {l}
    BY <1>2, <2>1
  <2> QED BY <1>11, <2>2 DEF K, M, OfName
<1> QED BY <1>9, <1>10, <1>11

LEMMA RunIs ==
  ASSUME NEW f \in DOMAIN Files, NEW l \in 1 .. Readable(f), Lines(f)[l].kind = "done"
  PROVE  Run(f, l) = OfName(f, l)
<1>1. l \in Nat /\ l >= 1
  BY FileTypes
<1> DEFINE K(i) == Lines(f)[i].kind
           M(i) == Lines(f)[i].name
           In(i, m) == /\ K(i) # "junk"
                       /\ \A j \in i .. m : K(j) # "done" /\ (K(j) # "junk" => M(j) = M(i))
           R(i) == /\ K(i) # "junk"
                   /\ \A j \in i .. l : /\ K(j) # "junk" => M(j) = M(l)
                                        /\ j < l => K(j) # "done"
<1>2. OpenLines(f, l - 1) = {i \in 1 .. l - 1 : In(i, l - 1)}
  BY DEF OpenLines
<1>3. Run(f, l) = {i \in 1 .. l : R(i)}
  BY DEF Run, Lines
<1>4. \A i \in 1 .. l : i \in 1 .. l - 1 \/ i = l
  BY <1>1
<1>5. \A i \in 1 .. l - 1 : /\ i \in 1 .. l /\ i \in i .. l - 1
                            /\ \A j \in i .. l - 1 : j \in i .. l /\ j < l
                            /\ \A j \in i .. l : j \in i .. l - 1 \/ j = l
  BY <1>1
<1>6. l \in 1 .. l /\ ~(l < l) /\ \A j \in l .. l : j = l
  BY <1>1
<1>7. K(l) = "done"
  OBVIOUS
<1> HIDE DEF K, M
<1>8. R(l)
  BY <1>6, <1>7
<1>9. ASSUME NEW i \in 1 .. l - 1 PROVE R(i) <=> (In(i, l - 1) /\ M(i) = M(l))
  <2>1. ASSUME R(i) PROVE In(i, l - 1) /\ M(i) = M(l)
    BY <1>5, <2>1
  <2>2. ASSUME In(i, l - 1), M(i) = M(l) PROVE R(i)
    BY <1>5, <1>6, <1>7, <2>2
  <2> QED BY <2>1, <2>2
<1> HIDE DEF In, R
<1>10. \A i : (i \in 1 .. l /\ R(i)) <=>
              ((i \in 1 .. l - 1 /\ In(i, l - 1) /\ M(i) = M(l)) \/ i = l)
  BY <1>4, <1>5, <1>6, <1>8, <1>9
<1>11. Run(f, l) = {i \in OpenLines(f, l - 1) : M(i) = M(l)} \cup {l}
  BY <1>2, <1>3, <1>10
<1> QED BY <1>11 DEF M, OfName

\* The lines of a name that a tuple has: all that are open, or none.
LEMMA SameName ==
  ASSUME NEW f \in DOMAIN Files, NEW l \in 1 .. Readable(f), NEW cur \in Tuples,
         IsRun(cur, f, l - 1), Lines(f)[l].kind # "junk"
  PROVE  AddLine(cur, f, l).parts = PartsOf(f, OfName(f, l))
<1> DEFINE O == OpenLines(f, l - 1)
           S == {i \in O : Lines(f)[i].name = Lines(f)[l].name}
<1>1. l \in Nat /\ l \in 1 .. l /\ l >= 1
  BY FileTypes
<1>2. /\ O \in SUBSET Nat /\ IsFiniteSet(O) /\ \A i \in O : i < l
      /\ cur.parts = PartsOf(f, O)
  <2>1. O \subseteq 1 .. l - 1
    BY DEF OpenLines
  <2>2. IsFiniteSet(1 .. l - 1)
    BY <1>1, FS_Interval
  <2>3. \A i \in 1 .. l - 1 : i \in Nat /\ i < l
    BY <1>1
  <2> HIDE DEF O
  <2>4. IsFiniteSet(O) /\ O \in SUBSET Nat /\ \A i \in O : i < l
    BY <2>1, <2>2, <2>3, FS_Subset
  <2> QED BY <2>4 DEF IsRun, O
<1>3. \A i \in O : Lines(f)[i].name = cur.name
  BY DEF IsRun
<1> HIDE DEF O
<1>4. CASE cur.name = Lines(f)[l].name
  <2>1. S = O
    BY <1>3, <1>4
  <2>2. AddLine(cur, f, l).parts = Append(cur.parts, <<f, l>>)
    BY <1>4, AddLineIs
  <2>3. PartsOf(f, O \cup {l}) = Append(PartsOf(f, O), <<f, l>>)
    BY <1>1, <1>2, PartsMore
  <2> QED BY <1>2, <2>1, <2>2, <2>3 DEF O, OfName
<1>5. CASE cur.name # Lines(f)[l].name
  <2>1. S \cup {l} = {l}
    BY <1>3, <1>5
  <2>2. AddLine(cur, f, l).parts = <<<<f, l>>>>
    BY <1>5, AddLineIs
  <2>3. PartsOf(f, {l}) = <<<<f, l>>>>
    BY <1>1, PartsOne
  <2> QED BY <2>1, <2>2, <2>3 DEF O, OfName
<1> QED BY <1>4, <1>5

LEMMA PassedRun ==
  ASSUME NEW f \in DOMAIN Files, NEW l \in 1 .. Readable(f), NEW cur \in Tuples,
         IsRun(cur, f, l - 1)
  PROVE  IsRun(Passed(cur, f, l), f, l)
<1> DEFINE O == OpenLines(f, l - 1)
           S == OfName(f, l)
<1>1. CASE Lines(f)[l].kind = "done"
  <2>1. OpenLines(f, l) = {} /\ Passed(cur, f, l) = NoTuple
    BY <1>1, OpenLinesIs DEF Passed
  <2> QED BY <2>1, PartsNone, NoTupleIs DEF IsRun
<1>2. CASE Lines(f)[l].kind = "junk"
  <2>1. OpenLines(f, l) = O
    BY <1>2, OpenLinesIs
  <2>2. Passed(cur, f, l) = cur
    BY <1>2, AddLineIs DEF Passed
  <2> QED BY <2>1, <2>2 DEF IsRun
<1>3. CASE Lines(f)[l].kind \notin {"done", "junk"}
  <2>1. OpenLines(f, l) = S
    BY <1>3, OpenLinesIs
  <2>2. Passed(cur, f, l) = AddLine(cur, f, l) /\ Lines(f)[l].kind # "junk"
    BY <1>3 DEF Passed
  <2>3. AddLine(cur, f, l).parts = PartsOf(f, S)
    BY <2>2, SameName
  <2>4. AddLine(cur, f, l).name = Lines(f)[l].name
    BY <2>2, AddLineIs
  <2>5. l \in S /\ \A i \in S : Lines(f)[i].name = Lines(f)[l].name
    BY DEF OfName
  <2> HIDE DEF S
  <2> QED BY <2>1, <2>2, <2>3, <2>4, <2>5 DEF IsRun
<1> QED BY <1>1, <1>2, <1>3

\* The lines that are read and rejected leave what the lines up to there make.
LEMMA CarriedRun ==
  ASSUME NEW f \in DOMAIN Files, NEW cur \in Tuples, NEW from \in Nat, NEW to \in Nat,
         1 <= from, from <= to + 1, to <= Readable(f), IsRun(cur, f, from - 1)
  PROVE  IsRun(Carried(cur, f, from, to), f, to)
<1> DEFINE N == to - from + 1
<1>0. PICK after : Carries(after, cur, f, from, to)
  BY CarriedIs
<1>1. /\ after \in [0 .. N -> Tuples]
      /\ Carried(cur, f, from, to) = after[N]
      /\ after[0] = cur
      /\ \A n \in 1 .. N : after[n] = Passed(after[n - 1], f, from + n - 1)
  BY <1>0 DEF Carries
<1>2. N \in Nat /\ Readable(f) \in Nat
  BY FileTypes
<1> DEFINE S == {n \in Nat : n <= N => IsRun(after[n], f, from + n - 1)}
<1>3. 0 \in S
  BY <1>1
<1>4. ASSUME NEW n \in Nat, n \in S PROVE n + 1 \in S
  <2> SUFFICES ASSUME n + 1 <= N PROVE IsRun(after[n + 1], f, from + (n + 1) - 1)
    OBVIOUS
  <2> DEFINE l == from + n
  <2>1. /\ n <= N /\ n + 1 \in 1 .. N /\ (n + 1) - 1 = n /\ n \in 0 .. N
        /\ from + (n + 1) - 1 = l /\ from + n - 1 = l - 1 /\ l \in 1 .. Readable(f)
    BY <1>2
  <2>2. after[n] \in Tuples /\ IsRun(after[n], f, l - 1)
    BY <1>1, <1>4, <2>1
  <2>3. after[n + 1] = Passed(after[n], f, l)
    BY <1>1, <2>1
  <2> HIDE DEF l
  <2>4. IsRun(Passed(after[n], f, l), f, l)
    BY <2>1, <2>2, PassedRun
  <2> QED BY <2>1, <2>3, <2>4
<1>5. \A n \in Nat : n \in S
  <2> HIDE DEF S
  <2> QED BY <1>3, <1>4, SetInduction
<1>6. IsRun(after[N], f, from + N - 1)
  BY <1>2, <1>5
<1>7. from + N - 1 = to
  OBVIOUS
<1> QED BY <1>1, <1>6, <1>7

\* What a line that completes a tuple makes of it.
LEMMA RunAdded ==
  ASSUME NEW f \in DOMAIN Files, NEW l \in 1 .. Readable(f), NEW cur \in Tuples,
         IsRun(cur, f, l - 1), Lines(f)[l].kind = "done"
  PROVE  AddLine(cur, f, l) = TupleAt(f, l)
<1> DEFINE t == AddLine(cur, f, l)
<1>1. Lines(f)[l].kind # "junk"
  OBVIOUS
<1>2. t \in Tuples /\ t.name = Lines(f)[l].name
  BY <1>1, AddLineIs
<1>3. t.parts = PartsOf(f, Run(f, l))
  BY <1>1, SameName, RunIs
<1> HIDE DEF t
<1>4. t = [name |-> t.name, parts |-> t.parts]
  BY <1>2 DEF Tuples
<1>5. t = TupleAt(f, l)
  BY <1>2, <1>3, <1>4 DEF TupleAt, Lines
<1> QED BY <1>5 DEF t

-----------------------------------------------------------------------------
(***************************************************************************)
(* Readers.                                                                *)
(***************************************************************************)
LEMMA ReaderTypes ==
  ASSUME NEW r \in Reader
  PROVE  /\ r.multi \in BOOLEAN /\ r.ptr \in Nat \ {0} /\ r.sinks \in Seq(Sinks)
         /\ Len(r.sinks) \in Nat /\ DOMAIN r.sinks = 1 .. Len(r.sinks)
         /\ \A i \in 1 .. Len(r.sinks) : r.sinks[i] \in Sinks
<1>1. r.multi \in BOOLEAN /\ r.ptr \in Nat \ {0} /\ r.sinks \in Seq(Sinks)
  BY DEF Reader
<1> QED BY <1>1

\* The shape a reader keeps: a backend alone has one sink, a composite a pointer to
\* one of its sinks or behind them.
SoundReader(r) ==
  /\ r \in Reader
  /\ Len(r.sinks) >= 1 /\ r.ptr <= Len(r.sinks) + 1
  /\ ~r.multi => Len(r.sinks) = 1 /\ r.ptr = 1
  /\ \A i \in DOMAIN r.sinks : r.sinks[i].pos <= Readable(r.sinks[i].file)

LEMMA NewSinkIs ==
  ASSUME NEW f \in DOMAIN Files
  PROVE  /\ NewSink(f) \in Sinks /\ NewSink(f).file = f /\ NewSink(f).pos = 0
         /\ NewSink(f).cur = NoTuple /\ NewSink(f).filter = NoFilter
  BY NoTupleIs DEF NewSink, Sinks

\* What is built of a source with files that open.
LEMMA BuildIs ==
  ASSUME NEW s \in Seq(DOMAIN Files), Readables(s) # <<>>
  PROVE  /\ SoundReader(Build(s)) /\ Build(s).ptr = 1 /\ Build(s).multi = IsComposite(s)
         /\ DOMAIN Build(s).sinks = DOMAIN Readables(s)
         /\ \A i \in DOMAIN Readables(s) :
              /\ Build(s).sinks[i].file = Readables(s)[i]
              /\ Build(s).sinks[i].pos = 0 /\ Build(s).sinks[i].cur = NoTuple
              /\ Build(s).sinks[i].filter = NoFilter
<1> DEFINE files == Readables(s)
           N == Len(files)
           sinks == [i \in DOMAIN files |-> NewSink(files[i])]
<1>1. /\ files \in Seq(DOMAIN Files) /\ N \in Nat /\ DOMAIN files = 1 .. N /\ N <= Len(s)
      /\ \A k \in 1 .. N : files[k] \in DOMAIN Files
  BY ReadablesIs
<1>2. Build(s) = [multi |-> IsComposite(s), ptr |-> 1, sinks |-> sinks]
  BY DEF Build
<1> HIDE DEF files
<1>3. N >= 1
  BY <1>1, EmptySeq DEF files
<1>4. \A i \in 1 .. N : /\ sinks[i] \in Sinks /\ sinks[i].file = files[i] /\ sinks[i].pos = 0
                        /\ sinks[i].cur = NoTuple /\ sinks[i].filter = NoFilter
  BY <1>1, NewSinkIs
<1>5. DOMAIN sinks = 1 .. N /\ sinks \in Seq(Sinks) /\ Len(sinks) = N
  BY <1>1, <1>4
<1> HIDE DEF sinks
<1>6. IsComposite(s) \in BOOLEAN /\ (~IsComposite(s) => N = 1)
  BY <1>1, <1>3 DEF IsComposite
<1>7. /\ Build(s).multi = IsComposite(s) /\ Build(s).ptr = 1 /\ Build(s).sinks = sinks
      /\ Build(s) \in Reader
  BY <1>2, <1>5, <1>6 DEF Reader
<1>8. \A i \in 1 .. N : 0 <= Readable(sinks[i].file)
  BY <1>1, <1>4, FileTypes
<1>9. SoundReader(Build(s))
  BY <1>1, <1>3, <1>4, <1>5, <1>6, <1>7, <1>8 DEF SoundReader
<1> QED BY <1>1, <1>4, <1>5, <1>7, <1>9 DEF files

\* q is r with another sink at k.
Replaces(r, q, k, sink) ==
  /\ q \in Reader /\ q.multi = r.multi /\ Len(q.sinks) = Len(r.sinks)
  /\ q.sinks[k] = sink
  /\ \A i \in DOMAIN r.sinks : i # k => q.sinks[i] = r.sinks[i]

LEMMA TookIs ==
  ASSUME NEW r \in Reader, NEW k \in DOMAIN r.sinks, NEW res, res.sink \in Sinks
  PROVE  /\ Replaces(r, Took(r, k, res).reader, k, res.sink)
         /\ Took(r, k, res).reader.ptr = k
         /\ Took(r, k, res).kind = res.kind /\ Took(r, k, res).tuple = res.tuple
         /\ Took(r, k, res).proto = res.proto
<1> DEFINE sinks == [r.sinks EXCEPT ![k] = res.sink]
           q == [r EXCEPT !.sinks = sinks, !.ptr = k]
<1>1. /\ r.multi \in BOOLEAN /\ r.ptr \in Nat \ {0} /\ r.sinks \in Seq(Sinks)
      /\ Len(r.sinks) \in Nat /\ DOMAIN r.sinks = 1 .. Len(r.sinks)
      /\ k \in Nat \ {0}
  BY ReaderTypes
<1>2. /\ sinks \in Seq(Sinks) /\ Len(sinks) = Len(r.sinks) /\ sinks[k] = res.sink
      /\ \A i \in DOMAIN r.sinks : i # k => sinks[i] = r.sinks[i]
  BY <1>1
<1>3. Took(r, k, res) = [reader |-> q, proto |-> res.proto, kind |-> res.kind, tuple |-> res.tuple]
  BY DEF Took
<1> HIDE DEF sinks
<1>4. q \in Reader /\ q.multi = r.multi /\ q.ptr = k /\ q.sinks = sinks
  BY <1>1, <1>2 DEF Reader
<1>5. Took(r, k, res).reader = q
  BY <1>3
<1> HIDE DEF q
<1>6. Replaces(r, q, k, res.sink)
  BY <1>2, <1>4 DEF Replaces
<1> QED BY <1>3, <1>4, <1>5, <1>6

\* What a result says besides its reader.
Says(res, kind, tuple, pr) == res.kind = kind /\ res.tuple = tuple /\ res.proto = pr

\* The calls of backends that a call of next() of a reader consists of.
Calls1(r, pr, res) ==
  \E first :
    /\ first = SinkNext(r.sinks[r.ptr], pr)
    /\ Replaces(r, res.reader, r.ptr, first.sink)
    /\ Says(res, first.kind, first.tuple, first.proto)
    /\ (r.multi /\ first.kind = "terminate") => r.ptr = Len(r.sinks)
    /\ \/ res.reader.ptr = r.ptr
       \/ res.reader.ptr = r.ptr + 1 /\ r.multi /\ first.kind = "terminate"

Calls2(r, pr, res) ==
  \E first, second, mid :
    /\ first = SinkNext(r.sinks[r.ptr], pr) /\ first.kind = "terminate" /\ r.multi
    /\ r.ptr + 1 \in DOMAIN r.sinks
    /\ second = SinkNext(r.sinks[r.ptr + 1], first.proto)
    /\ Replaces(r, mid, r.ptr, first.sink)
    /\ Replaces(mid, res.reader, r.ptr + 1, second.sink)
    /\ Says(res, second.kind, second.tuple, second.proto)
    /\ res.reader.ptr = r.ptr + 1

LEMMA ReaderNextIs ==
  ASSUME NEW r, SoundReader(r), NEW pr \in Tuples, NEW res, res = ReaderNext(r, pr)
  PROVE  \/ r.ptr \notin DOMAIN r.sinks /\ res.reader = r /\ Says(res, "undefined", NoTuple, pr)
         \/ r.ptr \in DOMAIN r.sinks /\ Calls1(r, pr, res)
         \/ r.ptr \in DOMAIN r.sinks /\ Calls2(r, pr, res)
<1> DEFINE N == Len(r.sinks)
           p == r.ptr
           first == SinkNext(r.sinks[p], pr)
           took == Took(r, p, first)
<1>1. /\ r \in Reader /\ N \in Nat /\ DOMAIN r.sinks = 1 .. N /\ p \in Nat \ {0}
      /\ p <= N + 1
      /\ \A i \in 1 .. N : r.sinks[i] \in Sinks /\ r.sinks[i].pos <= Readable(r.sinks[i].file)
  BY ReaderTypes DEF SoundReader
<1>2. CASE p > N
  <2>1. res = [reader |-> r, proto |-> pr, kind |-> "undefined", tuple |-> NoTuple]
    BY <1>2 DEF ReaderNext
  <2>2. p \notin 1 .. N
    BY <1>1, <1>2
  <2> QED BY <1>1, <2>1, <2>2 DEF Says
<1>3. CASE ~(p > N)
  <2>1. p \in 1 .. N
    BY <1>1, <1>3
  <2>2. first.sink \in Sinks /\ first.proto \in Tuples
    BY <1>1, <2>1, SinkNextIs DEF Advances
  <2> HIDE DEF first
  <2>3. /\ Replaces(r, took.reader, p, first.sink) /\ took.reader.ptr = p
        /\ Says(took, first.kind, first.tuple, first.proto)
    BY <1>1, <2>1, <2>2, TookIs DEF Says
  <2>4. CASE ~r.multi \/ first.kind # "terminate"
    <3>1. res = took
      BY <1>3, <2>4 DEF ReaderNext, first
    <3>2. Calls1(r, pr, res)
      BY <2>3, <2>4, <3>1 DEF Calls1, first
    <3> QED BY <1>1, <2>1, <3>2
  <2>5. CASE r.multi /\ first.kind = "terminate" /\ p = N
    <3>1. res = [took EXCEPT !.reader.ptr = p + 1]
      BY <1>3, <2>5 DEF ReaderNext, first
    <3>2. DOMAIN took = {"reader", "proto", "kind", "tuple"}
      BY DEF Took
    <3>3. took.reader \in Reader
      BY <2>3 DEF Replaces
    <3> HIDE DEF took
    <3>4. /\ res.reader = [took.reader EXCEPT !.ptr = p + 1]
          /\ res.kind = took.kind /\ res.tuple = took.tuple /\ res.proto = took.proto
      BY <3>1, <3>2
    <3>5. /\ res.reader \in Reader /\ res.reader.ptr = p + 1
          /\ res.reader.multi = took.reader.multi /\ res.reader.sinks = took.reader.sinks
      BY <1>1, <3>3, <3>4 DEF Reader
    <3>6. Replaces(r, res.reader, p, first.sink)
      BY <2>3, <3>5 DEF Replaces
    <3>7. Says(res, first.kind, first.tuple, first.proto)
      BY <2>3, <3>4 DEF Says
    <3>8. Calls1(r, pr, res)
      BY <2>5, <3>5, <3>6, <3>7 DEF Calls1, first
    <3> QED BY <1>1, <2>1, <3>8
  <2>6. CASE r.multi /\ first.kind = "terminate" /\ p # N
    <3> DEFINE mid == took.reader
               second == SinkNext(r.sinks[p + 1], first.proto)
    <3>1. res = Took(mid, p + 1, second)
      BY <1>3, <2>6 DEF ReaderNext, first
    <3>2. p + 1 \in 1 .. N
      BY <1>1, <2>1, <2>6
    <3>3. second.sink \in Sinks
      BY <1>1, <2>2, <3>2, SinkNextIs DEF Advances
    <3>4. mid \in Reader /\ Len(mid.sinks) = N
      BY <2>3 DEF Replaces
    <3> HIDE DEF mid, second
    <3>5. DOMAIN mid.sinks = 1 .. N
      BY <3>4, ReaderTypes
    <3>6. /\ Replaces(mid, res.reader, p + 1, second.sink) /\ res.reader.ptr = p + 1
          /\ Says(res, second.kind, second.tuple, second.proto)
      <4> DEFINE k == p + 1
      <4>1. k \in DOMAIN mid.sinks /\ res = Took(mid, k, second)
        BY <3>1, <3>2, <3>5
      <4> HIDE DEF k
      <4>2. /\ Replaces(mid, res.reader, k, second.sink) /\ res.reader.ptr = k
            /\ Says(res, second.kind, second.tuple, second.proto)
        BY <3>3, <3>4, <4>1, TookIs DEF Says
      <4> QED BY <4>2 DEF k
    <3>7. Replaces(r, mid, p, first.sink)
      BY <2>3 DEF mid
    <3>8. Calls2(r, pr, res)
      BY <1>1, <2>6, <3>2, <3>6, <3>7 DEF Calls2, first, second
    <3> QED BY <1>1, <2>1, <3>8
  <2> QED BY <2>4, <2>5, <2>6
<1> QED BY <1>2, <1>3

SetTo(r, ptr, sinks) == [r EXCEPT !.ptr = ptr, !.sinks = sinks]

LEMMA SetToIs ==
  ASSUME NEW r \in Reader, NEW ptr \in Nat \ {0}, NEW sinks \in Seq(Sinks)
  PROVE  LET q == SetTo(r, ptr, sinks)
         IN  q \in Reader /\ q.multi = r.multi /\ q.ptr = ptr /\ q.sinks = sinks
<1> DEFINE p == [r EXCEPT !.ptr = ptr]
<1>1. p \in Reader /\ p.multi = r.multi /\ p.ptr = ptr
  BY DEF Reader
<1>2. SetTo(r, ptr, sinks) = [p EXCEPT !.sinks = sinks]
  BY DEF SetTo
<1> HIDE DEF p
<1>3. LET q == [p EXCEPT !.sinks = sinks]
      IN  q \in Reader /\ q.multi = p.multi /\ q.ptr = p.ptr /\ q.sinks = sinks
  BY <1>1 DEF Reader
<1> QED BY <1>1, <1>2, <1>3
=============================================================================
