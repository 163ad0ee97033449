------------------------- MODULE DestinationsProofs --------------------------
(***************************************************************************)
(* Proofs about Destinations, for all pieces and destinations.             *)
(*                                                                         *)
(*   TypeInv   the types, and that the gzip sinks of a writer have a       *)
(*             prototype                                                   *)
(*   CallInv   + what a call in progress means for its destination         *)
(*   SinkInv   + every sink has every row, if its prototype is its own     *)
(*   GzipInv   + every row of a gzip sink is in a gzip file of its format  *)
(***************************************************************************)
EXTENDS Destinations, NatRecursion, SequenceTheorems, TLAPS

\* Between what is split and what it is split into: each sink is a piece of the
\* destination, and one that is named once is built once.
LEMMA SinksOf ==
  ASSUME NEW P, NEW d \in Seq(P),
         \A i, j \in DOMAIN d : (d[i] = d[j] /\ d[i] # Separator) => i = j
  PROVE  /\ Sinks(d) \in Seq(P)
         /\ \A k \in DOMAIN Sinks(d) :
              \E i \in DOMAIN d : d[i] = Sinks(d)[k] /\ d[i] # Separator
         /\ \A k, l \in DOMAIN Sinks(d) : Sinks(d)[k] = Sinks(d)[l] => k = l
<1> DEFINE N == Len(d)
           upTo == CHOOSE f : f = [n \in 0 .. N |-> IF n = 0 THEN <<>>
             ELSE IF d[n] = Separator THEN f[n - 1] ELSE Append(f[n - 1], d[n])]
           step == [a \in (1 .. N) \X Seq(P) |->
                      IF d[a[1]] = Separator THEN a[2] ELSE Append(a[2], d[a[1]])]
           Good(s, n) ==
             /\ s \in Seq(P)
             /\ \A k \in DOMAIN s : \E i \in 1 .. n : d[i] = s[k] /\ d[i] # Separator
             /\ \A k, l \in DOMAIN s : s[k] = s[l] => k = l
           S == {n \in Nat : n <= N => Good(upTo[n], n)}
<1>1. Sinks(d) = upTo[Len(d)]
  BY DEF Sinks
<1>2. N \in Nat /\ DOMAIN d = 1 .. N /\ \A i \in 1 .. N : d[i] \in P
  OBVIOUS
<1>3. /\ upTo[0] = <<>>
      /\ \A n \in 1 .. N :
           upTo[n] = IF d[n] = Separator THEN upTo[n - 1] ELSE Append(upTo[n - 1], d[n])
  <2> DEFINE e == <<>>
             Body(f) == [n \in 0 .. N |-> IF n = 0 THEN e
               ELSE IF d[n] = Separator THEN f[n - 1] ELSE Append(f[n - 1], d[n])]
  <2>1. step \in [(1 .. N) \X Seq(P) -> Seq(P)]
    BY <1>2
  <2>2. PICK f \in [0 .. N -> Seq(P)] :
          f[0] = e /\ \A n \in 1 .. N : f[n] = step[<<n, f[n - 1]>>]
    <3>1. e \in Seq(P)
      OBVIOUS
    <3> HIDE DEF step, e, N
    <3>2. PICK f : Recurs(f, Seq(P), N, e, step)
      BY <1>2, <2>1, <3>1, Recursion
    <3> QED BY <3>2 DEF Recurs
  <2>3. \A n \in 1 .. N : f[n - 1] \in Seq(P)
    BY <1>2
  <2>4. \A n \in 1 .. N :
          f[n] = IF d[n] = Separator THEN f[n - 1] ELSE Append(f[n - 1], d[n])
    BY <2>2, <2>3
  <2>5. DOMAIN Body(f) = DOMAIN f /\ \A n \in 0 .. N : Body(f)[n] = f[n]
    <3>1. 0 \in 0 .. N /\ \A n \in 0 .. N : n # 0 => n \in 1 .. N
      BY <1>2
    <3>2. DOMAIN f = 0 .. N /\ f[0] = e
      BY <2>2
    <3> HIDE DEF e, step, N, S
    <3> QED BY <2>4, <3>1, <3>2
  <2>6. f = Body(f)
    <3>1. f = [n \in DOMAIN f |-> f[n]] /\ Body(f) = [n \in 0 .. N |-> Body(f)[n]]
      OBVIOUS
    <3> HIDE DEF Body
    <3> QED BY <2>5, <3>1
  <2>7. upTo = Body(upTo)
    BY <2>6
  <2> HIDE DEF upTo
  <2>8. DOMAIN Body(upTo) = 0 .. N
    OBVIOUS
  <2>9. Body(upTo)[0] = <<>>
    BY <1>2
  <2>10. ASSUME NEW n \in 1 .. N
         PROVE  Body(upTo)[n] = IF d[n] = Separator THEN upTo[n - 1]
                                ELSE Append(upTo[n - 1], d[n])
    BY <1>2
  <2> HIDE DEF Body
  <2> QED BY <2>7, <2>9, <2>10
<1> HIDE DEF upTo
<1>4. 0 \in S
  <2>1. upTo[0] = <<>>
    BY <1>3
  <2>2. Good(<<>>, 0)
    OBVIOUS
  <2> HIDE DEF Good
  <2> QED BY <2>1, <2>2
<1>5. ASSUME NEW n \in Nat, n \in S PROVE n + 1 \in S
  <2> SUFFICES ASSUME n + 1 <= N PROVE Good(upTo[n + 1], n + 1)
    OBVIOUS
  <2>1. Good(upTo[n], n)
    BY <1>2, <1>5
  <2>2. n + 1 \in 1 .. N /\ (n + 1) - 1 = n
    BY <1>2
  <2>3. upTo[n + 1] = IF d[n + 1] = Separator THEN upTo[n] ELSE Append(upTo[n], d[n + 1])
    BY <1>2, <1>3, <2>2
  <2>4. CASE d[n + 1] = Separator
    BY <2>1, <2>3, <2>4
  <2>5. CASE d[n + 1] # Separator
    <3> DEFINE s == upTo[n]
               t == Append(s, d[n + 1])
    <3> HIDE DEF s
    <3>1. s \in Seq(P) /\ d[n + 1] \in P /\ upTo[n + 1] = t
      BY <1>2, <2>1, <2>2, <2>3, <2>5 DEF s
    <3>2. /\ t \in Seq(P) /\ DOMAIN t = 1 .. Len(s) + 1 /\ DOMAIN s = 1 .. Len(s)
          /\ t[Len(s) + 1] = d[n + 1] /\ \A k \in 1 .. Len(s) : t[k] = s[k]
      BY <3>1
    <3> HIDE DEF t
    <3>3. \A k \in 1 .. Len(s) : \E i \in 1 .. n : d[i] = s[k] /\ d[i] # Separator
      BY <2>1, <3>2 DEF s
    <3>4. \A k \in DOMAIN t : \E i \in 1 .. n + 1 : d[i] = t[k] /\ d[i] # Separator
      BY <2>5, <3>2, <3>3
    <3>5. \A k \in 1 .. Len(s) : s[k] # d[n + 1]
      BY <1>2, <3>3
    <3>6. \A k, l \in 1 .. Len(s) : s[k] = s[l] => k = l
      BY <2>1, <3>2 DEF s
    <3>7. \A k, l \in DOMAIN t : t[k] = t[l] => k = l
      BY <3>2, <3>5, <3>6
    <3> QED BY <3>1, <3>2, <3>4, <3>7
  <2> QED BY <2>4, <2>5
<1> HIDE DEF S
<1>6. N \in S
  BY <1>2, <1>4, <1>5, SetInduction
<1>7. Good(upTo[N], N)
  BY <1>2, <1>6 DEF S
<1> QED BY <1>1, <1>2, <1>7

-----------------------------------------------------------------------------
(***************************************************************************)
(* What the assumptions on destinations say of their sinks.                *)
(***************************************************************************)
Writable == {d \in Destinations : ~Hangs(d)}

LEMMA SinkFacts ==
  ASSUME NEW d \in Writable
  PROVE  /\ Sinks(d) \in Seq(DOMAIN Pieces)
         /\ Len(Sinks(d)) \in Nat /\ DOMAIN Sinks(d) = 1 .. Len(Sinks(d))
         /\ \A k \in DOMAIN Sinks(d) : Sinks(d)[k] \in DOMAIN Pieces
         /\ \A k, l \in DOMAIN Sinks(d) : Sinks(d)[k] = Sinks(d)[l] => k = l
<1> DEFINE P == DOMAIN Pieces
<1>1. d \in Seq(P \cup {Separator, Escaped}) /\ \A i \in DOMAIN d : d[i] # Escaped
  BY DestinationsAssumption DEF Writable, Hangs
<1>2. \A i, j \in DOMAIN d : (d[i] = d[j] /\ d[i] # Separator) => i = j
  BY DestinationsAssumption DEF Writable
<1>3. /\ Sinks(d) \in Seq(P \cup {Separator, Escaped})
      /\ \A k \in DOMAIN Sinks(d) : \E i \in DOMAIN d : d[i] = Sinks(d)[k] /\ d[i] # Separator
      /\ \A k, l \in DOMAIN Sinks(d) : Sinks(d)[k] = Sinks(d)[l] => k = l
  BY <1>1, <1>2, SinksOf
<1>4. Len(Sinks(d)) \in Nat /\ DOMAIN Sinks(d) = 1 .. Len(Sinks(d))
  BY <1>3
<1>5. \A i \in DOMAIN d : d[i] \in P \cup {Separator, Escaped}
  BY <1>1
<1>6. \A k \in DOMAIN Sinks(d) : Sinks(d)[k] \in P
  BY <1>1, <1>3, <1>5
<1>7. Sinks(d) = [k \in 1 .. Len(Sinks(d)) |-> Sinks(d)[k]]
  BY <1>3
<1> HIDE DEF P
<1>8. Sinks(d) \in Seq(P)
  BY <1>3, <1>4, <1>6
<1> QED BY <1>3, <1>4, <1>6, <1>8 DEF P

\* No piece is the sink of two destinations.
LEMMA SinksApart ==
  ASSUME NEW d \in Writable, NEW e \in Writable, d # e,
         NEW k \in DOMAIN Sinks(d), NEW l \in DOMAIN Sinks(e)
  PROVE  Sinks(d)[k] # Sinks(e)[l]
<1> DEFINE P == DOMAIN Pieces \cup {Separator, Escaped}
<1>1. \A c \in Writable : c \in Seq(P) /\ \A i \in DOMAIN c : c[i] # Escaped
  BY DestinationsAssumption DEF Writable, Hangs
<1>2. \A c \in Writable : \A i, j \in DOMAIN c : (c[i] = c[j] /\ c[i] # Separator) => i = j
  BY DestinationsAssumption DEF Writable
<1>3. PICK i \in DOMAIN d : d[i] = Sinks(d)[k] /\ d[i] # Separator
  BY <1>1, <1>2, SinksOf
<1>4. PICK j \in DOMAIN e : e[j] = Sinks(e)[l] /\ e[j] # Separator
  BY <1>1, <1>2, SinksOf
<1>5. d[i] = e[j] => d[i] \in {Separator, Escaped}
  BY DestinationsAssumption DEF Writable
<1> QED BY <1>1, <1>3, <1>4, <1>5

-----------------------------------------------------------------------------
(***************************************************************************)
(* The type invariant.  That a prototype writes somewhere when a gzip sink *)
(* is written or closed is due to the sink: it was built, with a format    *)
(* that has a prototype, and then nothing but its end is left.             *)
(***************************************************************************)
HistOK ==
  hist \in [base : [Files -> Seq(Nat)], rows : [Destinations -> Seq(Nat)],
            built : [Streamable -> Nat], saves : Nat, opens : Nat]

\* The k-th sink of d was built for the writer that d has.
Stands(d, k) ==
  \/ d \in open
  \/ call.op \in {"save", "close"} /\ call.d = d
  \/ call.op = "build" /\ call.d = d /\ k < call.k

Redirects(p) ==
  Kind(p) = "gz" =>
    Pieces[p].format \in Streamable /\ streamer[Pieces[p].format] # "nowhere"

SinksStand ==
  running = "yes" =>
    \A d \in Writable : \A k \in DOMAIN Sinks(d) :
      Stands(d, k) => Redirects(Sinks(d)[k]) /\ ~Throws(Sinks(d)[k])

TypeInv == TypeOK /\ HistOK /\ SinksStand

LEMMA InitTypes == Init => TypeInv
<1> SUFFICES ASSUME Init PROVE TypeInv
  OBVIOUS
<1>1. disk \in [Files -> Seq(Nat)] /\ stream \in [Files -> Seq(Nat)]
  BY DEF Init
<1>2. present \in SUBSET Files
  BY DestinationsAssumption DEF Init
<1>3. TypeOK
  BY <1>1, <1>2 DEF Init, TypeOK, Calls
<1>4. [d \in Destinations |-> <<>>] \in [Destinations -> Seq(Nat)]
  OBVIOUS
<1>5. HistOK
  BY <1>1, <1>4 DEF Init, HistOK
<1>6. SinksStand
  BY DEF Init, SinksStand, Stands, NoCall
<1> QED BY <1>3, <1>5, <1>6 DEF TypeInv

\* The sink in hand.
LEMMA SinkInHand ==
  ASSUME TypeInv, NEW op \in {"build", "save", "close"}, At(op)
  PROVE  /\ running = "yes" /\ call.op = op /\ call.d \in Writable
         /\ call.k \in Nat \ {0} /\ call.k \in DOMAIN Sinks(call.d)
         /\ Sink = Sinks(call.d)[call.k] /\ Sink \in DOMAIN Pieces
         /\ Behind = [op |-> op, d |-> call.d, k |-> call.k + 1]
         /\ Behind \in Calls
<1>1. call.op # NoCall.op
  BY DEF At, NoCall
<1>2. /\ call \in [op : {"build", "save", "close"}, d : Destinations, k : Nat \ {0}]
      /\ ~Hangs(call.d)
  BY <1>1 DEF TypeInv, TypeOK, Calls
<1>3. call.d \in Writable
  BY <1>2 DEF Writable
<1>4. call.k \in DOMAIN Sinks(call.d) /\ call.op = op /\ running = "yes"
  BY DEF At
<1>5. call.k + 1 <= Len(Sinks(call.d)) + 1 /\ call.k + 1 \in Nat \ {0}
  BY <1>2, <1>3, <1>4, SinkFacts
<1>6. Behind = [op |-> op, d |-> call.d, k |-> call.k + 1]
  BY <1>2, <1>4 DEF Behind
<1>7. Behind \in Calls
  BY <1>2, <1>5, <1>6 DEF Calls
<1> QED BY <1>2, <1>3, <1>4, <1>6, <1>7, SinkFacts DEF Sink

LEMMA FilesAre == /\ Files \subseteq DOMAIN Pieces
                  /\ \A p \in DOMAIN Pieces : Kind(p) \in Kinds /\ Pieces[p].works \in BOOLEAN
  BY PiecesAssumption DEF Files, Kind

\* What stays a sink that stands when a call goes on behind the one in hand.
LEMMA StandsOn ==
  ASSUME TypeInv, NEW op \in {"build", "save", "close"}, At(op),
         call' = Behind, UNCHANGED open,
         NEW d \in Writable, NEW k \in DOMAIN Sinks(d), Stands(d, k)'
  PROVE  Stands(d, k) \/ (op = "build" /\ d = call.d /\ k = call.k)
<1>1. /\ call.op = op /\ call'.op = op /\ call'.d = call.d /\ call'.k = call.k + 1
      /\ call.k \in Nat /\ k \in Nat
  BY SinkInHand, SinkFacts
<1> QED BY <1>1 DEF Stands

LEMMA FileTypes ==
  ASSUME TypeInv, NEW d \in Destinations, NEW m \in {"Recreate", "Update"}, File(d, m)
  PROVE  TypeInv'
<1> USE DEF TypeInv
<1>1. call \in Calls /\ running = "yes" /\ call.op = "none"
  BY DEF TypeOK, File, Idle
<1>2. d \notin open /\ ~Hangs(d) => [op |-> "build", d |-> d, k |-> 1] \in Calls
  <2> SUFFICES ASSUME ~Hangs(d) PROVE [op |-> "build", d |-> d, k |-> 1] \in Calls
    OBVIOUS
  <2>1. Len(Sinks(d)) \in Nat
    BY SinkFacts DEF Writable
  <2> QED BY <2>1 DEF Calls
<1>3. TypeOK'
  BY <1>1, <1>2 DEF TypeOK, File
<1>4. HistOK'
  <2> DEFINE r == IF d \in open THEN hist.rows[d] ELSE <<>>
  <2>1. r \in Seq(Nat)
    BY DEF HistOK
  <2>2. hist' = [hist EXCEPT !.opens = @ + 1, !.rows[d] = r]
    BY DEF File
  <2> HIDE DEF r
  <2>3. hist.opens + 1 \in Nat /\ [hist.rows EXCEPT ![d] = r] \in [Destinations -> Seq(Nat)]
    BY <2>1 DEF HistOK
  <2> QED BY <2>2, <2>3 DEF HistOK
<1>5. SinksStand'
  <2> SUFFICES ASSUME running' = "yes", NEW e \in Writable, NEW k \in DOMAIN Sinks(e), Stands(e, k)'
               PROVE  Redirects(Sinks(e)[k])' /\ ~Throws(Sinks(e)[k])
    BY DEF SinksStand, Throws, Kind
  <2>1. k \in Nat \ {0}
    BY SinkFacts
  <2>2. Stands(e, k)
    BY <1>1, <2>1 DEF Stands, File
  <2> QED BY <1>1, <2>2 DEF SinksStand, Redirects, File
<1> QED BY <1>3, <1>4, <1>5

\* A file that is opened holds rows.
LEMMA OpenedTypes ==
  ASSUME TypeInv, NEW f \in Files, NEW rows \in Seq(Nat), Opened(f, rows)
  PROVE  HistOK' /\ present' \in SUBSET Files /\ disk' \in [Files -> Seq(Nat)]
<1>1. [hist.base EXCEPT ![f] = rows] \in [Files -> Seq(Nat)]
  BY DEF TypeInv, HistOK
<1>2. HistOK'
  BY <1>1 DEF TypeInv, HistOK, Opened
<1> QED BY <1>2 DEF TypeInv, TypeOK, Opened

LEMMA BuildTextTypes ==
  ASSUME TypeInv, BuildText
  PROVE  TypeInv'
<1>1. At("build") /\ Kind(Sink) = "txt" /\ call' = Behind
      /\ UNCHANGED <<mode, stream, streamer, open>>
  BY DEF BuildText
<1>2. call.d \in Writable /\ call.k \in DOMAIN Sinks(call.d) /\ Sink = Sinks(call.d)[call.k]
      /\ Sink \in Files /\ Behind \in Calls
  BY <1>1, SinkInHand DEF Files, Kind
<1>3. Kept(Sink) \in Seq(Nat)
  BY <1>2 DEF Kept, TypeInv, TypeOK
<1>4. HistOK' /\ present' \in SUBSET Files /\ disk' \in [Files -> Seq(Nat)]
  <2>1. CASE UNCHANGED <<present, disk, hist>>
    BY <2>1 DEF TypeInv, TypeOK, HistOK
  <2>2. CASE Opened(Sink, Kept(Sink))
    BY <1>2, <1>3, <2>2, OpenedTypes
  <2> QED BY <2>1, <2>2 DEF BuildText
<1>5. running' \in {"yes", "undefined"}
  BY <1>1 DEF BuildText, At
<1>6. TypeOK'
  BY <1>1, <1>2, <1>4, <1>5 DEF TypeInv, TypeOK
<1>7. SinksStand'
  <2> SUFFICES ASSUME NEW e \in Writable, NEW k \in DOMAIN Sinks(e), Stands(e, k)'
               PROVE  Redirects(Sinks(e)[k])' /\ ~Throws(Sinks(e)[k])
    BY DEF SinksStand, Throws, Kind
  <2>1. running = "yes"
    BY <1>1 DEF At
  <2>2. CASE Stands(e, k)
    BY <1>1, <2>1, <2>2 DEF TypeInv, SinksStand, Redirects
  <2>3. CASE e = call.d /\ k = call.k
    BY <1>1, <1>2, <2>3 DEF Redirects, Throws, Kind
  <2> QED BY <1>1, <2>2, <2>3, StandsOn
<1> QED BY <1>4, <1>6, <1>7 DEF TypeInv

LEMMA BuildGzipTypes ==
  ASSUME TypeInv, BuildGzip
  PROVE  TypeInv'
<1> DEFINE t == Pieces[Sink].format
           redirects == t \in Streamable /\ streamer[t] # "deleted"
<1>1. At("build") /\ Kind(Sink) = "gz" /\ Pieces[Sink].works /\ call' = Behind
      /\ UNCHANGED <<mode, open>> /\ present' = present \cup {Sink}
      /\ disk' = [disk EXCEPT ![Sink] = <<>>]
  BY DEF BuildGzip
<1>2. call.d \in Writable /\ call.k \in DOMAIN Sinks(call.d) /\ Sink = Sinks(call.d)[call.k]
      /\ Sink \in Files /\ Behind \in Calls /\ running = "yes"
  BY <1>1, SinkInHand DEF Files, Kind
<1>3. present' \in SUBSET Files /\ disk' \in [Files -> Seq(Nat)]
  BY <1>1, <1>2 DEF TypeInv, TypeOK
<1>4. CASE redirects
  <2>1. /\ streamer' = [streamer EXCEPT ![t] = Sink]
        /\ stream' = [stream EXCEPT ![Sink] = <<>>]
        /\ hist' = [hist EXCEPT !.base[Sink] = <<>>, !.built[t] = @ + 1]
        /\ running' = running /\ t \in Streamable
    BY <1>4 DEF BuildGzip, Redirected
  <2>2. stream' \in [Files -> Seq(Nat)]
    BY <1>2, <2>1 DEF TypeInv, TypeOK
  <2>3. /\ [hist.base EXCEPT ![Sink] = <<>>] \in [Files -> Seq(Nat)]
        /\ [hist.built EXCEPT ![t] = @ + 1] \in [Streamable -> Nat]
    BY <1>2, <2>1 DEF TypeInv, HistOK
  <2>4. HistOK'
    BY <2>1, <2>3 DEF TypeInv, HistOK
  <2>5. DOMAIN streamer = Streamable
    BY DEF TypeInv, TypeOK
  <2>6. DOMAIN streamer' = Streamable /\ streamer'[t] = Sink
        /\ \A u \in Streamable \ {t} : streamer'[u] = streamer[u]
    BY <2>1, <2>5
  <2>7. TypeOK'
    BY <1>1, <1>2, <1>3, <2>1, <2>2, <2>6 DEF TypeInv, TypeOK
  <2>8. SinksStand'
    <3> SUFFICES ASSUME NEW e \in Writable, NEW k \in DOMAIN Sinks(e), Stands(e, k)'
                 PROVE  Redirects(Sinks(e)[k])' /\ ~Throws(Sinks(e)[k])
      BY DEF SinksStand, Throws, Kind
    <3>1. Sink # "nowhere"
      BY <1>2, FilesAre, DestinationsAssumption
    <3>2. CASE Stands(e, k)
      <4>1. Redirects(Sinks(e)[k]) /\ ~Throws(Sinks(e)[k])
        BY <1>2, <3>2 DEF TypeInv, SinksStand
      <4> QED BY <4>1, <2>6, <3>1 DEF Redirects
    <3>3. CASE e = call.d /\ k = call.k
      BY <1>1, <1>2, <2>1, <2>6, <3>1, <3>3 DEF Redirects, Throws, Kind
    <3> QED BY <1>1, <3>2, <3>3, StandsOn
  <2> QED BY <2>4, <2>7, <2>8 DEF TypeInv
<1>5. CASE ~redirects
  <2>1. running' = "undefined" /\ UNCHANGED <<streamer, stream, hist>>
    BY <1>5 DEF BuildGzip
  <2>2. TypeOK' /\ HistOK'
    BY <1>1, <1>2, <1>3, <2>1 DEF TypeInv, TypeOK, HistOK
  <2> QED BY <2>1, <2>2 DEF TypeInv, SinksStand
<1> QED BY <1>4, <1>5

\* A step of a call on a file that neither moves a prototype nor ends the call.
LEMMA FileSinkTypes ==
  ASSUME TypeInv, NEW op \in {"build", "save", "close"}, At(op), Kind(Sink) # "gz",
         op = "build" => ~Throws(Sink),
         call' = Behind, UNCHANGED <<streamer, open>>
  PROVE  SinksStand'
<1> SUFFICES ASSUME NEW e \in Writable, NEW k \in DOMAIN Sinks(e), Stands(e, k)'
             PROVE  Redirects(Sinks(e)[k])' /\ ~Throws(Sinks(e)[k])
  BY DEF SinksStand, Throws, Kind
<1>1. running = "yes" /\ Sink = Sinks(call.d)[call.k]
  BY SinkInHand
<1>2. CASE Stands(e, k)
  BY <1>1, <1>2 DEF TypeInv, SinksStand, Redirects
<1>3. CASE op = "build" /\ e = call.d /\ k = call.k
  BY <1>1, <1>3 DEF Redirects, Throws, Kind
<1> QED BY <1>2, <1>3, StandsOn

LEMMA BuildHdfTypes ==
  ASSUME TypeInv, BuildHdf
  PROVE  TypeInv'
<1>1. At("build") /\ Kind(Sink) = "h5" /\ call' = Behind /\ Opened(Sink, <<>>)
      /\ UNCHANGED <<stream, streamer, open>>
      /\ mode' \in {"Recreate", mode} /\ running' \in {"ended", running}
  BY DEF BuildHdf
<1>2. Sink \in Files /\ Behind \in Calls /\ running = "yes"
  BY <1>1, SinkInHand DEF Files, Kind
<1>3. HistOK' /\ present' \in SUBSET Files /\ disk' \in [Files -> Seq(Nat)]
  <2>1. <<>> \in Seq(Nat)
    OBVIOUS
  <2> QED BY <1>1, <1>2, <2>1, OpenedTypes
<1>4. TypeOK'
  BY <1>1, <1>2, <1>3 DEF TypeInv, TypeOK
<1>5. SinksStand'
  BY <1>1, FileSinkTypes DEF Throws
<1> QED BY <1>3, <1>4, <1>5 DEF TypeInv

\* The steps that end a call, well or not.
LEMMA EndTypes ==
  ASSUME TypeInv, BuildThrows \/ BuildEnds \/ Saved \/ Closed
  PROVE  TypeInv'
<1>1. /\ UNCHANGED <<mode, present, disk, stream, streamer, open, hist>>
      /\ call' \in {NoCall, call}
      /\ (running' = running /\ call' = NoCall) \/ running' = "ended"
  BY DEF BuildThrows, BuildEnds, Saved, Closed
<1>2. NoCall \in Calls /\ NoCall.op = "none" /\ NoCall.op # "build"
  BY DEF Calls, NoCall
<1>3. TypeOK' /\ HistOK'
  BY <1>1, <1>2 DEF TypeInv, TypeOK, HistOK
<1>4. SinksStand'
  <2>1. CASE running' = "ended"
    BY <2>1 DEF SinksStand
  <2>2. CASE running' = running /\ call' = NoCall
    <3>1. \A e, k : Stands(e, k)' => Stands(e, k)
      BY <1>1, <1>2, <2>2 DEF Stands
    <3> QED BY <1>1, <2>2, <3>1 DEF TypeInv, SinksStand, Redirects, Throws, Kind
  <2> QED BY <1>1, <2>1, <2>2
<1> QED BY <1>3, <1>4 DEF TypeInv

LEMMA BuiltTypes ==
  ASSUME TypeInv, Built
  PROVE  TypeInv' /\ call.d \in Writable /\ call.op = "build"
         /\ \A k \in DOMAIN Sinks(call.d) : k < call.k
<1>1. /\ Through("build") /\ open' = open \cup {call.d} /\ call' = NoCall
      /\ UNCHANGED <<mode, present, disk, stream, streamer, running, hist>>
  BY DEF Built
<1>2. call.op = "build" /\ NoCall.op = "none" /\ NoCall \in Calls
  BY <1>1 DEF Through, NoCall, Calls
<1>3. call.d \in Destinations /\ ~Hangs(call.d) /\ call.k \in Nat
  BY <1>2 DEF TypeInv, TypeOK, Calls, NoCall
<1>4. call.d \in Writable /\ \A k \in DOMAIN Sinks(call.d) : k < call.k
  <2>1. call.d \in Writable
    BY <1>3 DEF Writable
  <2>2. Len(Sinks(call.d)) \in Nat /\ DOMAIN Sinks(call.d) = 1 .. Len(Sinks(call.d))
    BY <2>1, SinkFacts
  <2> QED BY <1>1, <1>3, <2>1, <2>2 DEF Through
<1>5. TypeOK' /\ HistOK'
  BY <1>1, <1>2, <1>3 DEF TypeInv, TypeOK, HistOK
<1>6. \A e \in Writable : \A k \in DOMAIN Sinks(e) : Stands(e, k)' => Stands(e, k)
  BY <1>1, <1>2, <1>4 DEF Stands
<1>7. SinksStand'
  BY <1>1, <1>6 DEF TypeInv, SinksStand, Redirects, Throws, Kind
<1> QED BY <1>2, <1>4, <1>5, <1>7 DEF TypeInv

LEMMA Types ==
  ASSUME TypeInv
  PROVE  /\ disk \in [Files -> Seq(Nat)] /\ stream \in [Files -> Seq(Nat)]
         /\ hist.base \in [Files -> Seq(Nat)] /\ hist.rows \in [Destinations -> Seq(Nat)]
         /\ hist.built \in [Streamable -> Nat] /\ hist.saves \in Nat
  BY DEF TypeInv, TypeOK, HistOK

LEMMA AppendTypes ==
  ASSUME NEW f \in [Files -> Seq(Nat)], NEW p, NEW n \in Nat
  PROVE  [f EXCEPT ![p] = Append(@, n)] \in [Files -> Seq(Nat)]
<1>1. CASE p \in Files
  <2>1. Append(f[p], n) \in Seq(Nat)
    BY <1>1
  <2> QED BY <1>1, <2>1
<1>2. CASE p \notin Files
  BY <1>2
<1> QED BY <1>1, <1>2

\* A save and a close begin at the first sink of a destination that is open.
LEMMA CallBegins ==
  ASSUME TypeInv, NEW d \in open, NEW op \in {"save", "close"}
  PROVE  /\ d \in Writable /\ [op |-> op, d |-> d, k |-> 1] \in Calls
<1>1. d \in Writable
  BY DEF TypeInv, TypeOK, Writable
<1>2. Len(Sinks(d)) \in Nat
  BY <1>1, SinkFacts
<1> QED BY <1>1, <1>2 DEF Calls, Writable

LEMMA SaveTypes ==
  ASSUME TypeInv, NEW d \in Destinations, Save(d)
  PROVE  TypeInv'
<1>1. /\ d \in open /\ call' = [op |-> "save", d |-> d, k |-> 1] /\ running = "yes"
      /\ UNCHANGED <<mode, present, disk, stream, streamer, open, running>>
      /\ hist' = [hist EXCEPT !.saves = @ + 1, !.rows[d] = Append(@, hist.saves + 1)]
  BY DEF Save, Idle
<1>2. [hist.rows EXCEPT ![d] = Append(@, hist.saves + 1)] \in [Destinations -> Seq(Nat)]
      /\ hist.saves + 1 \in Nat
  BY DEF TypeInv, HistOK
<1>3. HistOK'
  BY <1>1, <1>2 DEF TypeInv, HistOK
<1>4. TypeOK'
  BY <1>1, CallBegins DEF TypeInv, TypeOK
<1>5. \A e, k : Stands(e, k)' => Stands(e, k)
  BY <1>1 DEF Stands
<1>6. SinksStand'
  BY <1>1, <1>5 DEF TypeInv, SinksStand, Redirects, Throws, Kind
<1> QED BY <1>3, <1>4, <1>6 DEF TypeInv

LEMMA CloseTypes ==
  ASSUME TypeInv, NEW d \in Destinations, Close(d)
  PROVE  TypeInv'
<1>1. /\ d \in open /\ call' = [op |-> "close", d |-> d, k |-> 1] /\ running = "yes"
      /\ UNCHANGED <<mode, present, disk, stream, streamer, running, hist>>
      /\ open' = open \ {d}
  BY DEF Close, Idle
<1>2. TypeOK' /\ HistOK'
  BY <1>1, CallBegins DEF TypeInv, TypeOK, HistOK
<1>3. \A e, k : Stands(e, k)' => Stands(e, k)
  BY <1>1 DEF Stands
<1>4. SinksStand'
  BY <1>1, <1>3 DEF TypeInv, SinksStand, Redirects, Throws, Kind
<1> QED BY <1>2, <1>4 DEF TypeInv

LEMMA SaveFileTypes ==
  ASSUME TypeInv, SaveFile
  PROVE  TypeInv'
<1>1. /\ At("save") /\ Kind(Sink) # "gz" /\ call' = Behind
      /\ UNCHANGED <<mode, present, stream, streamer, open, running, hist>>
      /\ disk' \in {disk, [disk EXCEPT ![Sink] = Append(@, hist.saves)]}
  BY DEF SaveFile
<1>2. disk' \in [Files -> Seq(Nat)]
  <2> DEFINE written == [disk EXCEPT ![Sink] = Append(@, hist.saves)]
  <2>1. disk \in [Files -> Seq(Nat)] /\ hist.saves \in Nat
    BY Types
  <2>2. written \in [Files -> Seq(Nat)]
    BY <2>1, AppendTypes
  <2> HIDE DEF written
  <2>3. disk' = disk \/ disk' = written
    BY <1>1 DEF written
  <2> QED BY <2>1, <2>2, <2>3
<1>3. TypeOK' /\ HistOK'
  BY <1>1, <1>2, SinkInHand DEF TypeInv, TypeOK, HistOK
<1>4. SinksStand'
  BY <1>1, FileSinkTypes
<1> QED BY <1>3, <1>4 DEF TypeInv

LEMMA CloseFileTypes ==
  ASSUME TypeInv, CloseFile
  PROVE  TypeInv'
<1>1. /\ At("close") /\ Kind(Sink) # "gz" /\ call' = Behind
      /\ UNCHANGED <<mode, present, disk, stream, streamer, open, running, hist>>
  BY DEF CloseFile
<1>2. TypeOK' /\ HistOK'
  BY <1>1, SinkInHand DEF TypeInv, TypeOK, HistOK
<1>3. SinksStand'
  BY <1>1, FileSinkTypes
<1> QED BY <1>2, <1>3 DEF TypeInv

\* A gzip sink that is written or closed has a prototype, and unless that is deleted
\* it writes to a gzip file of the format.
LEMMA GzipInHand ==
  ASSUME TypeInv, NEW op \in {"save", "close"}, At(op), Kind(Sink) = "gz"
  PROVE  /\ Pieces[Sink].format \in Streamable /\ Target(Sink) # "nowhere"
         /\ Sink \in Files /\ "deleted" \notin Files
         /\ Target(Sink) # "deleted" =>
              /\ Target(Sink) \in Files /\ Kind(Target(Sink)) = "gz"
              /\ Pieces[Target(Sink)].format = Pieces[Sink].format
<1>1. /\ running = "yes" /\ call.op = op /\ call.d \in Writable /\ call.k \in DOMAIN Sinks(call.d)
      /\ Sink = Sinks(call.d)[call.k] /\ Sink \in DOMAIN Pieces
  BY SinkInHand
<1>2. Stands(call.d, call.k)
  BY <1>1 DEF Stands
<1>3. Redirects(Sink)
  BY <1>1, <1>2 DEF TypeInv, SinksStand
<1>4. "deleted" \notin Files
  BY FilesAre, DestinationsAssumption
<1> QED BY <1>1, <1>3, <1>4 DEF Redirects, Target, TypeInv, TypeOK, Files, Kind

LEMMA SaveGzipTypes ==
  ASSUME TypeInv, SaveGzip
  PROVE  TypeInv'
<1>1. /\ At("save") /\ Kind(Sink) = "gz" /\ call' = Behind
      /\ UNCHANGED <<mode, present, disk, streamer, open, hist>>
      /\ \/ running' = "undefined" /\ UNCHANGED stream
         \/ /\ Target(Sink) # "deleted" /\ UNCHANGED running
            /\ stream' = [stream EXCEPT ![Target(Sink)] = Append(@, hist.saves)]
  BY DEF SaveGzip
<1>2. stream' \in [Files -> Seq(Nat)]
  <2> DEFINE written == [stream EXCEPT ![Target(Sink)] = Append(@, hist.saves)]
  <2>1. stream \in [Files -> Seq(Nat)] /\ hist.saves \in Nat
    BY Types
  <2>2. written \in [Files -> Seq(Nat)]
    BY <2>1, AppendTypes
  <2> HIDE DEF written
  <2>3. stream' = stream \/ stream' = written
    BY <1>1 DEF written
  <2> QED BY <2>1, <2>2, <2>3
<1>3. running' \in {"yes", "undefined"}
  BY <1>1 DEF At
<1>4. TypeOK' /\ HistOK'
  BY <1>1, <1>2, <1>3, SinkInHand DEF TypeInv, TypeOK, HistOK
<1>5. \A e \in Writable : \A k \in DOMAIN Sinks(e) : Stands(e, k)' => Stands(e, k)
  BY <1>1, StandsOn
<1>6. running = "yes"
  BY <1>1 DEF At
<1>7. SinksStand'
  BY <1>1, <1>5, <1>6 DEF TypeInv, SinksStand, Redirects, Throws, Kind
<1> QED BY <1>4, <1>7 DEF TypeInv

LEMMA CloseGzipTypes ==
  ASSUME TypeInv, CloseGzip
  PROVE  TypeInv'
<1> DEFINE t == Pieces[Sink].format
<1>1. /\ At("close") /\ Kind(Sink) = "gz" /\ call' = Behind /\ running = "yes"
      /\ UNCHANGED <<mode, present, open, hist>>
      /\ \/ running' = "undefined" /\ UNCHANGED <<streamer, disk, stream>>
         \/ /\ UNCHANGED running
            /\ streamer' = [streamer EXCEPT ![t] = "deleted"]
            /\ disk' = [disk EXCEPT ![Sink] = Flushed(Sink)]
            /\ stream' = [stream EXCEPT ![Sink] = <<>>]
  BY DEF CloseGzip, At
<1>2. t \in Streamable /\ Sink \in Files
  BY <1>1, GzipInHand
<1>3. Flushed(Sink) \in Seq(Nat)
  BY <1>2 DEF Flushed, TypeInv, TypeOK
<1>4. disk' \in [Files -> Seq(Nat)] /\ stream' \in [Files -> Seq(Nat)]
  <2>1. [disk EXCEPT ![Sink] = Flushed(Sink)] \in [Files -> Seq(Nat)]
    BY <1>2, <1>3, Types
  <2>2. [stream EXCEPT ![Sink] = <<>>] \in [Files -> Seq(Nat)]
    BY <1>2, Types
  <2> QED BY <1>1, <2>1, <2>2, Types
<1>5. DOMAIN streamer' = Streamable /\ \A u \in Streamable : streamer'[u] \in {streamer[u], "deleted"}
  BY <1>1, <1>2 DEF TypeInv, TypeOK
<1>6. TypeOK' /\ HistOK'
  BY <1>1, <1>4, <1>5, SinkInHand DEF TypeInv, TypeOK, HistOK
<1>7. \A e \in Writable : \A k \in DOMAIN Sinks(e) : Stands(e, k)' => Stands(e, k)
  BY <1>1, StandsOn
<1>8. \A e \in Writable : \A k \in DOMAIN Sinks(e) :
        Stands(e, k) => Redirects(Sinks(e)[k]) /\ ~Throws(Sinks(e)[k])
  BY <1>1 DEF TypeInv, SinksStand
<1>9. SinksStand'
  BY <1>5, <1>7, <1>8 DEF SinksStand, Redirects, Throws, Kind
<1> QED BY <1>6, <1>9 DEF TypeInv

LEMMA TypeStep ==
  ASSUME TypeInv, [Next]_vars
  PROVE  TypeInv'
<1>1. CASE UNCHANGED vars
  BY <1>1 DEF vars, TypeInv, TypeOK, HistOK, SinksStand, Stands, Redirects, Throws, Kind
<1> QED BY <1>1, FileTypes, BuildTextTypes, BuildGzipTypes, BuildHdfTypes, EndTypes, BuiltTypes,
           SaveTypes, CloseTypes, SaveFileTypes, CloseFileTypes, SaveGzipTypes, CloseGzipTypes
        DEF Next

\* The types, and that a gzip sink that is written or closed has a prototype.
THEOREM TypeInvHolds == Spec => []TypeInv
  BY InitTypes, TypeStep, PTL DEF Spec

\* The type invariant that the runs check: also, a prototype writes to a gzip file of
\* its format (instantiateStreamer).
THEOREM TypeCorrect == Spec => []TypeOK
<1>1. TypeInv => TypeOK
  BY DEF TypeInv
<1> QED BY <1>1, TypeInvHolds, PTL

-----------------------------------------------------------------------------
(***************************************************************************)
(* What a step does to the rows of a file.                                 *)
(***************************************************************************)
\* The rows of two sequences, one behind the other.
LEMMA AppendBehind ==
  ASSUME NEW a \in Seq(Nat), NEW b \in Seq(Nat), NEW n \in Nat
  PROVE  /\ a \o Append(b, n) = Append(a \o b, n)
         /\ (a \o b) \o <<>> = a \o b
  OBVIOUS

\* Nothing is forgotten in a step that leaves the rows, adds to them, or puts the
\* buffer behind them.
LEMMA StartsWith ==
  ASSUME NEW a \in Seq(Nat), NEW b \in Seq(Nat)
  PROVE  \E n \in 0 .. Len(a \o b) : SubSeq(a \o b, 1, n) = a
<1>1. Len(a) \in 0 .. Len(a \o b) /\ SubSeq(a \o b, 1, Len(a)) = a
  OBVIOUS
<1> QED BY <1>1

\* A sequence is what is in front of its last element, and that.
LEMMA LastBehindFront ==
  ASSUME NEW a \in Seq(Nat), Len(a) > 0
  PROVE  /\ SubSeq(a, 1, Len(a) - 1) \in Seq(Nat)
         /\ a = Append(SubSeq(a, 1, Len(a) - 1), a[Len(a)])
<1> DEFINE b == SubSeq(a, 1, Len(a) - 1)
<1>1. 1 \in 1 .. Len(a) /\ Len(a) \in 1 .. Len(a) /\ a[Len(a)] \in Nat
  OBVIOUS
<1>2. b \in Seq(Nat)
  OBVIOUS
<1>3. SubSeq(a, 1, Len(a)) = b \o <<a[Len(a)]>>
  BY <1>1, SubSeqRecursiveSecond
<1>4. SubSeq(a, 1, Len(a)) = a
  BY SubSeqFull
<1> HIDE DEF b
<1>5. b \o <<a[Len(a)]>> = Append(b, a[Len(a)])
  BY <1>1, <1>2, AppendIsConcat
<1> QED BY <1>2, <1>3, <1>4, <1>5 DEF b

LEMMA ForgetStep ==
  ASSUME TypeInv, [Next]_vars, NEW f \in Files
  PROVE  \/ \E n \in 0 .. Len(disk'[f]) : SubSeq(disk'[f], 1, n) = disk[f]
         \/ /\ call.op = "build" /\ f = Sink
            /\ Kind(f) = "txt" => mode = "Recreate"
<1>1. disk[f] \in Seq(Nat) /\ disk'[f] \in Seq(Nat) /\ stream[f] \in Seq(Nat) /\ hist.saves \in Nat
      /\ DOMAIN disk = Files
  BY Types, TypeStep, Types DEF TypeInv, TypeOK
<1>2. CASE disk'[f] = disk[f]
  BY <1>1, <1>2
<1>3. CASE \E b \in Seq(Nat) : disk'[f] = disk[f] \o b
  BY <1>1, <1>3, StartsWith
<1>4. CASE BuildText
  BY <1>1, <1>2, <1>4 DEF BuildText, Opened, Kept, At
<1>5. CASE BuildGzip
  BY <1>1, <1>2, <1>5 DEF BuildGzip, At
<1>6. CASE BuildHdf
  BY <1>1, <1>2, <1>6 DEF BuildHdf, Opened, At
<1>7. CASE SaveFile
  <2>1. disk'[f] = disk[f] \/ disk'[f] = Append(disk[f], hist.saves)
    BY <1>1, <1>7 DEF SaveFile
  <2>2. Append(disk[f], hist.saves) = disk[f] \o <<hist.saves>> /\ <<hist.saves>> \in Seq(Nat)
    BY <1>1
  <2> QED BY <1>2, <1>3, <2>1, <2>2
<1>8. CASE CloseGzip
  <2>1. disk'[f] = disk[f] \/ disk'[f] = disk[f] \o stream[f]
    BY <1>1, <1>8 DEF CloseGzip, Flushed
  <2> QED BY <1>1, <1>2, <1>3, <2>1
<1>9. CASE UNCHANGED disk
  BY <1>2, <1>9
<1>10. CASE UNCHANGED vars
  BY <1>9, <1>10 DEF vars
<1> QED BY <1>4, <1>5, <1>6, <1>7, <1>8, <1>9, <1>10
        DEF Next, File, BuildThrows, BuildEnds, Built, Save, SaveGzip, Saved, Close, CloseFile, Closed

\* Rows are written behind what a file holds, and what it holds is forgotten in one
\* kind of step only: it is opened, in the mode Recreate if it is a text file.
THEOREM OnlyOpeningForgetsTheorem == Spec => OnlyOpeningForgets
<1> DEFINE A == \A f \in Files :
             \/ \E n \in 0 .. Len(disk'[f]) : SubSeq(disk'[f], 1, n) = disk[f]
             \/ /\ call.op = "build" /\ f = Sink
                /\ Kind(f) = "txt" => mode = "Recreate"
<1>1. TypeInv /\ [Next]_vars => [A]_vars
  BY ForgetStep
<1> QED BY <1>1, TypeInvHolds, PTL DEF Spec, OnlyOpeningForgets

-----------------------------------------------------------------------------
(***************************************************************************)
(* What a call in progress means for the destination and its rows.         *)
(***************************************************************************)
\* Only gzip writers have a buffer.
BuffersAreOfGzip ==
  running = "yes" => \A p \in Files : Kind(p) # "gz" => stream[p] = <<>>

\* What is built or closed is not open, what is saved is the last row.
CallsMatch ==
  running = "yes" =>
    /\ call.op = "build" => call.d \notin open /\ hist.rows[call.d] = <<>>
    /\ call.op = "close" => call.d \notin open
    /\ call.op = "save" =>
         /\ call.d \in open /\ Len(hist.rows[call.d]) > 0
         /\ hist.rows[call.d][Len(hist.rows[call.d])] = hist.saves

\* A destination with rows was built to its end.
RowsNeedSinks ==
  running = "yes" =>
    \A d \in Writable : hist.rows[d] # <<>> =>
      \A k \in DOMAIN Sinks(d) :
        /\ ~Throws(Sinks(d)[k])
        /\ Kind(Sinks(d)[k]) = "gz" => Pieces[Sinks(d)[k]].format \in Streamable

CallInv == TypeInv /\ BuffersAreOfGzip /\ CallsMatch /\ RowsNeedSinks

LEMMA InitCalls == Init => CallInv
  BY InitTypes DEF Init, CallInv, BuffersAreOfGzip, CallsMatch, RowsNeedSinks, NoCall, Writable

\* A program that ended does not go on.
LEMMA RunsOn ==
  ASSUME [Next]_vars, running' = "yes"
  PROVE  running = "yes"
  BY DEF Next, vars, File, Idle, BuildText, BuildGzip, BuildHdf, BuildThrows, BuildEnds, Built, At,
         Through, Save, SaveFile, SaveGzip, Saved, Close, CloseFile, CloseGzip, Closed

LEMMA BuffersStep ==
  ASSUME CallInv, [Next]_vars
  PROVE  BuffersAreOfGzip'
<1> SUFFICES ASSUME running' = "yes", NEW p \in Files, Kind(p) # "gz"
             PROVE  stream'[p] = <<>>
  BY DEF BuffersAreOfGzip, Files, Kind
<1>1. running = "yes"
  BY RunsOn
<1>2. stream[p] = <<>> /\ DOMAIN stream = Files
  BY <1>1, Types DEF CallInv, BuffersAreOfGzip
<1>3. CASE BuildGzip
  BY <1>2, <1>3 DEF BuildGzip
<1>4. CASE SaveGzip
  <2>1. At("save") /\ Kind(Sink) = "gz"
    BY <1>4 DEF SaveGzip
  <2>2. Target(Sink) # "deleted" => Target(Sink) # p
    BY <2>1, GzipInHand DEF CallInv
  <2> QED BY <1>2, <1>4, <2>2 DEF SaveGzip
<1>5. CASE CloseGzip
  BY <1>2, <1>5 DEF CloseGzip
<1>6. CASE UNCHANGED stream
  BY <1>2, <1>6
<1> QED BY <1>3, <1>4, <1>5, <1>6
        DEF Next, vars, File, BuildText, BuildHdf, BuildThrows, BuildEnds, Built,
            Save, SaveFile, Saved, Close, CloseFile, Closed

\* Steps between the first and the last sink of a call.
SinkStep ==
  \/ BuildText \/ BuildGzip \/ BuildHdf
  \/ SaveFile \/ SaveGzip \/ CloseFile \/ CloseGzip

LEMMA SinkSteps ==
  ASSUME TypeInv, SinkStep
  PROVE  /\ \E op \in {"build", "save", "close"} : At(op)
         /\ call' = Behind /\ UNCHANGED <<open, hist.rows, hist.saves>>
         /\ call'.op = call.op /\ call'.d = call.d
<1>1. PICK op \in {"build", "save", "close"} : At(op)
  BY DEF SinkStep, BuildText, BuildGzip, BuildHdf, SaveFile, SaveGzip, CloseFile, CloseGzip
<1>2. call' = Behind /\ UNCHANGED open
  BY DEF SinkStep, BuildText, BuildGzip, BuildHdf, SaveFile, SaveGzip, CloseFile, CloseGzip
<1>3. UNCHANGED <<hist.rows, hist.saves>>
  <2>1. CASE UNCHANGED hist
    BY <2>1
  <2>2. CASE BuildText
    BY <2>2 DEF BuildText, Opened, TypeInv, HistOK
  <2>3. CASE BuildGzip
    BY <2>3 DEF BuildGzip, TypeInv, HistOK
  <2>4. CASE BuildHdf
    BY <2>4 DEF BuildHdf, Opened, TypeInv, HistOK
  <2> QED BY <2>1, <2>2, <2>3, <2>4 DEF SinkStep, SaveFile, SaveGzip, CloseFile, CloseGzip
<1>4. call'.op = call.op /\ call'.d = call.d
  BY <1>1, <1>2, SinkInHand
<1> QED BY <1>1, <1>2, <1>3, <1>4

LEMMA CallsStep ==
  ASSUME CallInv, [Next]_vars
  PROVE  CallsMatch'
<1> SUFFICES ASSUME running' = "yes"
             PROVE  /\ call'.op = "build" => call'.d \notin open' /\ hist'.rows[call'.d] = <<>>
                    /\ call'.op = "close" => call'.d \notin open'
                    /\ call'.op = "save" =>
                         /\ call'.d \in open' /\ Len(hist'.rows[call'.d]) > 0
                         /\ hist'.rows[call'.d][Len(hist'.rows[call'.d])] = hist'.saves
  BY DEF CallsMatch
<1>1. running = "yes" /\ NoCall.op = "none" /\ TypeInv
  BY RunsOn DEF NoCall, CallInv
<1>2. CASE SinkStep
  BY <1>1, <1>2, SinkSteps DEF CallInv, CallsMatch
<1>3. CASE call' = NoCall
  BY <1>1, <1>3
<1>4. CASE UNCHANGED <<call, open, hist>>
  BY <1>1, <1>4 DEF CallInv, CallsMatch
<1>5. ASSUME NEW d \in Destinations, NEW m \in {"Recreate", "Update"}, File(d, m)
      PROVE  /\ call'.op = "build" => call'.d \notin open' /\ hist'.rows[call'.d] = <<>>
             /\ call'.op \notin {"close", "save"}
  <2>1. hist'.rows[d] = IF d \in open THEN hist.rows[d] ELSE <<>>
    BY <1>1, <1>5 DEF File, TypeInv, HistOK
  <2> QED BY <1>1, <1>5, <2>1 DEF File, Idle
<1>6. ASSUME NEW d \in Destinations, Save(d)
      PROVE  /\ call'.op = "save" /\ call'.d \in open' /\ Len(hist'.rows[call'.d]) > 0
             /\ hist'.rows[call'.d][Len(hist'.rows[call'.d])] = hist'.saves
  <2>1. hist'.rows[d] = Append(hist.rows[d], hist.saves + 1) /\ hist'.saves = hist.saves + 1
    BY <1>1, <1>6 DEF Save, TypeInv, HistOK
  <2>2. hist.rows[d] \in Seq(Nat) /\ hist.saves \in Nat
    BY <1>1, Types
  <2> QED BY <1>6, <2>1, <2>2 DEF Save
<1>7. ASSUME NEW d \in Destinations, Close(d)
      PROVE  call'.op = "close" /\ call'.d \notin open'
  BY <1>7 DEF Close
<1> QED BY <1>1, <1>2, <1>3, <1>4, <1>5, <1>6, <1>7
        DEF Next, SinkStep, BuildThrows, BuildEnds, Built, Saved, Closed, vars

LEMMA RowsNeedStep ==
  ASSUME CallInv, [Next]_vars
  PROVE  RowsNeedSinks'
<1> SUFFICES ASSUME running' = "yes", NEW e \in Writable, hist'.rows[e] # <<>>,
                    NEW k \in DOMAIN Sinks(e)
             PROVE  /\ ~Throws(Sinks(e)[k])
                    /\ Kind(Sinks(e)[k]) = "gz" => Pieces[Sinks(e)[k]].format \in Streamable
  BY DEF RowsNeedSinks, Writable, Throws, Kind
<1>1. running = "yes" /\ TypeInv
  BY RunsOn DEF CallInv
<1>2. CASE hist.rows[e] # <<>>
  BY <1>1, <1>2 DEF CallInv, RowsNeedSinks
<1>3. CASE hist.rows[e] = <<>>
  <2>1. \E d \in Destinations : Save(d)
    <3>1. hist'.rows # hist.rows
      BY <1>3
    <3>2. ASSUME NEW d \in Destinations, NEW m \in {"Recreate", "Update"}, File(d, m) PROVE FALSE
      <4>1. hist'.rows[e] \in {hist.rows[e], <<>>}
        BY <1>1, <3>2 DEF File, TypeInv, HistOK, Writable
      <4> QED BY <1>3, <4>1
    <3> QED BY <1>1, <3>1, <3>2, SinkSteps
            DEF Next, SinkStep, BuildThrows, BuildEnds, Built, Saved, Close, Closed, vars
  <2>2. PICK d \in Destinations : Save(d)
    BY <2>1
  <2>3. d = e
    BY <1>1, <1>3, <2>2 DEF Save, TypeInv, HistOK, Writable
  <2>4. Stands(e, k)
    BY <2>2, <2>3 DEF Save, Stands
  <2> QED BY <1>1, <2>4 DEF TypeInv, SinksStand, Redirects
<1> QED BY <1>2, <1>3

LEMMA CallStep ==
  ASSUME CallInv, [Next]_vars
  PROVE  CallInv'
  BY TypeStep, BuffersStep, CallsStep, RowsNeedStep DEF CallInv

-----------------------------------------------------------------------------
(***************************************************************************)
(* Every sink gets every row.                                              *)
(***************************************************************************)
\* A gzip sink that stands was counted, and if it is the only one of its format the
\* prototype writes to it.
PrototypeIsHis ==
  running = "yes" =>
    \A d \in Writable : \A k \in DOMAIN Sinks(d) :
      LET p == Sinks(d)[k]
          t == Pieces[p].format
      IN (Stands(d, k) /\ Kind(p) = "gz") =>
           /\ hist.built[t] >= 1
           /\ hist.built[t] = 1 => streamer[t] \in {p, "deleted"}

\* No gzip writer shares its format with another, or there is none of it yet.
NotShared(p) ==
  Kind(p) = "gz" => Pieces[p].format \in Streamable /\ hist.built[Pieces[p].format] <= 1

Fails(d) == \E k \in DOMAIN Sinks(d) : Throws(Sinks(d)[k])

\* What a sink has been given: one in hand of the builder, or behind it, has what an
\* earlier writer left there, and if this one will never be built it keeps that.
Settled(d, k) == (call.op = "build" /\ call.d = d) => (k < call.k \/ Fails(d))

Held(p) == disk[p] \o stream[p]

SinksHave ==
  running = "yes" =>
    \A d \in Writable : \A k \in DOMAIN Sinks(d) :
      LET p == Sinks(d)[k]
      IN (p \in Files /\ NotShared(p) /\ Pieces[p].works /\ Settled(d, k)) =>
           Held(p) = hist.base[p] \o RowsFor(d, k)

SinkInv == CallInv /\ PrototypeIsHis /\ SinksHave

\* A sink that stands stood before, or it was built in this step.
LEMMA StandsStep ==
  ASSUME TypeInv, [Next]_vars, running' = "yes",
         NEW d \in Writable, NEW k \in DOMAIN Sinks(d), Stands(d, k)'
  PROVE  Stands(d, k) \/ (SinkStep /\ At("build") /\ d = call.d /\ k = call.k)
<1>1. CASE SinkStep
  BY <1>1, SinkSteps, StandsOn
<1>2. CASE Built
  BY <1>2, BuiltTypes DEF Built, Stands, NoCall
<1>3. CASE UNCHANGED <<call, open>>
  BY <1>3 DEF Stands
<1>4. CASE call' = NoCall /\ UNCHANGED open
  BY <1>4 DEF Stands, NoCall
<1>5. ASSUME NEW e \in Destinations, NEW m \in {"Recreate", "Update"}, File(e, m)
      PROVE  Stands(d, k)
  <2>1. k \in Nat \ {0}
    BY SinkFacts
  <2> QED BY <1>5, <2>1 DEF File, Stands
<1>6. ASSUME NEW e \in Destinations, Save(e) \/ Close(e)
      PROVE  Stands(d, k)
  BY <1>6 DEF Save, Close, Stands
<1> QED BY <1>1, <1>2, <1>3, <1>4, <1>5, <1>6
        DEF Next, SinkStep, BuildThrows, BuildEnds, Saved, Closed, vars

\* What building a gzip sink does, if it goes on.
LEMMA GzipBuilt ==
  ASSUME TypeInv, BuildGzip, running' = "yes"
  PROVE  /\ Sink \in Files /\ Pieces[Sink].format \in Streamable
         /\ streamer[Pieces[Sink].format] # "deleted"
         /\ streamer' = [streamer EXCEPT ![Pieces[Sink].format] = Sink]
         /\ streamer'[Pieces[Sink].format] = Sink
         /\ \A u \in Streamable : u # Pieces[Sink].format =>
              streamer'[u] = streamer[u] /\ hist'.built[u] = hist.built[u]
         /\ hist'.built[Pieces[Sink].format] = hist.built[Pieces[Sink].format] + 1
         /\ disk' = [disk EXCEPT ![Sink] = <<>>] /\ stream' = [stream EXCEPT ![Sink] = <<>>]
         /\ hist'.base = [hist.base EXCEPT ![Sink] = <<>>]
<1> DEFINE t == Pieces[Sink].format
<1>1. At("build") /\ Kind(Sink) = "gz" /\ disk' = [disk EXCEPT ![Sink] = <<>>]
  BY DEF BuildGzip
<1>2. Sink \in Files
  BY <1>1, SinkInHand DEF Files, Kind
<1>3. /\ t \in Streamable /\ streamer[t] # "deleted"
      /\ streamer' = [streamer EXCEPT ![t] = Sink]
      /\ stream' = [stream EXCEPT ![Sink] = <<>>]
      /\ hist' = [hist EXCEPT !.base[Sink] = <<>>, !.built[t] = @ + 1]
  BY <1>1 DEF BuildGzip, Redirected, At
<1>4. DOMAIN streamer = Streamable
  BY DEF TypeInv, TypeOK
<1>5. hist'.base = [hist.base EXCEPT ![Sink] = <<>>] /\ hist'.built = [hist.built EXCEPT ![t] = @ + 1]
  BY <1>3 DEF TypeInv, HistOK
<1>6. DOMAIN hist.built = Streamable
  BY Types
<1> HIDE DEF t
<1> QED BY <1>1, <1>2, <1>3, <1>4, <1>5, <1>6 DEF t

LEMMA PrototypeStep ==
  ASSUME SinkInv, [Next]_vars
  PROVE  PrototypeIsHis'
<1> SUFFICES ASSUME running' = "yes", NEW d \in Writable, NEW k \in DOMAIN Sinks(d),
                    Stands(d, k)', Kind(Sinks(d)[k]) = "gz"
             PROVE  LET p == Sinks(d)[k]
                        t == Pieces[p].format
                    IN /\ hist'.built[t] >= 1
                       /\ hist'.built[t] = 1 => streamer'[t] \in {p, "deleted"}
  BY DEF PrototypeIsHis, Kind
<1> DEFINE p == Sinks(d)[k]
           t == Pieces[p].format
<1>1. running = "yes" /\ TypeInv /\ p \in Files
  BY RunsOn, SinkFacts DEF SinkInv, CallInv, Files, Kind
<1>2. Stands(d, k) =>
        /\ hist.built[t] >= 1 /\ t \in Streamable
        /\ hist.built[t] = 1 => streamer[t] \in {p, "deleted"}
  BY <1>1 DEF SinkInv, PrototypeIsHis, TypeInv, SinksStand, Redirects
<1>3. ASSUME NEW u \in Streamable PROVE hist.built[u] \in Nat
  BY <1>1, Types
<1>4. CASE BuildGzip
  <2>1. CASE Stands(d, k)
    <3>1. CASE t = Pieces[Sink].format
      <4>1. hist'.built[t] = hist.built[t] + 1
        BY <1>1, <1>4, <3>1, GzipBuilt
      <4> QED BY <1>2, <1>3, <2>1, <4>1
    <3>2. CASE t # Pieces[Sink].format
      <4>1. hist'.built[t] = hist.built[t] /\ streamer'[t] = streamer[t]
        BY <1>1, <1>2, <1>4, <2>1, <3>2, GzipBuilt
      <4> QED BY <1>2, <2>1, <4>1
    <3> QED BY <3>1, <3>2
  <2>2. CASE At("build") /\ d = call.d /\ k = call.k
    <3>1. p = Sink
      BY <2>2 DEF Sink
    <3>2. hist'.built[t] = hist.built[t] + 1 /\ streamer'[t] = p /\ t \in Streamable
      BY <1>1, <1>4, <3>1, GzipBuilt
    <3> QED BY <1>3, <3>2
  <2> QED BY <1>1, <1>4, <2>1, <2>2, StandsStep
<1>5. CASE ~BuildGzip
  <2>1. Stands(d, k)
    <3>1. SUFFICES ASSUME SinkStep, At("build"), d = call.d, k = call.k PROVE FALSE
      BY <1>1, StandsStep
    <3>2. Kind(Sink) = "gz" /\ call.op = "build"
      BY <3>1 DEF Sink, At
    <3> QED BY <1>5, <3>1, <3>2 DEF SinkStep, BuildText, BuildHdf, SaveFile, SaveGzip, CloseFile, CloseGzip, At
  <2>2. hist'.built = hist.built
    BY <1>1, <1>5 DEF Next, vars, File, BuildText, Opened, BuildHdf, BuildThrows, BuildEnds, Built,
         Save, SaveFile, SaveGzip, Saved, Close, CloseFile, CloseGzip, Closed, TypeInv, HistOK
  <2>3. streamer'[t] \in {streamer[t], "deleted"}
    BY <1>1, <1>2, <1>5, <2>1 DEF Next, vars, File, BuildText, BuildHdf, BuildThrows, BuildEnds, Built,
         Save, SaveFile, SaveGzip, Saved, Close, CloseFile, CloseGzip, Closed, TypeInv, TypeOK
  <2> QED BY <1>2, <2>1, <2>2, <2>3
<1> QED BY <1>4, <1>5

LEMMA NotSharedStep ==
  ASSUME TypeInv, [Next]_vars, running' = "yes", NEW p \in Files, NotShared(p)'
  PROVE  NotShared(p)
<1>1. ASSUME NEW t \in Streamable PROVE hist.built[t] <= hist'.built[t]
  <2>1. hist.built[t] \in Nat
    BY Types
  <2>2. CASE BuildGzip
    BY <2>1, <2>2, GzipBuilt
  <2>3. CASE ~BuildGzip
    <3>1. hist'.built = hist.built
      BY <2>3 DEF Next, vars, File, BuildText, Opened, BuildHdf, BuildThrows, BuildEnds, Built,
           Save, SaveFile, SaveGzip, Saved, Close, CloseFile, CloseGzip, Closed, TypeInv, HistOK
    <3> QED BY <2>1, <3>1
  <2> QED BY <2>2, <2>3
<1>2. \A t \in Streamable : hist.built[t] \in Nat /\ hist'.built[t] \in Nat
  BY TypeStep, Types DEF TypeInv, HistOK
<1> QED BY <1>1, <1>2 DEF NotShared, Kind

LEMMA SettledStep ==
  ASSUME TypeInv, [Next]_vars, running' = "yes",
         NEW d \in Writable, NEW k \in DOMAIN Sinks(d), Settled(d, k)'
  PROVE  Settled(d, k) \/ (SinkStep /\ At("build") /\ d = call.d /\ k = call.k)
<1> USE DEF Fails
<1>1. CASE SinkStep
  <2>1. PICK op \in {"build", "save", "close"} : At(op)
    BY <1>1, SinkSteps
  <2>2. /\ call.op = op /\ call'.op = op /\ call'.d = call.d /\ call'.k = call.k + 1
        /\ call.k \in Nat /\ k \in Nat
    BY <1>1, <2>1, SinkSteps, SinkInHand, SinkFacts
  <2> QED BY <1>1, <2>1, <2>2 DEF Settled, Throws, Kind
<1>2. CASE Built
  BY <1>2, BuiltTypes DEF Settled
<1>3. CASE UNCHANGED call
  BY <1>3 DEF Settled, Throws, Kind
<1>4. CASE BuildThrows
  <2>1. At("build") /\ Throws(Sink)
    BY <1>4 DEF BuildThrows
  <2>2. Fails(call.d)
    BY <2>1, SinkInHand
  <2> QED BY <2>2 DEF Settled
<1>5. CASE call.op # "build"
  BY <1>5 DEF Settled
<1> QED BY <1>1, <1>2, <1>3, <1>4, <1>5
        DEF Next, SinkStep, File, Idle, Save, Close, BuildEnds, Saved, Through, Closed, vars

\* Which rows a sink is to have, with the call before and behind it.
LEMMA RowsForOther ==
  ASSUME NEW d, NEW k, call.op # "save" \/ call.d # d
  PROVE  RowsFor(d, k) = hist.rows[d]
  BY DEF RowsFor

LEMMA SinkInHandOnly ==
  ASSUME TypeInv, NEW op \in {"build", "save", "close"}, At(op),
         NEW d \in Writable, NEW k \in DOMAIN Sinks(d), d # call.d \/ k # call.k
  PROVE  Sinks(d)[k] # Sink
<1>1. call.d \in Writable /\ call.k \in DOMAIN Sinks(call.d) /\ Sink = Sinks(call.d)[call.k]
  BY SinkInHand
<1> QED BY <1>1, SinkFacts, SinksApart

\* A sink that is built has what the opening left, and nothing was saved to it.
LEMMA BuildHas ==
  ASSUME SinkInv, [Next]_vars, running' = "yes", BuildText \/ BuildGzip \/ BuildHdf,
         NEW d \in Writable, NEW k \in DOMAIN Sinks(d), Sinks(d)[k] \in Files,
         NotShared(Sinks(d)[k])', Pieces[Sinks(d)[k]].works, Settled(d, k)'
  PROVE  Held(Sinks(d)[k])' = hist'.base[Sinks(d)[k]] \o RowsFor(d, k)'
<1> DEFINE p == Sinks(d)[k]
<1>1. TypeInv /\ running = "yes" /\ At("build") /\ call.op = "build" /\ SinkStep
  BY RunsOn DEF SinkInv, CallInv, BuildText, BuildGzip, BuildHdf, At, SinkStep
<1>2. call'.op = "build" /\ call'.d = call.d /\ UNCHANGED <<hist.rows, hist.saves>>
  BY <1>1, SinkSteps
<1>3. RowsFor(d, k) = hist.rows[d] /\ RowsFor(d, k)' = hist.rows[d]
  BY <1>1, <1>2 DEF RowsFor
<1>4. CASE d = call.d /\ k = call.k
  <2>1. p = Sink /\ hist.rows[d] = <<>>
    BY <1>1, <1>4 DEF Sink, SinkInv, CallInv, CallsMatch
  <2>2. PICK rows \in Seq(Nat) : disk' = [disk EXCEPT ![p] = rows] /\ hist'.base[p] = rows
    <3>1. DOMAIN hist.base = Files /\ Kept(p) \in Seq(Nat) /\ <<>> \in Seq(Nat)
      BY <1>1, Types DEF Kept
    <3>2. CASE BuildText
      <4>1. Opened(p, Kept(p))
        BY <2>1, <3>2, <1>1 DEF BuildText
      <4>2. hist'.base[p] = Kept(p) /\ disk' = [disk EXCEPT ![p] = Kept(p)]
        BY <1>1, <3>1, <4>1 DEF Opened, TypeInv, HistOK
      <4> QED BY <3>1, <4>2
    <3>3. CASE BuildGzip
      BY <1>1, <2>1, <3>1, <3>3, GzipBuilt
    <3>4. CASE BuildHdf
      <4>1. Opened(p, <<>>)
        BY <2>1, <3>4 DEF BuildHdf
      <4>2. hist'.base[p] = <<>> /\ disk' = [disk EXCEPT ![p] = <<>>]
        BY <1>1, <3>1, <4>1 DEF Opened, TypeInv, HistOK
      <4> QED BY <3>1, <4>2
    <3> QED BY <3>2, <3>3, <3>4
  <2>3. stream'[p] = <<>>
    <3>1. DOMAIN stream = Files
      BY <1>1, Types
    <3>2. CASE BuildGzip
      BY <1>1, <2>1, <3>1, <3>2, GzipBuilt
    <3>3. CASE ~BuildGzip
      BY <1>1, <2>1, <3>3 DEF BuildText, BuildHdf, SinkInv, CallInv, BuffersAreOfGzip
    <3> QED BY <3>2, <3>3
  <2>4. disk'[p] = rows
    BY <1>1, <2>2, Types
  <2> QED BY <1>3, <2>1, <2>2, <2>3, <2>4 DEF Held
<1>5. CASE d # call.d \/ k # call.k
  <2>1. p # Sink
    BY <1>1, <1>5, SinkInHandOnly
  <2>2. disk'[p] = disk[p] /\ stream'[p] = stream[p] /\ hist'.base[p] = hist.base[p]
    <3>1. CASE BuildText
      BY <1>1, <2>1, <3>1 DEF BuildText, Opened, TypeInv, HistOK, TypeOK
    <3>2. CASE BuildGzip
      BY <1>1, <2>1, <3>2, GzipBuilt, Types
    <3>3. CASE BuildHdf
      BY <1>1, <2>1, <3>3 DEF BuildHdf, Opened, TypeInv, HistOK, TypeOK
    <3> QED BY <3>1, <3>2, <3>3
  <2>3. Settled(d, k) /\ NotShared(p)
    BY <1>1, <1>5, SettledStep, NotSharedStep
  <2>4. Held(p) = hist.base[p] \o RowsFor(d, k)
    BY <1>1, <2>3 DEF SinkInv, SinksHave
  <2> QED BY <1>3, <2>2, <2>4 DEF Held
<1> QED BY <1>4, <1>5

\* A sink that is written has the row that is saved, behind all others.
LEMMA SaveHas ==
  ASSUME SinkInv, [Next]_vars, running' = "yes", SaveFile \/ SaveGzip,
         NEW d \in Writable, NEW k \in DOMAIN Sinks(d), Sinks(d)[k] \in Files,
         NotShared(Sinks(d)[k])', Pieces[Sinks(d)[k]].works, Settled(d, k)'
  PROVE  Held(Sinks(d)[k])' = hist'.base[Sinks(d)[k]] \o RowsFor(d, k)'
<1> DEFINE p == Sinks(d)[k]
<1>1. /\ TypeInv /\ running = "yes" /\ At("save") /\ call.op = "save" /\ SinkStep
      /\ UNCHANGED hist
  BY RunsOn DEF SinkInv, CallInv, SaveFile, SaveGzip, At, SinkStep
<1>2. /\ call'.op = "save" /\ call'.d = call.d /\ call'.k = call.k + 1 /\ call.k \in Nat /\ k \in Nat
      /\ call.d \in Writable /\ call.k \in DOMAIN Sinks(call.d) /\ Sink = Sinks(call.d)[call.k]
      /\ Stands(call.d, call.k)
  BY <1>1, SinkSteps, SinkInHand, SinkFacts DEF Stands
<1>3. Settled(d, k) /\ NotShared(p)
  BY <1>1, NotSharedStep DEF Settled
<1>4. Held(p) = hist.base[p] \o RowsFor(d, k)
  BY <1>1, <1>3 DEF SinkInv, SinksHave
<1>5. /\ disk[p] \in Seq(Nat) /\ stream[p] \in Seq(Nat) /\ hist.base[p] \in Seq(Nat)
      /\ hist.rows[d] \in Seq(Nat) /\ hist.saves \in Nat /\ DOMAIN disk = Files /\ DOMAIN stream = Files
  BY <1>1, Types DEF Writable
\* A gzip sink that is alone has the prototype for itself.
<1>6. ASSUME Kind(Sink) = "gz", NotShared(p), Target(Sink) # "deleted", Target(Sink) = p \/ Sink = p
      PROVE  Target(Sink) = Sink
  <2>1. /\ Pieces[Sink].format \in Streamable
        /\ Target(Sink) \in Files /\ Kind(Target(Sink)) = "gz"
        /\ Pieces[Target(Sink)].format = Pieces[Sink].format
    BY <1>1, <1>6, GzipInHand
  <2>2. /\ hist.built[Pieces[Sink].format] >= 1
        /\ hist.built[Pieces[Sink].format] = 1 => Target(Sink) \in {Sink, "deleted"}
    BY <1>1, <1>2, <1>6 DEF SinkInv, PrototypeIsHis, Target
  <2>3. hist.built[Pieces[Sink].format] <= 1 /\ hist.built[Pieces[Sink].format] \in Nat
    BY <1>1, <1>6, <2>1, Types DEF NotShared
  <2> QED BY <1>6, <2>2, <2>3
<1>7. CASE d = call.d /\ k = call.k
  <2>1. p = Sink
    BY <1>2, <1>7
  <2>2. Held(p)' = Append(Held(p), hist.saves)
    <3>1. CASE SaveFile
      <4>1. disk'[p] = Append(disk[p], hist.saves) /\ stream'[p] = stream[p] /\ stream[p] = <<>>
        BY <1>1, <1>5, <2>1, <3>1 DEF SaveFile, SinkInv, CallInv, BuffersAreOfGzip
      <4> QED BY <1>5, <4>1 DEF Held
    <3>2. CASE SaveGzip
      <4>1. Target(Sink) # "deleted" /\ Kind(Sink) = "gz"
        BY <1>1, <3>2 DEF SaveGzip
      <4>2. Target(Sink) = p
        BY <1>3, <1>6, <2>1, <4>1
      <4>3. disk'[p] = disk[p] /\ stream'[p] = Append(stream[p], hist.saves)
        BY <1>5, <3>2, <4>1, <4>2 DEF SaveGzip
      <4> QED BY <1>5, <4>3, AppendBehind DEF Held
    <3> QED BY <3>1, <3>2
  <2>3. Len(hist.rows[d]) > 0 /\ hist.rows[d][Len(hist.rows[d])] = hist.saves
    BY <1>1, <1>7 DEF SinkInv, CallInv, CallsMatch
  <2> DEFINE before == SubSeq(hist.rows[d], 1, Len(hist.rows[d]) - 1)
  <2>4. RowsFor(d, k) = before /\ RowsFor(d, k)' = hist.rows[d]
    BY <1>1, <1>2, <1>7 DEF RowsFor
  <2>5. before \in Seq(Nat) /\ hist.rows[d] = Append(before, hist.saves)
    BY <1>5, <2>3, LastBehindFront
  <2> HIDE DEF before
  <2>6. hist.base[p] \o Append(before, hist.saves) = Append(hist.base[p] \o before, hist.saves)
    BY <1>5, <2>5, AppendBehind
  <2> QED BY <1>1, <1>4, <2>2, <2>4, <2>5, <2>6
<1>8. CASE d # call.d \/ k # call.k
  <2>1. p # Sink
    BY <1>1, <1>8, SinkInHandOnly
  <2>2. disk'[p] = disk[p] /\ stream'[p] = stream[p]
    <3>1. CASE SaveFile
      BY <1>5, <2>1, <3>1 DEF SaveFile
    <3>2. CASE SaveGzip
      <4>1. Target(Sink) # "deleted" /\ Kind(Sink) = "gz" /\ disk' = disk
            /\ stream' = [stream EXCEPT ![Target(Sink)] = Append(@, hist.saves)]
        BY <1>1, <3>2 DEF SaveGzip
      <4>2. Target(Sink) # p
        BY <1>3, <1>6, <2>1, <4>1
      <4> QED BY <1>5, <4>1, <4>2
    <3> QED BY <3>1, <3>2
  <2>3. RowsFor(d, k)' = RowsFor(d, k)
    <3>1. d = call.d => ((k >= call.k) = (k >= call.k + 1))
      BY <1>2, <1>8
    <3> QED BY <1>1, <1>2, <3>1 DEF RowsFor
  <2> QED BY <1>1, <1>4, <2>2, <2>3 DEF Held
<1> QED BY <1>7, <1>8

\* The other steps neither give nor take a row.
LEMMA OtherHas ==
  ASSUME SinkInv, [Next]_vars, running' = "yes", ~(BuildText \/ BuildGzip \/ BuildHdf),
         ~(SaveFile \/ SaveGzip),
         NEW d \in Writable, NEW k \in DOMAIN Sinks(d), Sinks(d)[k] \in Files,
         NotShared(Sinks(d)[k])', Pieces[Sinks(d)[k]].works, Settled(d, k)'
  PROVE  Held(Sinks(d)[k])' = hist'.base[Sinks(d)[k]] \o RowsFor(d, k)'
<1> DEFINE p == Sinks(d)[k]
<1>1. TypeInv /\ running = "yes"
  BY RunsOn DEF SinkInv, CallInv
<1>2. /\ disk[p] \in Seq(Nat) /\ stream[p] \in Seq(Nat) /\ hist.base[p] \in Seq(Nat)
      /\ hist.rows[d] \in Seq(Nat) /\ hist.saves \in Nat /\ DOMAIN disk = Files /\ DOMAIN stream = Files
      /\ k \in Nat /\ k >= 1 /\ k <= Len(Sinks(d)) /\ Len(Sinks(d)) \in Nat /\ d \in Destinations
  BY <1>1, Types, SinkFacts DEF Writable
<1>3. Settled(d, k) /\ NotShared(p)
  <2>1. ~(SinkStep /\ At("build"))
    BY DEF SinkStep, At, CloseFile, CloseGzip
  <2> QED BY <1>1, <2>1, SettledStep, NotSharedStep
<1>4. Held(p) = hist.base[p] \o RowsFor(d, k)
  BY <1>1, <1>3 DEF SinkInv, SinksHave
<1>5. Held(p)' = Held(p) /\ hist'.base = hist.base
  <2>1. CASE CloseGzip
    <3>1. UNCHANGED hist
      BY <2>1 DEF CloseGzip
    <3>2. CASE p = Sink
      <4>1. disk'[p] = disk[p] \o stream[p] /\ stream'[p] = <<>>
        BY <1>1, <1>2, <2>1, <3>2 DEF CloseGzip, Flushed
      <4> QED BY <1>2, <3>1, <4>1 DEF Held
    <3>3. CASE p # Sink
      BY <1>2, <2>1, <3>1, <3>3 DEF CloseGzip, Held
    <3> QED BY <3>2, <3>3
  <2>2. CASE ~CloseGzip
    <3>1. UNCHANGED <<disk, stream>>
      BY <2>2 DEF Next, File, BuildThrows, BuildEnds, Built, Save, Saved, Close, CloseFile, Closed, vars
    <3>2. hist'.base = hist.base
      BY <1>1, <2>2 DEF Next, File, BuildThrows, BuildEnds, Built, Save, Saved, Close, CloseFile,
                        Closed, vars, TypeInv, HistOK
    <3> QED BY <3>1, <3>2 DEF Held
  <2> QED BY <2>1, <2>2
<1>6. RowsFor(d, k)' = RowsFor(d, k)
  <2>1. ASSUME NEW e \in Destinations, NEW m \in {"Recreate", "Update"}, File(e, m)
        PROVE  RowsFor(d, k)' = RowsFor(d, k)
    <3>1. call.op # "save" /\ call'.op # "save" /\ call.op = "none"
      BY <2>1 DEF File, Idle
    <3>2. hist'.rows = [hist.rows EXCEPT ![e] = IF e \in open THEN @ ELSE <<>>]
      BY <1>1, <2>1 DEF File, TypeInv, HistOK
    <3>3. hist'.rows[d] = hist.rows[d]
      <4>1. CASE d = e /\ d \notin open
        <5>1. call'.op = "build" /\ call'.d = d /\ call'.k = 1
          BY <2>1, <4>1 DEF File, Writable
        <5>2. Fails(d)
          BY <1>2, <5>1 DEF Settled, Fails, Throws, Kind
        <5>3. hist.rows[d] = <<>>
          BY <1>1, <5>2 DEF Fails, SinkInv, CallInv, RowsNeedSinks
        <5> QED BY <1>1, <1>2, <3>2, <4>1, <5>3, Types
      <4>2. CASE ~(d = e /\ d \notin open)
        BY <1>1, <1>2, <3>2, <4>2, Types
      <4> QED BY <4>1, <4>2
    <3> QED BY <3>1, <3>3 DEF RowsFor
  <2>2. ASSUME NEW e \in Destinations, Save(e)
        PROVE  RowsFor(d, k)' = RowsFor(d, k)
    <3>1. /\ call.op = "none" /\ call'.op = "save" /\ call'.d = e /\ call'.k = 1
      BY <2>2 DEF Save, Idle
    <3>2. hist'.rows = [hist.rows EXCEPT ![e] = Append(@, hist.saves + 1)]
      BY <1>1, <2>2 DEF Save, TypeInv, HistOK
    <3>3. CASE d = e
      <4>1. hist'.rows[d] = Append(hist.rows[d], hist.saves + 1)
        BY <1>1, <1>2, <3>2, <3>3, Types
      <4>2. SubSeq(hist'.rows[d], 1, Len(hist'.rows[d]) - 1) = hist.rows[d]
        BY <1>2, <4>1
      <4> QED BY <1>2, <3>1, <3>3, <4>2 DEF RowsFor
    <3>4. CASE d # e
      BY <1>1, <1>2, <3>1, <3>2, <3>4, Types DEF RowsFor
    <3> QED BY <3>3, <3>4
  <2>3. CASE Saved
    <3>1. call.op = "save" /\ call'.op = "none" /\ UNCHANGED hist /\ call.k > Len(Sinks(call.d))
          /\ call.k \in Nat
      BY <1>1, <2>3 DEF Saved, Through, NoCall, TypeInv, TypeOK, Calls
    <3>2. d = call.d => ~(k >= call.k)
      BY <1>2, <3>1
    <3> QED BY <3>1, <3>2 DEF RowsFor
  <2>4. CASE CloseFile \/ CloseGzip
    BY <1>1, <2>4, SinkSteps DEF SinkStep, CloseFile, CloseGzip, At, RowsFor
  <2>5. CASE Built \/ BuildThrows \/ Closed
    BY <2>5 DEF Built, BuildThrows, Closed, At, Through, NoCall, RowsFor
  <2>6. ASSUME NEW e \in Destinations, Close(e)
        PROVE  RowsFor(d, k)' = RowsFor(d, k)
    BY <2>6 DEF Close, Idle, RowsFor
  <2>7. CASE UNCHANGED <<call, hist>>
    BY <2>7 DEF RowsFor
  <2> QED BY <2>1, <2>2, <2>3, <2>4, <2>5, <2>6, <2>7 DEF Next, BuildEnds, vars
<1> QED BY <1>4, <1>5, <1>6

LEMMA SinkInvStep ==
  ASSUME SinkInv, [Next]_vars
  PROVE  SinkInv'
<1>1. SinksHave'
  <2> SUFFICES ASSUME running' = "yes", NEW d \in Writable, NEW k \in DOMAIN Sinks(d),
                      Sinks(d)[k] \in Files, NotShared(Sinks(d)[k])', Pieces[Sinks(d)[k]].works,
                      Settled(d, k)'
               PROVE  Held(Sinks(d)[k])' = hist'.base[Sinks(d)[k]] \o RowsFor(d, k)'
    BY DEF SinksHave, Files, Kind, Writable
  <2> QED BY BuildHas, SaveHas, OtherHas
<1> QED BY <1>1, CallStep, PrototypeStep DEF SinkInv

LEMMA InitSinks == Init => SinkInv
<1> SUFFICES ASSUME Init PROVE SinkInv
  OBVIOUS
<1>1. CallInv
  BY InitCalls
<1>2. PrototypeIsHis
  BY DEF Init, PrototypeIsHis, Stands, NoCall
<1>3. SinksHave
  <2> SUFFICES ASSUME NEW d \in Writable, NEW k \in DOMAIN Sinks(d), Sinks(d)[k] \in Files
               PROVE  Held(Sinks(d)[k]) = hist.base[Sinks(d)[k]] \o RowsFor(d, k)
    BY DEF SinksHave
  <2> DEFINE p == Sinks(d)[k]
  <2>1. call.op = "none" /\ hist.base = disk /\ stream[p] = <<>> /\ hist.rows[d] = <<>>
    BY DEF Init, NoCall, Writable
  <2>2. RowsFor(d, k) = <<>>
    BY <2>1 DEF RowsFor
  <2> QED BY <2>1, <2>2 DEF Held
<1> QED BY <1>1, <1>2, <1>3 DEF SinkInv

LEMMA SinkInvHolds == Spec => []SinkInv
  BY InitSinks, SinkInvStep, PTL DEF Spec

\* Every tuple that is saved to a destination is in each of its files, once and in
\* order: WriterBuilder and CompositeWriter with sinks of every kind, for destinations
\* of any length.
THEOREM EverySinkTheorem == Spec => []EverySinkGetsEveryRow
<1>1. SinkInv => EverySinkGetsEveryRow
  <2> SUFFICES ASSUME SinkInv, running = "yes", NEW d \in Destinations \ Building,
                      NEW k \in DOMAIN Sinks(d), Sinks(d)[k] \in Files, Alone(Sinks(d)[k]),
                      Pieces[Sinks(d)[k]].works
               PROVE  disk[Sinks(d)[k]] \o stream[Sinks(d)[k]]
                        = hist.base[Sinks(d)[k]] \o RowsFor(d, k)
    BY DEF EverySinkGetsEveryRow
  <2>1. d \in Writable /\ Settled(d, k)
    BY DEF Building, Writable, Settled
  <2>2. NotShared(Sinks(d)[k])
    BY DEF Alone, NotShared
  <2> QED BY <2>1, <2>2 DEF SinkInv, SinksHave, Held
<1> QED BY <1>1, SinkInvHolds, PTL

-----------------------------------------------------------------------------
(***************************************************************************)
(* With several gzip writers of a format no row gets lost, as long as none *)
(* of them is left behind.                                                 *)
(***************************************************************************)
\* No row of this program is in the file or in the buffer.
Blank(p) == stream[p] = <<>> /\ \A j \in DOMAIN disk[p] : disk[p][j] = 0

\* A gzip sink that does not stand has no rows, unless its prototype is deleted; then
\* it will never be built again.  A prototype writes to one that stands.
GzipSinksStand ==
  running = "yes" =>
    \A d \in Writable : \A k \in DOMAIN Sinks(d) :
      LET p == Sinks(d)[k]
          t == Pieces[p].format
      IN (Kind(p) = "gz" /\ t \in Streamable /\ ~LeavesGzip(t)) =>
           /\ Stands(d, k) \/ streamer[t] = "deleted" \/ Blank(p)
           /\ streamer[t] = p => Stands(d, k)
           /\ (call.op = "close" /\ call.d = d /\ k < call.k) => streamer[t] = "deleted"

RowsCounted ==
  running = "yes" => \A d \in Destinations : \A i \in DOMAIN hist.rows[d] : hist.rows[d][i] > 0

IsIn(r, t) ==
  \E q \in Files : /\ Kind(q) = "gz" /\ Pieces[q].format = t
                   /\ \E j \in DOMAIN Held(q) : Held(q)[j] = r

RowsSomewhere ==
  running = "yes" =>
    \A d \in Writable : \A k \in DOMAIN Sinks(d), i \in DOMAIN hist.rows[d] :
      LET p == Sinks(d)[k]
      IN (Kind(p) = "gz" /\ ~LeavesGzip(Pieces[p].format) /\ i <= Len(RowsFor(d, k))) =>
           IsIn(hist.rows[d][i], Pieces[p].format)

GzipInv == SinkInv /\ GzipSinksStand /\ RowsCounted /\ RowsSomewhere

LEMMA DeletedStays ==
  ASSUME TypeInv, [Next]_vars, running' = "yes", NEW t \in Streamable
  PROVE  /\ streamer[t] = "deleted" => streamer'[t] = "deleted"
         /\ streamer'[t] \in {streamer[t], "deleted"} \/ (BuildGzip /\ Pieces[Sink].format = t)
<1>1. DOMAIN streamer = Streamable
  BY DEF TypeInv, TypeOK
<1>2. CASE BuildGzip
  <2>1. CASE Pieces[Sink].format = t
    BY <1>2, <2>1, GzipBuilt
  <2>2. CASE Pieces[Sink].format # t
    BY <1>2, <2>2, GzipBuilt
  <2> QED BY <2>1, <2>2
<1>3. CASE CloseGzip
  BY <1>1, <1>3 DEF CloseGzip
<1>4. CASE UNCHANGED streamer
  BY <1>4
<1> QED BY <1>2, <1>3, <1>4
        DEF Next, vars, File, BuildText, BuildHdf, BuildThrows, BuildEnds, Built,
            Save, SaveFile, SaveGzip, Saved, Close, CloseFile, Closed

\* A gzip sink that stands does so until its prototype is deleted.
LEMMA StandsKept ==
  ASSUME GzipInv, [Next]_vars, running' = "yes",
         NEW d \in Writable, NEW k \in DOMAIN Sinks(d), Stands(d, k),
         Kind(Sinks(d)[k]) = "gz", Pieces[Sinks(d)[k]].format \in Streamable,
         ~LeavesGzip(Pieces[Sinks(d)[k]].format)
  PROVE  Stands(d, k)' \/ streamer'[Pieces[Sinks(d)[k]].format] = "deleted"
<1> DEFINE t == Pieces[Sinks(d)[k]].format
<1>1. TypeInv /\ running = "yes" /\ CallsMatch
  BY RunsOn DEF GzipInv, SinkInv, CallInv
<1>2. CASE SinkStep
  <2>1. PICK op \in {"build", "save", "close"} : At(op)
    BY <1>1, <1>2, SinkSteps
  <2>2. /\ call.op = op /\ call'.op = op /\ call'.d = call.d /\ call'.k = call.k + 1
        /\ call.k \in Nat /\ k \in Nat /\ UNCHANGED open
    BY <1>1, <1>2, <2>1, SinkSteps, SinkInHand, SinkFacts
  <2> QED BY <2>2 DEF Stands
<1>3. CASE BuildThrows
  <2>1. At("build") /\ Throws(Sink) /\ UNCHANGED open
    BY <1>3 DEF BuildThrows
  <2>2. /\ call.op = "build" /\ call.d \in Writable /\ call.k \in DOMAIN Sinks(call.d)
        /\ Sink = Sinks(call.d)[call.k]
    BY <1>1, <2>1, SinkInHand
  <2>3. ~(d = call.d /\ k < call.k)
    BY <2>1, <2>2 DEF LeavesGzip, Writable
  <2> QED BY <2>1, <2>2, <2>3 DEF Stands
<1>4. CASE Closed
  <2>1. CASE call.d = d
    <3>1. call.op = "close" /\ call.k \in Nat /\ call.k > Len(Sinks(d))
      BY <1>1, <1>4, <2>1 DEF Closed, Through, TypeInv, TypeOK, Calls, NoCall
    <3>2. k < call.k
      BY <3>1, SinkFacts
    <3>3. streamer[t] = "deleted"
      BY <1>1, <2>1, <3>1, <3>2 DEF GzipInv, GzipSinksStand
    <3> QED BY <1>1, <3>3, DeletedStays
  <2>2. CASE call.d # d
    BY <1>4, <2>2 DEF Closed, Through, Stands
  <2> QED BY <2>1, <2>2
<1>5. CASE Saved
  BY <1>1, <1>5 DEF Saved, Through, Stands, CallsMatch
<1>6. CASE Built
  BY <1>6 DEF Built, Through, Stands
<1>7. ASSUME NEW e \in Destinations, NEW m \in {"Recreate", "Update"}, File(e, m)
      PROVE  Stands(d, k)'
  BY <1>7 DEF File, Idle, Stands
<1>8. ASSUME NEW e \in Destinations, Save(e) \/ Close(e)
      PROVE  Stands(d, k)'
  BY <1>8 DEF Save, Close, Idle, Stands
<1>9. CASE UNCHANGED vars
  BY <1>9 DEF vars, Stands
<1>10. ~BuildEnds
  BY DEF BuildEnds
<1> QED BY <1>2, <1>3, <1>4, <1>5, <1>6, <1>7, <1>8, <1>9, <1>10 DEF Next, SinkStep

LEMMA GzipSinksStep ==
  ASSUME GzipInv, [Next]_vars
  PROVE  GzipSinksStand'
<1> SUFFICES ASSUME running' = "yes", NEW d \in Writable, NEW k \in DOMAIN Sinks(d),
                    Kind(Sinks(d)[k]) = "gz", Pieces[Sinks(d)[k]].format \in Streamable,
                    ~LeavesGzip(Pieces[Sinks(d)[k]].format)
             PROVE  LET p == Sinks(d)[k]
                        t == Pieces[p].format
                    IN /\ Stands(d, k)' \/ streamer'[t] = "deleted" \/ Blank(p)'
                       /\ streamer'[t] = p => Stands(d, k)'
                       /\ (call'.op = "close" /\ call'.d = d /\ k < call'.k) => streamer'[t] = "deleted"
  BY DEF GzipSinksStand, Kind, LeavesGzip, Throws
<1> DEFINE p == Sinks(d)[k]
           t == Pieces[p].format
<1>1. TypeInv /\ running = "yes" /\ p \in Files /\ "deleted" \notin Files
  BY RunsOn, SinkFacts, FilesAre, DestinationsAssumption DEF GzipInv, SinkInv, CallInv, Files, Kind
<1>2. /\ Stands(d, k) \/ streamer[t] = "deleted" \/ Blank(p)
      /\ streamer[t] = p => Stands(d, k)
      /\ (call.op = "close" /\ call.d = d /\ k < call.k) => streamer[t] = "deleted"
  BY <1>1 DEF GzipInv, GzipSinksStand
<1>3. streamer[t] = "deleted" => streamer'[t] = "deleted"
  BY <1>1, DeletedStays
<1>4. Stands(d, k) => Stands(d, k)' \/ streamer'[t] = "deleted"
  BY <1>1, StandsKept
<1>5. DOMAIN disk = Files /\ DOMAIN stream = Files
  BY <1>1, Types
\* The sink in hand of the builder stands behind the step.
<1>6. ASSUME BuildGzip, Sink = p PROVE Stands(d, k)'
  <2>1. At("build") /\ SinkStep
    BY <1>6 DEF BuildGzip, SinkStep
  <2>2. d = call.d /\ k = call.k
    BY <1>1, <1>6, <2>1, SinkInHandOnly
  <2>3. call'.op = "build" /\ call'.d = d /\ call'.k = k + 1 /\ k \in Nat
    BY <1>1, <2>1, <2>2, SinkSteps, SinkInHand
  <2> QED BY <2>3 DEF Stands
<1>7. Stands(d, k)' \/ streamer'[t] = "deleted" \/ Blank(p)'
  <2> SUFFICES ASSUME ~Stands(d, k), streamer[t] # "deleted", Blank(p), ~Stands(d, k)'
               PROVE  streamer'[t] = "deleted" \/ Blank(p)'
    BY <1>2, <1>3, <1>4
  <2>1. CASE disk'[p] = disk[p] /\ stream'[p] = stream[p]
    BY <2>1 DEF Blank
  <2>2. CASE BuildGzip
    BY <1>1, <1>5, <1>6, <2>1, <2>2, GzipBuilt
  <2>3. CASE BuildText \/ BuildHdf
    <3>1. Sink # p
      BY <2>3 DEF BuildText, BuildHdf
    <3>2. disk'[p] = disk[p] /\ stream'[p] = stream[p]
      BY <1>1, <1>5, <2>3, <3>1 DEF BuildText, BuildHdf, Opened
    <3> QED BY <2>1, <3>2
  <2>4. CASE SaveFile
    <3>1. Sink # p
      BY <2>4 DEF SaveFile
    <3>2. disk'[p] = disk[p] /\ stream'[p] = stream[p]
      BY <1>1, <1>5, <2>4, <3>1 DEF SaveFile
    <3> QED BY <2>1, <3>2
  <2>5. CASE SaveGzip
    <3>1. At("save") /\ Kind(Sink) = "gz"
      BY <2>5 DEF SaveGzip
    <3>2. Target(Sink) # p
      BY <1>1, <1>2, <3>1, GzipInHand DEF Target
    <3>3. disk'[p] = disk[p] /\ stream'[p] = stream[p]
      BY <1>1, <1>5, <2>5, <3>2 DEF SaveGzip
    <3> QED BY <2>1, <3>3
  <2>6. CASE CloseGzip
    <3>1. CASE Sink = p
      <4>1. streamer'[t] = "deleted"
        BY <1>1, <2>6, <3>1 DEF CloseGzip, TypeInv, TypeOK
      <4> QED BY <4>1
    <3>2. CASE Sink # p
      <4>1. disk'[p] = disk[p] /\ stream'[p] = stream[p]
        BY <1>1, <1>5, <2>6, <3>2 DEF CloseGzip
      <4> QED BY <2>1, <4>1
    <3> QED BY <3>1, <3>2
  <2>7. CASE UNCHANGED <<disk, stream>>
    BY <2>1, <2>7
  <2> QED BY <2>2, <2>3, <2>4, <2>5, <2>6, <2>7
          DEF Next, vars, File, BuildThrows, BuildEnds, Built, Save, Saved, Close, CloseFile, Closed
<1>8. streamer'[t] = p => Stands(d, k)'
  <2> SUFFICES ASSUME streamer'[t] = p PROVE Stands(d, k)'
    OBVIOUS
  <2>1. CASE BuildGzip /\ Pieces[Sink].format = t
    BY <1>1, <1>6, <2>1, GzipBuilt
  <2>2. CASE streamer'[t] \in {streamer[t], "deleted"}
    BY <1>1, <1>2, <1>4, <2>2
  <2> QED BY <1>1, <2>1, <2>2, DeletedStays
<1>9. ASSUME call'.op = "close", call'.d = d, k < call'.k
      PROVE  streamer'[t] = "deleted"
  <2>1. CASE SinkStep
    <3>1. PICK op \in {"build", "save", "close"} : At(op)
      BY <1>1, <2>1, SinkSteps
    <3>2. /\ call.op = op /\ call'.op = op /\ call'.d = call.d /\ call'.k = call.k + 1
          /\ call.k \in Nat /\ k \in Nat /\ Sink = Sinks(call.d)[call.k]
      BY <1>1, <2>1, <3>1, SinkSteps, SinkInHand, SinkFacts
    <3>3. CASE k < call.k
      BY <1>2, <1>3, <1>9, <3>2, <3>3
    <3>4. CASE k = call.k
      <4>1. Sink = p /\ call.op = "close"
        BY <1>9, <3>2, <3>4
      <4>2. CloseGzip
        BY <2>1, <4>1 DEF SinkStep, BuildText, BuildGzip, BuildHdf, SaveFile, SaveGzip, CloseFile, At
      <4> QED BY <1>1, <4>1, <4>2 DEF CloseGzip, TypeInv, TypeOK
    <3> QED BY <1>9, <3>2, <3>3, <3>4
  <2>2. ASSUME NEW e \in Destinations, Close(e)
        PROVE  FALSE
    <3>1. call'.k = 1 /\ k \in Nat \ {0}
      BY <2>2, SinkFacts DEF Close
    <3> QED BY <1>9, <3>1
  <2>3. CASE UNCHANGED call
    BY <1>2, <1>3, <1>9, <2>3
  <2>4. ASSUME NEW e \in Destinations, NEW m \in {"Recreate", "Update"}, File(e, m)
        PROVE  FALSE
    BY <1>9, <2>4 DEF File, Idle
  <2>5. CASE call' = NoCall
    BY <1>9, <2>5 DEF NoCall
  <2>6. ASSUME NEW e \in Destinations, Save(e)
        PROVE  FALSE
    BY <1>9, <2>6 DEF Save
  <2> QED BY <2>1, <2>2, <2>3, <2>4, <2>5, <2>6
          DEF Next, SinkStep, vars, BuildThrows, BuildEnds, Built, Saved, Closed
<1> QED BY <1>7, <1>8, <1>9

LEMMA RowsCountedStep ==
  ASSUME GzipInv, [Next]_vars
  PROVE  RowsCounted'
<1> SUFFICES ASSUME running' = "yes", NEW d \in Destinations, NEW i \in DOMAIN hist'.rows[d]
             PROVE  hist'.rows[d][i] > 0
  BY DEF RowsCounted
<1>1. TypeInv /\ running = "yes"
  BY RunsOn DEF GzipInv, SinkInv, CallInv
<1>2. /\ hist.rows \in [Destinations -> Seq(Nat)] /\ hist.saves \in Nat
      /\ \A j \in DOMAIN hist.rows[d] : hist.rows[d][j] > 0
  BY <1>1, Types DEF GzipInv, RowsCounted
<1>3. CASE hist'.rows[d] \in {hist.rows[d], <<>>}
  BY <1>2, <1>3
<1>4. ASSUME NEW e \in Destinations, Save(e), hist'.rows[d] # hist.rows[d]
      PROVE  hist'.rows[d][i] > 0
  <2>1. hist'.rows = [hist.rows EXCEPT ![e] = Append(@, hist.saves + 1)]
    BY <1>1, <1>4 DEF Save, TypeInv, HistOK
  <2>2. hist'.rows[d] = Append(hist.rows[d], hist.saves + 1) /\ hist.rows[d] \in Seq(Nat)
    BY <1>2, <1>4, <2>1
  <2> QED BY <1>2, <2>2
<1>5. ASSUME NEW e \in Destinations, NEW m \in {"Recreate", "Update"}, File(e, m)
      PROVE  hist'.rows[d] \in {hist.rows[d], <<>>}
  BY <1>1, <1>5 DEF File, TypeInv, HistOK
<1>6. CASE UNCHANGED hist
  BY <1>3, <1>6
<1>7. CASE SinkStep
  BY <1>1, <1>3, <1>7, SinkSteps
<1> QED BY <1>3, <1>4, <1>5, <1>6, <1>7
        DEF Next, SinkStep, vars, BuildThrows, BuildEnds, Built, Saved, Close, Closed

\* A row that a gzip sink is to have was asked of it before, unless it is the one that
\* is written in this step.
LEMMA RowsGrow ==
  ASSUME GzipInv, [Next]_vars, running' = "yes",
         NEW d \in Writable, NEW k \in DOMAIN Sinks(d), Kind(Sinks(d)[k]) = "gz",
         NEW i \in DOMAIN hist'.rows[d], i <= Len(RowsFor(d, k)')
  PROVE  \/ /\ i \in DOMAIN hist.rows[d] /\ i <= Len(RowsFor(d, k))
            /\ hist'.rows[d][i] = hist.rows[d][i]
         \/ /\ SaveGzip /\ d = call.d /\ k = call.k /\ hist'.rows[d][i] = hist.saves
<1>1. TypeInv /\ running = "yes" /\ CallsMatch
  BY RunsOn DEF GzipInv, SinkInv, CallInv
<1>2. /\ hist.rows \in [Destinations -> Seq(Nat)] /\ hist.saves \in Nat
      /\ hist.rows[d] \in Seq(Nat) /\ d \in Destinations
      /\ k \in Nat /\ k >= 1 /\ k <= Len(Sinks(d)) /\ Len(Sinks(d)) \in Nat
  BY <1>1, Types, SinkFacts DEF Writable
<1>3. CASE UNCHANGED hist.rows /\ RowsFor(d, k)' = RowsFor(d, k)
  BY <1>3
<1>4. CASE SinkStep
  <2>1. PICK op \in {"build", "save", "close"} : At(op)
    BY <1>1, <1>4, SinkSteps
  <2>2. /\ call.op = op /\ call'.op = op /\ call'.d = call.d /\ call'.k = call.k + 1
        /\ call.k \in Nat /\ UNCHANGED <<hist.rows, hist.saves>> /\ Sink = Sinks(call.d)[call.k]
    BY <1>1, <1>4, <2>1, SinkSteps, SinkInHand, SinkFacts
  <2>3. CASE op = "save" /\ d = call.d /\ k = call.k
    <3>1. SaveGzip
      BY <1>4, <2>1, <2>2, <2>3
         DEF SinkStep, BuildText, BuildGzip, BuildHdf, SaveFile, CloseFile, CloseGzip, At
    <3>2. Len(hist.rows[d]) > 0 /\ hist.rows[d][Len(hist.rows[d])] = hist.saves
      BY <1>1, <2>2, <2>3 DEF CallsMatch
    <3>3. RowsFor(d, k) = SubSeq(hist.rows[d], 1, Len(hist.rows[d]) - 1)
      BY <1>2, <2>2, <2>3 DEF RowsFor
    <3>4. Len(RowsFor(d, k)) = Len(hist.rows[d]) - 1
      BY <1>2, <3>2, <3>3
    <3>5. i \in 1 .. Len(hist.rows[d]) /\ Len(hist.rows[d]) \in Nat
      BY <1>2, <2>2
    <3>6. i = Len(hist.rows[d]) \/ i <= Len(RowsFor(d, k))
      BY <3>4, <3>5
    <3> QED BY <2>2, <2>3, <3>1, <3>2, <3>6
  <2>4. CASE ~(op = "save" /\ d = call.d /\ k = call.k)
    <3>1. d = call.d /\ op = "save" => ((k >= call.k) = (k >= call.k + 1))
      BY <1>2, <2>2, <2>4
    <3>2. RowsFor(d, k)' = RowsFor(d, k)
      BY <2>2, <3>1 DEF RowsFor
    <3> QED BY <1>3, <2>2, <3>2
  <2> QED BY <2>3, <2>4
<1>5. ASSUME NEW e \in Destinations, NEW m \in {"Recreate", "Update"}, File(e, m)
      PROVE  i \in DOMAIN hist.rows[d] /\ i <= Len(RowsFor(d, k))
             /\ hist'.rows[d][i] = hist.rows[d][i]
  <2>1. hist'.rows[d] \in {hist.rows[d], <<>>} /\ call.op # "save" /\ call'.op # "save"
    BY <1>1, <1>5 DEF File, Idle, TypeInv, HistOK
  <2>2. hist'.rows[d] = hist.rows[d]
    BY <2>1
  <2> QED BY <2>1, <2>2 DEF RowsFor
<1>6. ASSUME NEW e \in Destinations, Save(e)
      PROVE  i \in DOMAIN hist.rows[d] /\ i <= Len(RowsFor(d, k))
             /\ hist'.rows[d][i] = hist.rows[d][i]
  <2>1. /\ call.op = "none" /\ call'.op = "save" /\ call'.d = e /\ call'.k = 1
    BY <1>6 DEF Save, Idle
  <2>2. hist'.rows = [hist.rows EXCEPT ![e] = Append(@, hist.saves + 1)]
    BY <1>1, <1>6 DEF Save, TypeInv, HistOK
  <2>3. RowsFor(d, k) = hist.rows[d]
    BY <2>1 DEF RowsFor
  <2>4. CASE d = e
    <3>1. hist'.rows[d] = Append(hist.rows[d], hist.saves + 1)
      BY <1>2, <2>2, <2>4
    <3>2. SubSeq(hist'.rows[d], 1, Len(hist'.rows[d]) - 1) = hist.rows[d]
      BY <1>2, <3>1
    <3>3. RowsFor(d, k)' = hist.rows[d]
      BY <1>2, <2>1, <2>4, <3>2 DEF RowsFor
    <3>4. i \in 1 .. Len(hist.rows[d]) + 1 /\ i <= Len(hist.rows[d])
      BY <1>2, <3>1, <3>3
    <3>5. hist'.rows[d][i] = hist.rows[d][i]
      BY <1>2, <3>1, <3>4
    <3> QED BY <1>2, <2>3, <3>4, <3>5
  <2>5. CASE d # e
    <3>1. hist'.rows[d] = hist.rows[d]
      BY <1>2, <2>2, <2>5
    <3> QED BY <2>1, <2>3, <2>5, <3>1 DEF RowsFor
  <2> QED BY <2>4, <2>5
<1>7. CASE Saved
  <2>1. call.op = "save" /\ call'.op = "none" /\ UNCHANGED hist /\ call.k > Len(Sinks(call.d))
        /\ call.k \in Nat
    BY <1>1, <1>7 DEF Saved, Through, NoCall, TypeInv, TypeOK, Calls
  <2>2. d = call.d => ~(k >= call.k)
    BY <1>2, <2>1
  <2>3. RowsFor(d, k)' = RowsFor(d, k)
    BY <2>1, <2>2 DEF RowsFor
  <2> QED BY <1>3, <2>1, <2>3
<1>8. CASE Built \/ BuildThrows \/ Closed
  BY <1>3, <1>8 DEF Built, BuildThrows, Closed, At, Through, NoCall, RowsFor
<1>9. ASSUME NEW e \in Destinations, Close(e)
      PROVE  UNCHANGED hist.rows /\ RowsFor(d, k)' = RowsFor(d, k)
  BY <1>9 DEF Close, Idle, RowsFor
<1>10. CASE UNCHANGED <<call, hist>>
  BY <1>3, <1>10 DEF RowsFor
<1> QED BY <1>3, <1>4, <1>5, <1>6, <1>7, <1>8, <1>9, <1>10 DEF Next, SinkStep, BuildEnds, vars

\* A row that is in a gzip file of a format, or on its way there, stays.
LEMMA RowStays ==
  ASSUME GzipInv, [Next]_vars, running' = "yes", NEW t \in Streamable, ~LeavesGzip(t),
         NEW r \in Nat \ {0}, IsIn(r, t)
  PROVE  IsIn(r, t)'
<1>1. TypeInv /\ running = "yes" /\ CallsMatch
  BY RunsOn DEF GzipInv, SinkInv, CallInv
<1>2. PICK q \in Files : Kind(q) = "gz" /\ Pieces[q].format = t /\ \E j \in DOMAIN Held(q) : Held(q)[j] = r
  BY DEF IsIn
<1>3. PICK j \in DOMAIN Held(q) : Held(q)[j] = r
  BY <1>2
<1>4. /\ disk[q] \in Seq(Nat) /\ stream[q] \in Seq(Nat) /\ hist.saves \in Nat
      /\ DOMAIN disk = Files /\ DOMAIN stream = Files
  BY <1>1, Types
<1>5. Held(q) \in Seq(Nat)
  BY <1>4 DEF Held
<1> SUFFICES ASSUME TRUE PROVE j \in DOMAIN Held(q)' /\ Held(q)'[j] = r
  BY <1>2 DEF IsIn, Files, Kind
<1>6. CASE disk'[q] = disk[q] /\ stream'[q] = stream[q]
  <2>1. Held(q)' = Held(q)
    BY <1>6 DEF Held
  <2> QED BY <1>3, <2>1
<1>7. CASE BuildGzip
  <2>1. CASE Sink = q
    <3>1. /\ call.op = "build" /\ call.d \in Writable /\ call.k \in DOMAIN Sinks(call.d)
          /\ q = Sinks(call.d)[call.k] /\ call.k \in Nat
      BY <1>1, <1>7, <2>1, SinkInHand, SinkFacts DEF BuildGzip
    <3>2. ~Stands(call.d, call.k)
      BY <1>1, <3>1 DEF Stands, CallsMatch
    <3>3. streamer[t] # "deleted"
      BY <1>1, <1>2, <1>7, <2>1, GzipBuilt
    <3>4. Blank(q)
      BY <1>1, <1>2, <3>1, <3>2, <3>3 DEF GzipInv, GzipSinksStand
    <3>5. Held(q) = disk[q]
      BY <1>4, <3>4 DEF Blank, Held
    <3> QED BY <1>3, <3>4, <3>5 DEF Blank
  <2>2. CASE Sink # q
    <3>1. disk'[q] = disk[q] /\ stream'[q] = stream[q]
      BY <1>1, <1>4, <1>7, <2>2, GzipBuilt
    <3> QED BY <1>6, <3>1
  <2> QED BY <2>1, <2>2
<1>8. CASE BuildText \/ BuildHdf
  <2>1. Sink # q
    BY <1>2, <1>8 DEF BuildText, BuildHdf
  <2>2. disk'[q] = disk[q] /\ stream'[q] = stream[q]
    BY <1>4, <1>8, <2>1 DEF BuildText, BuildHdf, Opened
  <2> QED BY <1>6, <2>2
<1>9. CASE SaveFile
  <2>1. Sink # q
    BY <1>2, <1>9 DEF SaveFile
  <2>2. disk'[q] = disk[q] /\ stream'[q] = stream[q]
    BY <1>4, <1>9, <2>1 DEF SaveFile
  <2> QED BY <1>6, <2>2
<1>10. CASE SaveGzip
  <2>1. /\ stream' = [stream EXCEPT ![Target(Sink)] = Append(@, hist.saves)] /\ disk' = disk
    BY <1>1, <1>10 DEF SaveGzip
  <2>2. CASE Target(Sink) = q
    <3>1. Held(q)' = Append(Held(q), hist.saves)
      BY <1>4, <2>1, <2>2, AppendBehind DEF Held
    <3> QED BY <1>3, <1>4, <1>5, <3>1
  <2>3. CASE Target(Sink) # q
    BY <1>4, <1>6, <2>1, <2>3
  <2> QED BY <2>2, <2>3
<1>11. CASE CloseGzip
  <2>1. CASE Sink = q
    <3>1. disk'[q] = disk[q] \o stream[q] /\ stream'[q] = <<>>
      BY <1>1, <1>4, <1>11, <2>1 DEF CloseGzip, Flushed
    <3>2. Held(q)' = Held(q)
      BY <1>4, <3>1, AppendBehind DEF Held
    <3> QED BY <1>3, <3>2
  <2>2. CASE Sink # q
    <3>1. disk'[q] = disk[q] /\ stream'[q] = stream[q]
      BY <1>1, <1>4, <1>11, <2>2 DEF CloseGzip
    <3> QED BY <1>6, <3>1
  <2> QED BY <2>1, <2>2
<1>12. CASE UNCHANGED <<disk, stream>>
  BY <1>6, <1>12
<1> QED BY <1>7, <1>8, <1>9, <1>10, <1>11, <1>12
        DEF Next, vars, File, BuildThrows, BuildEnds, Built, Save, Saved, Close, CloseFile, Closed

LEMMA RowsSomewhereStep ==
  ASSUME GzipInv, [Next]_vars
  PROVE  RowsSomewhere'
<1> SUFFICES ASSUME running' = "yes", NEW d \in Writable, NEW k \in DOMAIN Sinks(d),
                    NEW i \in DOMAIN hist'.rows[d], Kind(Sinks(d)[k]) = "gz",
                    ~LeavesGzip(Pieces[Sinks(d)[k]].format), i <= Len(RowsFor(d, k)')
             PROVE  IsIn(hist.rows[d][i], Pieces[Sinks(d)[k]].format)'
  BY DEF RowsSomewhere, Kind, LeavesGzip, Throws, Writable
<1> DEFINE t == Pieces[Sinks(d)[k]].format
<1>1. TypeInv /\ running = "yes"
  BY RunsOn DEF GzipInv, SinkInv, CallInv
<1>2. CASE /\ i \in DOMAIN hist.rows[d] /\ i <= Len(RowsFor(d, k))
           /\ hist'.rows[d][i] = hist.rows[d][i]
  <2>1. PICK r : r = hist.rows[d][i]
    OBVIOUS
  <2>2. IsIn(r, t)
    BY <1>1, <1>2, <2>1 DEF GzipInv, RowsSomewhere
  <2>3. r \in Nat \ {0} /\ hist.rows[d] # <<>>
    BY <1>1, <1>2, <2>1, Types DEF GzipInv, RowsCounted, Writable
  <2>4. t \in Streamable
    BY <1>1, <2>3 DEF GzipInv, SinkInv, CallInv, RowsNeedSinks
  <2>5. IsIn(r, t)'
    BY <2>2, <2>3, <2>4, RowStays
  <2>6. r = hist'.rows[d][i]
    BY <1>2, <2>1
  <2> QED BY <2>5, <2>6
<1>3. CASE SaveGzip /\ d = call.d /\ k = call.k /\ hist'.rows[d][i] = hist.saves
  <2>1. /\ At("save") /\ disk' = disk
        /\ stream' = [stream EXCEPT ![Target(Sink)] = Append(@, hist.saves)]
        /\ Target(Sink) # "deleted"
    BY <1>1, <1>3 DEF SaveGzip
  <2>2. Sink = Sinks(d)[k]
    BY <1>3 DEF Sink
  <2>3. PICK q \in Files : q = Target(Sink) /\ Kind(q) = "gz" /\ Pieces[q].format = t
    BY <1>1, <2>1, <2>2, GzipInHand
  <2>4. /\ disk[q] \in Seq(Nat) /\ stream[q] \in Seq(Nat) /\ hist.saves \in Nat /\ DOMAIN stream = Files
    BY <1>1, Types
  <2>5. Held(q)' = Append(Held(q), hist.saves) /\ Held(q) \in Seq(Nat)
    <3>1. disk'[q] = disk[q] /\ stream'[q] = Append(stream[q], hist.saves)
      BY <2>1, <2>3, <2>4
    <3>2. disk[q] \o Append(stream[q], hist.saves) = Append(disk[q] \o stream[q], hist.saves)
      BY <2>4, AppendBehind
    <3>3. disk[q] \o stream[q] \in Seq(Nat)
      BY <2>4
    <3> QED BY <3>1, <3>2, <3>3 DEF Held
  <2>6. Len(Held(q)) + 1 \in DOMAIN Held(q)' /\ Held(q)'[Len(Held(q)) + 1] = hist.saves
    BY <2>4, <2>5
  <2>7. \E j \in DOMAIN Held(q)' : Held(q)'[j] = hist'.rows[d][i]
    BY <1>3, <2>6
  <2> QED BY <2>3, <2>7 DEF IsIn, Files, Kind
<1> QED BY <1>2, <1>3, RowsGrow

LEMMA GzipInvStep ==
  ASSUME GzipInv, [Next]_vars
  PROVE  GzipInv'
  BY SinkInvStep, GzipSinksStep, RowsCountedStep, RowsSomewhereStep DEF GzipInv

LEMMA InitGzip == Init => GzipInv
<1> SUFFICES ASSUME Init PROVE GzipInv
  OBVIOUS
<1>1. \A d \in Destinations : hist.rows[d] = <<>>
  BY DEF Init
<1>2. \A p \in Files : Blank(p)
  BY DEF Init, Blank
<1>3. GzipSinksStand
  <2> SUFFICES ASSUME NEW d \in Writable, NEW k \in DOMAIN Sinks(d), Kind(Sinks(d)[k]) = "gz",
                      Pieces[Sinks(d)[k]].format \in Streamable
               PROVE  /\ Blank(Sinks(d)[k])
                      /\ streamer[Pieces[Sinks(d)[k]].format] # Sinks(d)[k]
                      /\ call.op # "close"
    BY DEF GzipSinksStand
  <2>1. Sinks(d)[k] \in Files /\ Sinks(d)[k] # "nowhere"
    BY SinkFacts, DestinationsAssumption DEF Files, Kind
  <2> QED BY <1>2, <2>1 DEF Init, NoCall
<1> QED BY <1>1, <1>3, InitSinks DEF GzipInv, RowsCounted, RowsSomewhere, Writable

LEMMA GzipInvHolds == Spec => []GzipInv
  BY InitGzip, GzipInvStep, PTL DEF Spec

\* With several gzip writers of a format the rows of one are in another's file, but in
\* one: GzipWriter with the prototypes it shares, for any number of writers and formats.
THEOREM GzipRowsTheorem == Spec => []GzipRowsAreSomewhere
<1>1. GzipInv => GzipRowsAreSomewhere
  BY DEF GzipInv, RowsSomewhere, GzipRowsAreSomewhere, IsIn, Held, Building, Writable
<1> QED BY <1>1, GzipInvHolds, PTL
=============================================================================
