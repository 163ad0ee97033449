--------------------------- MODULE MultiTypeProofs ---------------------------
(***************************************************************************)
(* Proofs about MultiType, for all numbers and texts.                      *)
(***************************************************************************)
EXTENDS MultiType, TLAPS, SequenceTheorems

(***************************************************************************)
(* Types.                                                                  *)
(***************************************************************************)
LEMMA PartsType ==
  ASSUME NEW d \in Nat
  PROVE  /\ PointedPart(d) \in Parts /\ DoublePart(d) \in Parts /\ LongPart(d) \in Parts
         /\ Truncated(d) \in Nat
<1>1. Truncated(d) \in Nat
  BY DEF Truncated
<1>2. PointedPart(d) \in Parts
  BY <1>1 DEF PointedPart, Parts
<1>3. ASSUME NEW i \in Nat PROVE LongPart(i) \in Parts
  <2>1. 2 * i \in Nat
    OBVIOUS
  <2> QED BY <2>1 DEF LongPart, Parts
<1>4. DoublePart(d) \in Parts
  BY <1>1, <1>2, <1>3 DEF DoublePart
<1> QED BY <1>1, <1>2, <1>3, <1>4

LEMMA WordPartType == ASSUME NEW w \in Words PROVE WordPart(w) \in Parts
BY DEF WordPart, Parts

LEMMA ConversionsType ==
  ASSUME NEW s \in Seq(Parts)
  PROVE  /\ Atof(s) \in Nat /\ Atoi(s) \in Nat
         /\ [i \in DOMAIN s |-> s[i].num] \in Seq(Nat)
         /\ [i \in DOMAIN s |-> s[i].lead] \in Seq(Nat)
<1>1. DOMAIN s = 1 .. Len(s) /\ Len(s) \in Nat /\ \A i \in 1 .. Len(s) : s[i] \in Parts
  BY ElementOfSeq, LenProperties
<1>2. \A i \in 1 .. Len(s) : s[i].num \in Nat /\ s[i].lead \in Nat
  BY <1>1 DEF Parts
<1>3. s # <<>> => 1 \in 1 .. Len(s)
  BY EmptySeq
<1>4. Atof(s) \in Nat /\ Atoi(s) \in Nat
  BY <1>2, <1>3 DEF Atof, Atoi
<1>5. [i \in DOMAIN s |-> s[i].num] \in Seq(Nat)
  BY <1>1, <1>2, IsASeq
<1>6. [i \in DOMAIN s |-> s[i].lead] \in Seq(Nat)
  BY <1>1, <1>2, IsASeq
<1> QED BY <1>4, <1>5, <1>6

LEMMA PrintedType ==
  ASSUME NEW v \in Seq(Nat)
  PROVE  /\ [i \in DOMAIN v |-> DoublePart(v[i])] \in Seq(Parts)
         /\ [i \in DOMAIN v |-> LongPart(v[i])] \in Seq(Parts)
<1>1. DOMAIN v = 1 .. Len(v) /\ Len(v) \in Nat /\ \A i \in 1 .. Len(v) : v[i] \in Nat
  BY ElementOfSeq, LenProperties
<1>2. \A i \in 1 .. Len(v) : DoublePart(v[i]) \in Parts /\ LongPart(v[i]) \in Parts
  BY <1>1, PartsType
<1> QED BY <1>1, <1>2, IsASeq

LEMMA EmptyType == Empty \in MultiTypes
<1>1. WordPart("undef") \in Parts
  BY WordPartType, TextsAssumption
<1>2. <<WordPart("undef")>> \in Seq(Parts)
  BY <1>1
<1> QED BY <1>2 DEF Empty, MultiTypes, Types, Kinds

LEMMA VectorsType ==
  ASSUME NEW S, S \subseteq Nat, NEW v \in Vectors(S) PROVE v \in Seq(Nat)
<1>1. PICK n \in 0 .. MaxLen : v \in [1 .. n -> S]
  BY DEF Vectors
<1>2. n \in Nat
  BY NumbersAssumption
<1>3. v \in [1 .. n -> Nat]
  BY <1>1
<1> QED BY <1>2, <1>3, IsASeq

LEMMA AssignedType == ASSUME NEW m \in Assigned PROVE m \in MultiTypes
<1> USE EmptyType, NumbersAssumption
<1>1. \A d \in Doubles : FromDouble(d) \in MultiTypes
  BY DEF FromDouble, MultiTypes, Types, Kinds
<1>2. \A i \in Longs : FromLong(i) \in MultiTypes
  BY DEF FromLong, MultiTypes, Types, Kinds
<1>3. \A b \in BOOLEAN : FromBool(b) \in MultiTypes
  BY DEF FromBool, MultiTypes, Types, Kinds
<1>4. \A s \in Texts : FromString(s) \in MultiTypes
  BY TextsAssumption DEF FromString, MultiTypes, Types, Kinds
<1>5. \A v \in Vectors(Doubles) : FromDoubleVec(v) \in MultiTypes
  BY VectorsType DEF FromDoubleVec, MultiTypes, Types, Kinds
<1>6. \A v \in Vectors(Longs) : FromIntVec(v) \in MultiTypes
  BY VectorsType DEF FromIntVec, MultiTypes, Types, Kinds
<1> QED BY <1>1, <1>2, <1>3, <1>4, <1>5, <1>6 DEF Assigned

LEMMA ReadsType ==
  ASSUME NEW m \in MultiTypes
  PROVE  /\ AsDouble(m) \in MultiTypes /\ AsLong(m) \in MultiTypes
         /\ AsDoubleVector(m) \in MultiTypes /\ AsIntVector(m) \in MultiTypes
         /\ AsString(m) \in MultiTypes
<1>0. /\ m.theDouble \in Nat /\ m.theInt \in Nat /\ m.theString \in Seq(Parts)
      /\ m.theDoubleVec \in Seq(Nat) /\ m.theIntVec \in Seq(Nat)
  BY DEF MultiTypes
<1>1. AsDouble(m) \in MultiTypes
  <2>1. Atof(m.theString) \in Nat
    BY <1>0, ConversionsType
  <2>2. \A n \in Nat : [m EXCEPT !.has = @ \cup {"Double"}, !.theDouble = n] \in MultiTypes
    BY DEF MultiTypes, Kinds
  <2>3. 2 * m.theInt \in Nat /\ 0 \in Nat
    BY <1>0
  <2> QED BY <2>1, <2>2, <2>3 DEF AsDouble
<1>2. AsLong(m) \in MultiTypes
  <2>1. Atoi(m.theString) \in Nat /\ Truncated(m.theDouble) \in Nat
    BY <1>0, ConversionsType, PartsType
  <2> QED BY <1>0, <2>1 DEF AsLong, MultiTypes, Kinds
<1>3. AsDoubleVector(m) \in MultiTypes
  <2>1. [i \in DOMAIN m.theString |-> m.theString[i].num] \in Seq(Nat)
    BY <1>0, ConversionsType
  <2>2. \A n \in Nat : <<n>> \in Seq(Nat)
    OBVIOUS
  <2>3. <<m.theDouble>> \in Seq(Nat) /\ <<2 * m.theInt>> \in Seq(Nat) /\ << >> \in Seq(Nat)
    BY <1>0, <2>2
  <2>4. \A v \in Seq(Nat) :
          [m EXCEPT !.has = @ \cup {"DoubleVec"}, !.theDoubleVec = v] \in MultiTypes
    BY DEF MultiTypes, Kinds
  <2> QED BY <2>1, <2>3, <2>4 DEF AsDoubleVector
<1>4. AsIntVector(m) \in MultiTypes
  <2>1. [i \in DOMAIN m.theString |-> m.theString[i].lead] \in Seq(Nat)
    BY <1>0, ConversionsType
  <2>2. \A n \in Nat : <<n>> \in Seq(Nat)
    OBVIOUS
  <2>5. Truncated(m.theDouble) \in Nat
    BY <1>0, PartsType
  <2>3. /\ <<Truncated(m.theDouble)>> \in Seq(Nat) /\ <<m.theInt>> \in Seq(Nat)
        /\ << >> \in Seq(Nat)
    BY <1>0, <2>2, <2>5
  <2>4. \A v \in Seq(Nat) :
          [m EXCEPT !.has = @ \cup {"IntVec"}, !.theIntVec = v] \in MultiTypes
    BY DEF MultiTypes, Kinds
  <2> QED BY <2>1, <2>3, <2>4 DEF AsIntVector
<1>5. AsString(m) \in MultiTypes
  <2>1. /\ PointedPart(m.theDouble) \in Parts /\ LongPart(m.theInt) \in Parts
        /\ WordPart("undef") \in Parts
    BY <1>0, PartsType, WordPartType, TextsAssumption
  <2>2. /\ <<PointedPart(m.theDouble)>> \in Seq(Parts)
        /\ <<LongPart(m.theInt)>> \in Seq(Parts)
        /\ <<WordPart("undef")>> \in Seq(Parts)
    BY <2>1
  <2>3. /\ [i \in DOMAIN m.theDoubleVec |-> DoublePart(m.theDoubleVec[i])] \in Seq(Parts)
        /\ [i \in DOMAIN m.theIntVec |-> LongPart(m.theIntVec[i])] \in Seq(Parts)
    BY <1>0, PrintedType
  <2> QED BY <1>0, <2>2, <2>3 DEF AsString, MultiTypes, Kinds
<1> QED BY <1>1, <1>2, <1>3, <1>4, <1>5

LEMMA ChangesType ==
  ASSUME NEW m \in MultiTypes
  PROVE  /\ ToDefault(m) \in MultiTypes /\ DefineAs(m, "kString") \in MultiTypes
         /\ TrimType(m) \in MultiTypes
<1>1. ToDefault(m) \in MultiTypes
  BY EmptyType DEF ToDefault, MultiTypes
<1>2. DefineAs(m, "kString") \in MultiTypes
  BY DEF DefineAs, MultiTypes, Types
<1>3. TrimType(m) \in MultiTypes
  <2>1. StringIs(m.theString) \in Types
    BY DEF StringIs, Types
  <2> QED BY <2>1 DEF TrimType, MultiTypes, Kinds
<1> QED BY <1>1, <1>2, <1>3

LEMMA AddDoubleType ==
  ASSUME NEW m \in MultiTypes, NEW d \in Doubles PROVE AddDouble(m, d) \in MultiTypes
<1>1. Append(m.theDoubleVec, d) \in Seq(Nat)
  BY NumbersAssumption DEF MultiTypes
<1> QED BY <1>1 DEF AddDouble, MultiTypes, Types, Kinds

LEMMA AddLongType ==
  ASSUME NEW m \in MultiTypes, NEW i \in Longs PROVE AddLong(m, i) \in MultiTypes
<1>1. Append(m.theIntVec, i) \in Seq(Nat)
  BY NumbersAssumption DEF MultiTypes
<1> QED BY <1>1 DEF AddLong, MultiTypes, Types, Kinds

LEMMA AddStringType ==
  ASSUME NEW m \in MultiTypes, NEW s \in Texts PROVE AddString(m, s) \in MultiTypes
<1>1. s \in Seq(Parts) /\ m.theString \in Seq(Parts)
  BY TextsAssumption DEF MultiTypes
<1>2. m.theString \o s \in Seq(Parts)
  BY <1>1, ConcatProperties
<1> QED BY <1>2 DEF AddString, MultiTypes, Types

\* A value and its twin have the members of a MultiType in every state.
THEOREM TypeCorrect == Spec => []TypeOK
<1>1. Init => TypeOK
  BY AssignedType DEF Init, TypeOK
<1>2. TypeOK /\ [Next]_vars => TypeOK'
  <2> SUFFICES ASSUME TypeOK, [Next]_vars PROVE TypeOK'
    OBVIOUS
  <2> USE DEF TypeOK
  <2>1. CASE Assign
    BY <2>1, AssignedType DEF Assign
  <2>2. CASE Read
    BY <2>2, ReadsType DEF Read
  <2>3. CASE Reset
    BY <2>3, ChangesType DEF Reset
  <2>4. CASE Quoted
    BY <2>4, ChangesType DEF Quoted
  <2>5. CASE Trim
    BY <2>5, ChangesType DEF Trim
  <2>6. CASE Extend
    BY <2>6, AddDoubleType, AddLongType, AddStringType DEF Extend
  <2>7. CASE UNCHANGED vars
    BY <2>7 DEF vars
  <2> QED BY <2>1, <2>2, <2>3, <2>4, <2>5, <2>6, <2>7 DEF Next
<1> QED BY <1>1, <1>2, PTL DEF Spec

(***************************************************************************)
(* The invariant behind KeepsWhatItIs: how a value and its twin agree, for *)
(* each representation that a user can have given it.                      *)
(***************************************************************************)
DoubleAgrees(c, t) ==
  "Double" \in t.has =>
    /\ t.has = {"Double"} /\ t.theType = "kDouble64" /\ c.theType = "kDouble64"
    /\ "Double" \in c.has /\ c.theDouble = t.theDouble
    /\ "Int" \in c.has => c.theInt = Truncated(t.theDouble)
    /\ "String" \in c.has => c.theString = <<PointedPart(t.theDouble)>>

StringAgrees(c, t) ==
  "String" \in t.has =>
    /\ t.has \subseteq {"String", "Int"} /\ t.theString # <<>>
    /\ t.theType # "kNone" /\ c.theType = t.theType /\ c.theTrimmable = t.theTrimmable
    /\ "String" \in c.has /\ c.theString = t.theString
    /\ "Double" \in c.has => c.theDouble = Atof(t.theString)

IntAgrees(c, t) ==
  "Int" \in t.has =>
    /\ t.has \subseteq {"String", "Int"}
    /\ t.theType \in {"kInt64", "kBool"} /\ c.theType = t.theType
    /\ "Int" \in c.has /\ c.theInt = t.theInt

DoubleVecAgrees(c, t) ==
  "DoubleVec" \in t.has =>
    /\ t.has = {"DoubleVec"}
    /\ t.theType \in {"kDouble64Vec", "kDouble32Vec"} /\ c.theType = t.theType
    /\ "DoubleVec" \in c.has /\ EndsIn(c.theDoubleVec, t.theDoubleVec)

IntVecAgrees(c, t) ==
  "IntVec" \in t.has =>
    /\ t.has = {"IntVec"}
    /\ t.theType \in {"kInt64Vec", "kInt32Vec"} /\ c.theType = t.theType
    /\ "IntVec" \in c.has /\ EndsIn(c.theIntVec, t.theIntVec)

\* A twin without a value holds none by being trimmed, and only an empty one
\* gets one by being extended.
NothingAgrees(c, t) ==
  /\ t.has = {} => t.theString # <<>> /\ t.theString[1] = WordPart("undef")
  /\ t.theType = "kNone" =>
       t.has = {} /\ c.theType = "kNone" /\ t.theDoubleVec = <<>> /\ t.theIntVec = <<>>

Agree(c, t) ==
  /\ DoubleAgrees(c, t) /\ StringAgrees(c, t) /\ IntAgrees(c, t)
  /\ DoubleVecAgrees(c, t) /\ IntVecAgrees(c, t) /\ NothingAgrees(c, t)

LEMMA EndsInItself == ASSUME NEW S, NEW v \in Seq(S) PROVE EndsIn(v, v)
BY DEF EndsIn

LEMMA EndsInAppended ==
  ASSUME NEW S, NEW v \in Seq(S), NEW e \in Seq(S), NEW x \in S, EndsIn(v, e)
  PROVE  EndsIn(Append(v, x), Append(e, x))
<1>1. Len(Append(v, x)) = Len(v) + 1 /\ Len(Append(e, x)) = Len(e) + 1
  OBVIOUS
<1>2. DOMAIN Append(e, x) = 1 .. Len(e) + 1 /\ DOMAIN e = 1 .. Len(e)
  BY <1>1
<1>3. ASSUME NEW i \in 1 .. Len(e) + 1
      PROVE  Append(v, x)[Len(v) - Len(e) + i] = Append(e, x)[i]
  <2>1. CASE i = Len(e) + 1
    BY <2>1
  <2>2. CASE i \in 1 .. Len(e)
    <3>1. Len(v) - Len(e) + i \in 1 .. Len(v)
      BY <2>2 DEF EndsIn
    <3>2. v[Len(v) - Len(e) + i] = e[i]
      BY <2>2, <1>2 DEF EndsIn
    <3> QED BY <2>2, <3>1, <3>2
  <2>3. i = Len(e) + 1 \/ i \in 1 .. Len(e)
    OBVIOUS
  <2> QED BY <2>1, <2>2, <2>3, Zenon
<1> QED BY <1>1, <1>2, <1>3 DEF EndsIn

LEMMA AssignedAgree == ASSUME NEW m \in Assigned PROVE Agree(m, m)
<1> USE NumbersAssumption DEF Agree, DoubleAgrees, StringAgrees, IntAgrees, DoubleVecAgrees,
        IntVecAgrees, NothingAgrees
<1>1. Agree(Empty, Empty)
  BY DEF Empty
<1>2. \A d \in Doubles : Agree(FromDouble(d), FromDouble(d))
  BY DEF FromDouble, Empty
<1>3. \A i \in Longs : Agree(FromLong(i), FromLong(i))
  BY DEF FromLong, Empty
<1>4. \A b \in BOOLEAN : Agree(FromBool(b), FromBool(b))
  BY DEF FromBool, Empty
<1>5. \A s \in Texts : Agree(FromString(s), FromString(s))
  BY TextsAssumption DEF FromString, Empty
<1>6. \A v \in Vectors(Doubles) : Agree(FromDoubleVec(v), FromDoubleVec(v))
  BY VectorsType, EndsInItself DEF FromDoubleVec, Empty
<1>7. \A v \in Vectors(Longs) : Agree(FromIntVec(v), FromIntVec(v))
  BY VectorsType, EndsInItself DEF FromIntVec, Empty
<1> QED BY <1>1, <1>2, <1>3, <1>4, <1>5, <1>6, <1>7 DEF Assigned

LEMMA ReadsAgree ==
  ASSUME NEW c \in MultiTypes, NEW t \in MultiTypes, Agree(c, t)
  PROVE  /\ Agree(AsDouble(c), t) /\ Agree(AsLong(c), t) /\ Agree(AsString(c), t)
         /\ Agree(AsDoubleVector(c), t) /\ Agree(AsIntVector(c), t)
<1> USE DEF Agree, DoubleAgrees, StringAgrees, IntAgrees, DoubleVecAgrees,
        IntVecAgrees, NothingAgrees, MultiTypes
<1>1. Agree(AsDouble(c), t)
  BY DEF AsDouble
<1>2. Agree(AsLong(c), t)
  BY DEF AsLong
<1>3. Agree(AsString(c), t)
  BY DEF AsString
<1>4. Agree(AsDoubleVector(c), t)
  BY DEF AsDoubleVector
<1>5. Agree(AsIntVector(c), t)
  BY DEF AsIntVector
<1> QED BY <1>1, <1>2, <1>3, <1>4, <1>5

LEMMA StringIsCases ==
  ASSUME NEW s
  PROVE  /\ StringIs(s) \in Types /\ StringIs(s) # "kNone"
         /\ StringIs(s) = "kBool" => s \in {<<WordPart("true")>>, <<WordPart("false")>>}
BY DEF StringIs, Types

LEMMA UndefIsNoBool ==
  ASSUME NEW s, s[1] = WordPart("undef") PROVE StringIs(s) # "kBool"
<1>1. WordPart("undef") # WordPart("true") /\ WordPart("undef") # WordPart("false")
  BY DEF WordPart
<1>2. s # <<WordPart("true")>> /\ s # <<WordPart("false")>>
  BY <1>1
<1> QED BY <1>2, StringIsCases

LEMMA TrimAgrees ==
  ASSUME NEW c \in MultiTypes, NEW t \in MultiTypes, Agree(c, t)
  PROVE  Agree(TrimType(c), TrimType(t))
<1> USE DEF Agree, DoubleAgrees, StringAgrees, IntAgrees, DoubleVecAgrees,
        IntVecAgrees, NothingAgrees
<1> c.has \subseteq Kinds /\ t.has \subseteq Kinds
  BY DEF MultiTypes
<1>1. CASE "String" \in t.has
  <2>1. CASE t.theTrimmable /\ t.theType = "kString"
    <3>1. c.theTrimmable /\ c.theType = "kString" /\ c.theString = t.theString
      BY <1>1, <2>1
    <3>2. t.has = {"String"}
      BY <1>1, <2>1
    <3>3. CASE StringIs(t.theString) = "kBool"
      BY <1>1, <2>1, <3>1, <3>2, <3>3 DEF TrimType, MultiTypes
    <3>4. CASE StringIs(t.theString) # "kBool"
      BY <1>1, <2>1, <3>1, <3>2, <3>4, StringIsCases DEF TrimType, MultiTypes
    <3> QED BY <3>3, <3>4
  <2>2. CASE ~(t.theTrimmable /\ t.theType = "kString")
    BY <1>1, <2>2 DEF TrimType
  <2> QED BY <2>1, <2>2
<1>2. CASE "String" \notin t.has /\ t.has # {}
  <2>1. t.theType # "kString" /\ c.theType # "kString"
    BY <1>2 DEF Kinds
  <2> QED BY <2>1 DEF TrimType
<1>3. CASE t.has = {}
  <2>1. StringIs(t.theString) # "kBool"
    BY <1>3, UndefIsNoBool
  <2>2. /\ TrimType(t).has = {} /\ TrimType(t).theString = t.theString
        /\ TrimType(t).theDoubleVec = t.theDoubleVec /\ TrimType(t).theIntVec = t.theIntVec
        /\ TrimType(t).theType = "kNone" => t.theType = "kNone"
    BY <1>3, <2>1, StringIsCases DEF TrimType, MultiTypes
  <2>3. c.theType = "kNone" => TrimType(c).theType = "kNone"
    BY DEF TrimType
  <2> QED BY <1>3, <2>2, <2>3
<1> QED BY <1>1, <1>2, <1>3

LEMMA ChangesAgree ==
  ASSUME NEW c \in MultiTypes, NEW t \in MultiTypes, Agree(c, t)
  PROVE  /\ Agree(ToDefault(c), ToDefault(t))
         /\ t.theType = "kString" => Agree(DefineAs(c, "kString"), DefineAs(t, "kString"))
         /\ Agree(TrimType(c), TrimType(t))
<1> USE DEF Agree, DoubleAgrees, StringAgrees, IntAgrees, DoubleVecAgrees,
        IntVecAgrees, NothingAgrees, MultiTypes
<1>1. Agree(ToDefault(c), ToDefault(t))
  BY DEF ToDefault, Empty
<1>2. t.theType = "kString" => Agree(DefineAs(c, "kString"), DefineAs(t, "kString"))
  BY DEF DefineAs
<1>3. Agree(TrimType(c), TrimType(t))
  BY TrimAgrees
<1> QED BY <1>1, <1>2, <1>3

LEMMA EndsInNothing == ASSUME NEW S, NEW v \in Seq(S) PROVE EndsIn(v, <<>>)
BY DEF EndsIn

LEMMA AddDoubleAgrees ==
  ASSUME NEW c \in MultiTypes, NEW t \in MultiTypes, Agree(c, t), NEW d \in Doubles
  PROVE  Agree(AddDouble(c, d), AddDouble(t, d))
<1> USE DEF Agree, DoubleAgrees, StringAgrees, IntAgrees, DoubleVecAgrees,
        IntVecAgrees, NothingAgrees
<1>0. /\ c.has \subseteq Kinds /\ t.has \subseteq Kinds /\ d \in Nat
      /\ c.theDoubleVec \in Seq(Nat) /\ t.theDoubleVec \in Seq(Nat)
  BY NumbersAssumption DEF MultiTypes
<1>1. EndsIn(c.theDoubleVec, t.theDoubleVec) =>
        EndsIn(Append(c.theDoubleVec, d), Append(t.theDoubleVec, d))
  BY <1>0, EndsInAppended
<1>2. CASE t.theType = "kNone"
  <2>1. EndsIn(c.theDoubleVec, t.theDoubleVec)
    BY <1>0, <1>2, EndsInNothing
  <2> QED BY <1>1, <1>2, <2>1 DEF AddDouble, MultiTypes
<1>3. CASE t.theType \in {"kDouble64Vec", "kDouble32Vec"}
  <2>1. CASE t.has = {}
    BY <1>3, <2>1 DEF AddDouble, MultiTypes
  <2>2. CASE t.has # {}
    <3>1. c.theType = t.theType
      BY <1>0, <2>2 DEF Kinds
    <3> QED BY <1>1, <1>3, <2>2, <3>1 DEF AddDouble, MultiTypes
  <2> QED BY <2>1, <2>2
<1>4. CASE t.theType \notin {"kNone", "kDouble64Vec", "kDouble32Vec"}
  <2>1. CASE t.has = {}
    BY <1>4, <2>1 DEF AddDouble
  <2>2. CASE t.has # {}
    <3>1. c.theType = t.theType
      BY <1>0, <2>2 DEF Kinds
    <3> QED BY <1>4, <3>1 DEF AddDouble
  <2> QED BY <2>1, <2>2
<1> QED BY <1>2, <1>3, <1>4

LEMMA AddLongAgrees ==
  ASSUME NEW c \in MultiTypes, NEW t \in MultiTypes, Agree(c, t), NEW i \in Longs
  PROVE  Agree(AddLong(c, i), AddLong(t, i))
<1> USE DEF Agree, DoubleAgrees, StringAgrees, IntAgrees, DoubleVecAgrees,
        IntVecAgrees, NothingAgrees
<1>0. /\ c.has \subseteq Kinds /\ t.has \subseteq Kinds /\ i \in Nat
      /\ c.theIntVec \in Seq(Nat) /\ t.theIntVec \in Seq(Nat)
  BY NumbersAssumption DEF MultiTypes
<1>1. EndsIn(c.theIntVec, t.theIntVec) =>
        EndsIn(Append(c.theIntVec, i), Append(t.theIntVec, i))
  BY <1>0, EndsInAppended
<1>2. CASE t.theType = "kNone"
  <2>1. EndsIn(c.theIntVec, t.theIntVec)
    BY <1>0, <1>2, EndsInNothing
  <2> QED BY <1>1, <1>2, <2>1 DEF AddLong, MultiTypes
<1>3. CASE t.theType \in {"kInt64Vec", "kInt32Vec"}
  <2>1. CASE t.has = {}
    BY <1>3, <2>1 DEF AddLong, MultiTypes
  <2>2. CASE t.has # {}
    <3>1. c.theType = t.theType
      BY <1>0, <2>2 DEF Kinds
    <3> QED BY <1>1, <1>3, <2>2, <3>1 DEF AddLong, MultiTypes
  <2> QED BY <2>1, <2>2
<1>4. CASE t.theType \notin {"kNone", "kInt64Vec", "kInt32Vec"}
  <2>1. CASE t.has = {}
    BY <1>4, <2>1 DEF AddLong
  <2>2. CASE t.has # {}
    <3>1. c.theType = t.theType
      BY <1>0, <2>2 DEF Kinds
    <3> QED BY <1>4, <3>1 DEF AddLong
  <2> QED BY <2>1, <2>2
<1> QED BY <1>2, <1>3, <1>4

\* atof() and atoi() see the first part of a text only.
LEMMA FirstOfText ==
  ASSUME NEW t \in MultiTypes, NEW s \in Texts, t.theString # <<>>
  PROVE  /\ t.theString \o s # <<>> /\ (t.theString \o s)[1] = t.theString[1]
         /\ Atof(t.theString \o s) = Atof(t.theString)
         /\ Atoi(t.theString \o s) = Atoi(t.theString)
<1>0. s \in Seq(Parts) /\ t.theString \in Seq(Parts)
  BY TextsAssumption DEF MultiTypes
<1>1. Len(t.theString) \in Nat \ {0}
  BY <1>0
<1>2. /\ Len(t.theString \o s) = Len(t.theString) + Len(s)
      /\ 1 <= Len(t.theString) => (t.theString \o s)[1] = t.theString[1]
  BY <1>0
<1>3. t.theString \o s # <<>>
  BY <1>0, <1>1, <1>2
<1> QED BY <1>1, <1>2, <1>3 DEF Atof, Atoi

LEMMA AddStringAgrees ==
  ASSUME NEW c \in MultiTypes, NEW t \in MultiTypes, Agree(c, t), NEW s \in Texts
  PROVE  Agree(AddString(c, s), AddString(t, s))
<1> USE DEF Agree, DoubleAgrees, StringAgrees, IntAgrees, DoubleVecAgrees,
        IntVecAgrees, NothingAgrees
<1>0. /\ c.has \subseteq Kinds /\ t.has \subseteq Kinds
      /\ s \in Seq(Parts) /\ t.theString \in Seq(Parts)
  BY TextsAssumption DEF MultiTypes
<1>1. t.theString # <<>> =>
        /\ t.theString \o s # <<>> /\ (t.theString \o s)[1] = t.theString[1]
        /\ Atof(t.theString \o s) = Atof(t.theString)
  BY FirstOfText
<1>2. CASE t.has = {}
  BY <1>1, <1>2 DEF AddString, MultiTypes
<1>3. CASE "String" \in t.has
  BY <1>1, <1>3 DEF AddString, MultiTypes
<1>4. CASE t.has # {} /\ "String" \notin t.has
  <2>1. t.theType \notin {"kNone", "kString"} /\ c.theType = t.theType
    BY <1>0, <1>4 DEF Kinds
  <2> QED BY <2>1 DEF AddString
<1> QED BY <1>2, <1>3, <1>4

LEMMA AgreeKeeps ==
  ASSUME TypeOK, Agree(cell, twin) PROVE KeepsWhatItIs
BY DEF TypeOK, MultiTypes, Agree, DoubleAgrees, StringAgrees, IntAgrees, DoubleVecAgrees,
       IntVecAgrees, KeepsWhatItIs, AsDouble, AsLong, AsString, AsDoubleVector, AsIntVector

AgreeInv == Agree(cell, twin)

LEMMA AgreeStep == TypeOK /\ AgreeInv /\ [Next]_vars => AgreeInv'
<1> SUFFICES ASSUME TypeOK, AgreeInv, [Next]_vars PROVE AgreeInv'
  OBVIOUS
<1> USE DEF TypeOK, AgreeInv
<1>1. CASE Assign
  BY <1>1, AssignedAgree DEF Assign
<1>2. CASE Read
  BY <1>2, ReadsAgree DEF Read
<1>3. CASE Reset
  BY <1>3, ChangesAgree DEF Reset
<1>4. CASE Quoted
  BY <1>4, ChangesAgree DEF Quoted
<1>5. CASE Trim
  BY <1>5, ChangesAgree DEF Trim
<1>6. CASE Extend
  BY <1>6, AddDoubleAgrees, AddLongAgrees, AddStringAgrees DEF Extend
<1>7. CASE UNCHANGED vars
  BY <1>7 DEF vars
<1> QED BY <1>1, <1>2, <1>3, <1>4, <1>5, <1>6, <1>7 DEF Next

\* No order of reads changes what a value was given.
THEOREM ValuesAreKept == Spec => []KeepsWhatItIs
<1>1. Init => AgreeInv
  BY AssignedAgree DEF Init, AgreeInv
<1>2. TypeOK /\ AgreeInv => KeepsWhatItIs
  BY AgreeKeeps DEF AgreeInv
<1> QED BY <1>1, <1>2, AgreeStep, TypeCorrect, PTL DEF Spec

(***************************************************************************)
(* The invariant behind PrintsBack: what a text, and an integer, were kept *)
(* as.                                                                     *)
(***************************************************************************)
TrimmedAgrees(c, t) ==
  "String" \in t.has =>
    /\ t.theType # "kString" => t.theType = StringIs(t.theString)
    /\ "Int" \in c.has /\ "Int" \notin t.has =>
         c.theInt \in {Atoi(t.theString), Truncated(Atof(t.theString))}

LongAgrees(c, t) ==
  t.theType = "kInt64" /\ "Int" \in t.has =>
    /\ t.has = {"Int"}
    /\ "Double" \in c.has => c.theDouble = 2 * t.theInt
    /\ "String" \in c.has => c.theString \in {<<LongPart(t.theInt)>>, <<PointedPart(2 * t.theInt)>>}

PrintAgree(c, t) == TrimmedAgrees(c, t) /\ LongAgrees(c, t)

LEMMA AssignedPrintAgree == ASSUME NEW m \in Assigned PROVE PrintAgree(m, m)
<1> USE DEF PrintAgree, TrimmedAgrees, LongAgrees
<1>1. PrintAgree(Empty, Empty)
  BY DEF Empty
<1>2. \A d \in Doubles : PrintAgree(FromDouble(d), FromDouble(d))
  BY DEF FromDouble, Empty
<1>3. \A i \in Longs : PrintAgree(FromLong(i), FromLong(i))
  BY DEF FromLong, Empty
<1>4. \A b \in BOOLEAN : PrintAgree(FromBool(b), FromBool(b))
  BY DEF FromBool, Empty
<1>5. \A s \in Texts : PrintAgree(FromString(s), FromString(s))
  BY DEF FromString, Empty
<1>6. \A v \in Vectors(Doubles) : PrintAgree(FromDoubleVec(v), FromDoubleVec(v))
  BY DEF FromDoubleVec, Empty
<1>7. \A v \in Vectors(Longs) : PrintAgree(FromIntVec(v), FromIntVec(v))
  BY DEF FromIntVec, Empty
<1> QED BY <1>1, <1>2, <1>3, <1>4, <1>5, <1>6, <1>7 DEF Assigned

LEMMA ReadsPrintAgree ==
  ASSUME NEW c \in MultiTypes, NEW t \in MultiTypes, Agree(c, t), PrintAgree(c, t)
  PROVE  /\ PrintAgree(AsDouble(c), t) /\ PrintAgree(AsLong(c), t) /\ PrintAgree(AsString(c), t)
         /\ PrintAgree(AsDoubleVector(c), t) /\ PrintAgree(AsIntVector(c), t)
<1> USE DEF Agree, StringAgrees, IntAgrees, PrintAgree, TrimmedAgrees, LongAgrees, MultiTypes
<1>0. \A i \in Nat : Atof(<<LongPart(i)>>) = 2 * i /\ Atof(<<PointedPart(2 * i)>>) = 2 * i
  BY DEF Atof, LongPart, PointedPart
<1>1. PrintAgree(AsDouble(c), t)
  <2>1. TrimmedAgrees(AsDouble(c), t)
    BY DEF AsDouble
  <2>2. LongAgrees(AsDouble(c), t)
    BY <1>0 DEF AsDouble
  <2> QED BY <2>1, <2>2
<1>2. PrintAgree(AsLong(c), t)
  BY DEF AsLong
<1>3. PrintAgree(AsString(c), t)
  BY DEF AsString
<1>4. PrintAgree(AsDoubleVector(c), t)
  BY DEF AsDoubleVector
<1>5. PrintAgree(AsIntVector(c), t)
  BY DEF AsIntVector
<1> QED BY <1>1, <1>2, <1>3, <1>4, <1>5

LEMMA ChangesPrintAgree ==
  ASSUME NEW c \in MultiTypes, NEW t \in MultiTypes, Agree(c, t), PrintAgree(c, t)
  PROVE  /\ PrintAgree(ToDefault(c), ToDefault(t))
         /\ t.theType = "kString" => PrintAgree(DefineAs(c, "kString"), DefineAs(t, "kString"))
         /\ PrintAgree(TrimType(c), TrimType(t))
<1> USE DEF PrintAgree, TrimmedAgrees, LongAgrees
<1>1. PrintAgree(ToDefault(c), ToDefault(t))
  BY DEF ToDefault, Empty
<1>2. t.theType = "kString" => PrintAgree(DefineAs(c, "kString"), DefineAs(t, "kString"))
  BY DEF DefineAs, MultiTypes
<1>3. PrintAgree(TrimType(c), TrimType(t))
  <2>1. CASE "String" \in t.has
    BY <2>1 DEF TrimType, MultiTypes, Agree, StringAgrees, IntAgrees
  <2>2. CASE "String" \notin t.has /\ t.has # {}
    <3>1. t.theType # "kString" /\ c.theType # "kString"
      BY <2>2 DEF Agree, DoubleAgrees, IntAgrees, DoubleVecAgrees, IntVecAgrees, MultiTypes, Kinds
    <3> QED BY <3>1 DEF TrimType
  <2>3. CASE t.has = {}
    <3>1. StringIs(t.theString) # "kBool"
      BY <2>3, UndefIsNoBool DEF Agree, NothingAgrees
    <3>2. TrimType(t).has = {}
      BY <2>3, <3>1 DEF TrimType, MultiTypes
    <3> QED BY <3>2
  <2> QED BY <2>1, <2>2, <2>3
<1> QED BY <1>1, <1>2, <1>3

LEMMA AddPrintAgree ==
  ASSUME NEW c \in MultiTypes, NEW t \in MultiTypes, Agree(c, t), PrintAgree(c, t)
  PROVE  /\ \A d \in Doubles : PrintAgree(AddDouble(c, d), AddDouble(t, d))
         /\ \A i \in Longs : PrintAgree(AddLong(c, i), AddLong(t, i))
         /\ \A s \in Texts : PrintAgree(AddString(c, s), AddString(t, s))
<1> USE DEF PrintAgree, TrimmedAgrees, LongAgrees
<1>1. ASSUME NEW d \in Doubles PROVE PrintAgree(AddDouble(c, d), AddDouble(t, d))
  BY DEF AddDouble, MultiTypes, Agree, StringAgrees, IntAgrees
<1>2. ASSUME NEW i \in Longs PROVE PrintAgree(AddLong(c, i), AddLong(t, i))
  BY DEF AddLong, MultiTypes, Agree, StringAgrees, IntAgrees
<1>3. ASSUME NEW s \in Texts PROVE PrintAgree(AddString(c, s), AddString(t, s))
  BY FirstOfText DEF AddString, MultiTypes, Agree, StringAgrees, IntAgrees
<1> QED BY <1>1, <1>2, <1>3

\* What the reader makes of the text of a value whose type it does not know.
LEMMA UnquotedBack ==
  ASSUME NEW s
  PROVE  LET back == TrimType(FromString(s))
         IN back.theType = StringIs(s) /\ back.theString = s
              /\ (StringIs(s) # "kBool" => back.has = {"String"})
<1>1. FromString(s).theType = "kString" /\ FromString(s).theTrimmable
        /\ FromString(s).theString = s /\ FromString(s).has = {"String"}
  BY DEF FromString, Empty
<1> QED BY <1>1 DEF TrimType, FromString, Empty

LEMMA NumberIs ==
  ASSUME NEW d \in Nat
  PROVE  StringIs(<<PointedPart(d)>>) = "kDouble64" /\ StringIs(<<LongPart(d)>>) = "kInt64"
<1>1. \A w : WordPart(w).word = w
  BY DEF WordPart
<1>2. ASSUME NEW p, p.word = ""
      PROVE  <<p>> \notin {<<WordPart("true")>>, <<WordPart("false")>>}
  <2>1. \A q : <<p>> = <<q>> => p = q
    OBVIOUS
  <2> QED BY <1>1, <1>2, <2>1, TextsAssumption
<1>3. PointedPart(d).word = "" /\ LongPart(d).word = "" /\ ~PointedPart(d).whole
        /\ LongPart(d).whole
  BY DEF PointedPart, LongPart
<1>4. \A p : \A i \in DOMAIN <<p>> : <<p>>[i] = p
  OBVIOUS
<1>5. \A p : 1 \in DOMAIN <<p>> /\ ~(Len(<<p>>) > 1)
  OBVIOUS
<1>6. StringIs(<<PointedPart(d)>>) = "kDouble64"
  <2> DEFINE s == <<PointedPart(d)>>
  <2>1. s \notin {<<WordPart("true")>>, <<WordPart("false")>>}
    BY <1>2, <1>3
  <2>2. ~\E i \in DOMAIN s : s[i].word # ""
    BY <1>3, <1>4
  <2>3. ~\A i \in DOMAIN s : s[i].whole
    <3>1. 1 \in DOMAIN s /\ ~s[1].whole
      BY <1>3, <1>4, <1>5
    <3> QED BY <3>1
  <2>4. ~(Len(s) > 1)
    BY <1>5
  <2> HIDE DEF s
  <2>5. StringIs(s) = "kDouble64"
    BY <2>1, <2>2, <2>3, <2>4, Zenon DEF StringIs
  <2> QED BY <2>5 DEF s
<1>7. StringIs(<<LongPart(d)>>) = "kInt64"
  BY <1>2, <1>3, <1>4, <1>5 DEF StringIs
<1> QED BY <1>6, <1>7

LEMMA NumberReads ==
  ASSUME NEW d \in Nat
  PROVE  /\ Atof(<<PointedPart(d)>>) = d /\ Atof(<<LongPart(d)>>) = 2 * d
         /\ Atoi(<<LongPart(d)>>) = d /\ Atoi(<<PointedPart(2 * d)>>) = d
<1>1. \A p : <<p>> # <<>> /\ <<p>>[1] = p
  OBVIOUS
<1>2. Truncated(2 * d) = d
  BY DEF Truncated
<1> QED BY <1>1, <1>2 DEF Atof, Atoi, LongPart, PointedPart

LEMMA AgreePrints ==
  ASSUME TypeOK, Agree(cell, twin), PrintAgree(cell, twin) PROVE PrintsBack
<1> SUFFICES ASSUME twin.has # {} PROVE PrintsBack
  BY DEF PrintsBack
<1> DEFINE c == cell
           s == AsString(cell).theString
           back == ReadBack(Written(cell))
<1>0. /\ cell \in MultiTypes /\ twin \in MultiTypes
      /\ twin.has \subseteq Kinds /\ s \in Seq(Parts)
  BY ReadsType DEF TypeOK, MultiTypes
<1>1. cell.theType = "kString" => back.theType = "kString" /\ back.theString = s
  BY DEF ReadBack, Written, TrimType, DefineAs, FromString, Empty
<1>2. cell.theType # "kString" => back = TrimType(FromString(s))
  BY DEF ReadBack, Written
<1>3. ASSUME cell.theType = "kDouble64"
      PROVE  back.theType = "kDouble64" /\ AsDouble(back).theDouble = AsDouble(cell).theDouble
  <2>1. "Double" \in twin.has \/ "String" \in twin.has
    BY <1>0, <1>3 DEF Agree, IntAgrees, DoubleVecAgrees, IntVecAgrees, Kinds
  <2>2. CASE "Double" \in twin.has
    <3>1. s = <<PointedPart(cell.theDouble)>> /\ AsDouble(cell).theDouble = cell.theDouble
      BY <1>0, <2>2 DEF Agree, DoubleAgrees, AsString, AsDouble, MultiTypes
    <3>2. StringIs(s) = "kDouble64" /\ Atof(s) = cell.theDouble
      BY <1>0, <3>1, NumberIs, NumberReads DEF MultiTypes
    <3>3. back.theType = "kDouble64" /\ back.theString = s /\ back.has = {"String"}
      BY <1>2, <1>3, <3>2, UnquotedBack
    <3>4. AsDouble(back).theDouble = Atof(s)
      BY <3>3 DEF AsDouble
    <3> QED BY <3>1, <3>2, <3>3, <3>4
  <2>3. CASE "String" \in twin.has
    <3>1. s = twin.theString /\ StringIs(s) = "kDouble64"
      BY <1>3, <2>3 DEF Agree, StringAgrees, PrintAgree, TrimmedAgrees, AsString
    <3>2. AsDouble(cell).theDouble = Atof(s)
      BY <1>0, <2>3, <3>1 DEF Agree, StringAgrees, AsDouble, MultiTypes
    <3>3. back.theType = "kDouble64" /\ back.theString = s /\ back.has = {"String"}
      BY <1>2, <1>3, <3>1, UnquotedBack
    <3> QED BY <3>2, <3>3 DEF AsDouble
  <2> QED BY <2>1, <2>2, <2>3
<1>4. ASSUME cell.theType = "kInt64"
      PROVE  back.theType \in {"kInt64", "kDouble64"} /\ AsLong(back).theInt = AsLong(cell).theInt
  <2>1. "Int" \in twin.has \/ "String" \in twin.has
    BY <1>0, <1>4 DEF Agree, DoubleAgrees, DoubleVecAgrees, IntVecAgrees, Kinds
  <2>2. CASE "Int" \in twin.has
    <3> DEFINE i == twin.theInt
    <3>1. AsLong(cell).theInt = i /\ i \in Nat
      BY <1>0, <2>2 DEF Agree, IntAgrees, AsLong, MultiTypes
    <3>2. s \in {<<LongPart(i)>>, <<PointedPart(2 * i)>>}
      BY <1>0, <1>4, <2>2
         DEF Agree, IntAgrees, PrintAgree, LongAgrees, AsString, MultiTypes
    <3>3. StringIs(s) \in {"kInt64", "kDouble64"} /\ Atoi(s) = i
      <4> HIDE DEF s, i
      <4>1. CASE s = <<LongPart(i)>>
        BY <3>1, <4>1, NumberIs, NumberReads
      <4>2. CASE s = <<PointedPart(2 * i)>>
        <5>1. 2 * i \in Nat
          BY <3>1
        <5>2. StringIs(<<PointedPart(2 * i)>>) = "kDouble64"
          BY <5>1, NumberIs
        <5>3. Atoi(<<PointedPart(2 * i)>>) = i
          BY <3>1, NumberReads
        <5> QED BY <4>2, <5>2, <5>3
      <4> QED BY <3>2, <4>1, <4>2
    <3>4. back.theType = StringIs(s) /\ back.theString = s /\ back.has = {"String"}
      BY <1>2, <1>4, <3>3, UnquotedBack
    <3>5. AsLong(back).theInt = Atoi(s)
      BY <3>4 DEF AsLong
    <3> QED BY <3>1, <3>3, <3>4, <3>5
  <2>3. CASE "String" \in twin.has /\ "Int" \notin twin.has
    <3>1. s = twin.theString /\ s # <<>> /\ StringIs(s) = "kInt64"
      BY <1>4, <2>3 DEF Agree, StringAgrees, PrintAgree, TrimmedAgrees, AsString
    <3>2. Truncated(Atof(s)) = Atoi(s)
      <4>1. 1 \in DOMAIN s /\ s[1] \in Parts
        BY <1>0, <3>1
      <4>2. s[1].whole
        BY <3>1, <4>1 DEF StringIs
      <4>3. s[1].num = 2 * s[1].lead /\ s[1].lead \in Nat
        BY <4>1, <4>2 DEF Parts
      <4> QED BY <3>1, <4>3 DEF Atof, Atoi, Truncated
    <3>3. AsLong(cell).theInt = Atoi(s)
      BY <1>0, <2>3, <3>1, <3>2
         DEF Agree, StringAgrees, PrintAgree, TrimmedAgrees, AsLong, MultiTypes
    <3>4. back.theType = "kInt64" /\ back.theString = s /\ back.has = {"String"}
      BY <1>2, <1>4, <3>1, UnquotedBack
    <3>5. AsLong(back).theInt = Atoi(s)
      BY <3>4 DEF AsLong
    <3> QED BY <3>3, <3>4, <3>5
  <2> QED BY <2>1, <2>2, <2>3
<1> QED BY <1>1, <1>3, <1>4 DEF PrintsBack

PrintInv == PrintAgree(cell, twin)

LEMMA PrintStep == TypeOK /\ AgreeInv /\ PrintInv /\ [Next]_vars => PrintInv'
<1> SUFFICES ASSUME TypeOK, AgreeInv, PrintInv, [Next]_vars PROVE PrintInv'
  OBVIOUS
<1> USE DEF TypeOK, AgreeInv, PrintInv
<1>1. CASE Assign
  BY <1>1, AssignedPrintAgree DEF Assign
<1>2. CASE Read
  BY <1>2, ReadsPrintAgree DEF Read
<1>3. CASE Reset
  BY <1>3, ChangesPrintAgree DEF Reset
<1>4. CASE Quoted
  BY <1>4, ChangesPrintAgree DEF Quoted
<1>5. CASE Trim
  BY <1>5, ChangesPrintAgree DEF Trim
<1>6. CASE Extend
  BY <1>6, AddPrintAgree DEF Extend
<1>7. CASE UNCHANGED vars
  BY <1>7 DEF vars
<1> QED BY <1>1, <1>2, <1>3, <1>4, <1>5, <1>6, <1>7 DEF Next

\* A string, a double and an integer come back from a text file, whatever was
\* read before they were written.
THEOREM ValuesPrintBack == Spec => []PrintsBack
<1>1. Init => AgreeInv /\ PrintInv
  BY AssignedAgree, AssignedPrintAgree DEF Init, AgreeInv, PrintInv
<1>2. TypeOK /\ AgreeInv /\ PrintInv => PrintsBack
  BY AgreePrints DEF AgreeInv, PrintInv
<1> QED BY <1>1, <1>2, AgreeStep, PrintStep, TypeCorrect, PTL DEF Spec
=============================================================================
