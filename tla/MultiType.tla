------------------------------ MODULE MultiType ------------------------------
(***************************************************************************)
(* MultiType (src/MultiType.cc): "weak typing in a strongly typed          *)
(* language".  A value has a type and up to five representations; reading  *)
(* it as something else computes that representation and keeps it, in      *)
(* mutable members of a const object.  Which representation the next read  *)
(* starts from depends on those that are there.                            *)
(*                                                                         *)
(* The module has one value, cell, that a user assigns, extends, re-types  *)
(* and reads, and a twin that undergoes the same but is never read.        *)
(*                                                                         *)
(* Numbers are naturals; a double counts halves.  A text is the sequence   *)
(* of its parts between commas, a part what atof() and atoi() make of it.  *)
(* Signs, "nan" and "inf", and numbers with more digits than a conversion  *)
(* keeps are left out.                                                     *)
(***************************************************************************)
EXTENDS Integers, Sequences

CONSTANTS
  Words,       \* what a part may be that is no number
  Texts,       \* the strings a user assigns, none of them empty
  Doubles,     \* the doubles a user assigns, in halves
  Longs,       \* the integers a user assigns
  MaxLen       \* bound on the length of vectors and lists

\* A part of a text: a word, or a number of which atof() reads num and atoi()
\* reads lead; whole if it consists of digits.
Parts ==
  {p \in [word : Words \cup {""}, num : Nat, lead : Nat, whole : BOOLEAN] :
     p.whole => p.num = 2 * p.lead}

WordPart(w) == [word |-> w, num |-> 0, lead |-> 0, whole |-> FALSE]

ASSUME TextsAssumption ==
  /\ {"undef", "true", "false"} \subseteq Words /\ "" \notin Words
  /\ Texts \subseteq Seq(Parts) \ {<<>>}

ASSUME NumbersAssumption == Doubles \subseteq Nat /\ Longs \subseteq Nat /\ MaxLen \in Nat

VARIABLES
  cell,        \* the value
  twin         \* the same value, had nobody read it

vars == <<cell, twin>>
-----------------------------------------------------------------------------
Types == {"kString", "kInt64", "kDouble64", "kBool", "kDouble64Vec", "kDouble32Vec",
          "kInt64Vec", "kInt32Vec", "kNone"}

\* The has* flags, as the set of those that are up.
Kinds == {"Double", "String", "Int", "DoubleVec", "IntVec"}

MultiTypes ==
  [theType : Types, theTrimmable : BOOLEAN, has : SUBSET Kinds, theDouble : Nat,
   theString : Seq(Parts), theInt : Nat, theDoubleVec : Seq(Nat), theIntVec : Seq(Nat)]

\* MultiType(), and what clear() leaves.
Empty == [theType |-> "kNone", theTrimmable |-> TRUE, has |-> {}, theDouble |-> 0,
          theString |-> <<WordPart("undef")>>, theInt |-> 0,
          theDoubleVec |-> <<>>, theIntVec |-> <<>>]

FromDouble(d) == [Empty EXCEPT !.theType = "kDouble64", !.has = {"Double"}, !.theDouble = d]

FromLong(i) == [Empty EXCEPT !.theType = "kInt64", !.has = {"Int"}, !.theInt = i]

\* Variant: the constructor of a bool raises a flag of its own.
FromBoolFlagged(b) == [Empty EXCEPT !.theType = "kBool", !.has = {"Bool"},
                                    !.theInt = IF b THEN 1 ELSE 0]

FromBool(b) == [Empty EXCEPT !.theType = "kBool", !.has = {"Int"},
                             !.theInt = IF b THEN 1 ELSE 0]

FromString(s) == [Empty EXCEPT !.theType = "kString", !.has = {"String"}, !.theString = s]

FromDoubleVec(v) ==
  [Empty EXCEPT !.theType = "kDouble64Vec", !.has = {"DoubleVec"}, !.theDoubleVec = v]

FromIntVec(v) ==
  [Empty EXCEPT !.theType = "kInt64Vec", !.has = {"IntVec"}, !.theIntVec = v]

Vectors(S) == UNION {[1 .. n -> S] : n \in 0 .. MaxLen}

\* What the constructors and the assignments make of their arguments.
Assigned ==
  {Empty} \cup {FromDouble(d) : d \in Doubles} \cup {FromLong(i) : i \in Longs}
    \cup {FromBool(b) : b \in BOOLEAN} \cup {FromString(s) : s \in Texts}
    \cup {FromDoubleVec(v) : v \in Vectors(Doubles)}
    \cup {FromIntVec(v) : v \in Vectors(Longs)}
-----------------------------------------------------------------------------
\* The library's conversions: atof, atoi, operator<< of a double with and
\* without the point that asString() adds, and of a long.
Atof(s) == IF s = <<>> THEN 0 ELSE s[1].num

Atoi(s) == IF s = <<>> THEN 0 ELSE s[1].lead

Truncated(d) == d \div 2

\* Variant: asString() does not add the point.
UnpointedPart(d) == [word |-> "", num |-> d, lead |-> Truncated(d), whole |-> d % 2 = 0]

PointedPart(d) == [word |-> "", num |-> d, lead |-> Truncated(d), whole |-> FALSE]

LongPart(i) == [word |-> "", num |-> 2 * i, lead |-> i, whole |-> TRUE]

DoublePart(d) == IF d % 2 = 0 THEN LongPart(Truncated(d)) ELSE PointedPart(d)

\* stringIs(): the narrowest type of a text.
StringIs(s) ==
  IF s \in {<<WordPart("true")>>, <<WordPart("false")>>} THEN "kBool"
  ELSE IF \E i \in DOMAIN s : s[i].word # "" THEN "kString"
  ELSE IF \A i \in DOMAIN s : s[i].whole
       THEN IF Len(s) > 1 THEN "kInt64Vec" ELSE "kInt64"
       ELSE IF Len(s) > 1 THEN "kDouble64Vec" ELSE "kDouble64"
-----------------------------------------------------------------------------
(***************************************************************************)
(* The reads.  Each returns what the value is after it; the result is the  *)
(* member it asked for.                                                    *)
(***************************************************************************)
\* Variant: the kept integer is preferred to the text.
AsDoubleFromInt(m) ==
  IF "Double" \in m.has THEN m
  ELSE [m EXCEPT !.has = @ \cup {"Double"},
                 !.theDouble = IF "Int" \in m.has THEN 2 * m.theInt
                               ELSE IF "String" \in m.has THEN Atof(m.theString) ELSE 0]

AsDouble(m) ==
  IF "Double" \in m.has THEN m
  ELSE [m EXCEPT !.has = @ \cup {"Double"},
                 !.theDouble = IF "String" \in m.has THEN Atof(m.theString)
                               ELSE IF "Int" \in m.has THEN 2 * m.theInt ELSE 0]

AsLong(m) ==
  IF "Int" \in m.has THEN m
  ELSE [m EXCEPT !.has = @ \cup {"Int"},
                 !.theInt = IF "Double" \in m.has THEN Truncated(m.theDouble)
                            ELSE IF "String" \in m.has THEN Atoi(m.theString) ELSE 0]

AsDoubleVector(m) ==
  IF "DoubleVec" \in m.has THEN m
  ELSE [m EXCEPT !.has = @ \cup {"DoubleVec"},
                 !.theDoubleVec =
                    IF "String" \in m.has
                    THEN [i \in DOMAIN m.theString |-> m.theString[i].num]
                    ELSE IF "Double" \in m.has THEN <<m.theDouble>>
                    ELSE IF "Int" \in m.has THEN <<2 * m.theInt>> ELSE <<>>]

AsIntVector(m) ==
  IF "IntVec" \in m.has THEN m
  ELSE [m EXCEPT !.has = @ \cup {"IntVec"},
                 !.theIntVec =
                    IF "String" \in m.has
                    THEN [i \in DOMAIN m.theString |-> m.theString[i].lead]
                    ELSE IF "Int" \in m.has THEN <<m.theInt>>
                    ELSE IF "Double" \in m.has THEN <<Truncated(m.theDouble)>> ELSE <<>>]

AsString(m) ==
  IF "String" \in m.has THEN m
  ELSE [m EXCEPT !.has = @ \cup {"String"},
                 !.theString =
                    IF "Double" \in m.has THEN <<PointedPart(m.theDouble)>>
                    ELSE IF "Int" \in m.has THEN <<LongPart(m.theInt)>>
                    ELSE IF "DoubleVec" \in m.has
                         THEN [i \in DOMAIN m.theDoubleVec |-> DoublePart(m.theDoubleVec[i])]
                    ELSE IF "IntVec" \in m.has
                         THEN [i \in DOMAIN m.theIntVec |-> LongPart(m.theIntVec[i])]
                    ELSE <<WordPart("undef")>>]
-----------------------------------------------------------------------------
(***************************************************************************)
(* The calls that change a value, each for the value and its twin.         *)
(***************************************************************************)
ToDefault(m) ==
  [Empty EXCEPT !.theType = m.theType, !.theTrimmable = m.theTrimmable]

DefineAs(m, t) == [m EXCEPT !.theType = t, !.theTrimmable = FALSE]

TrimType(m) ==
  IF ~m.theTrimmable \/ m.theType # "kString" THEN m
  ELSE LET t == StringIs(m.theString)
       IN IF t = "kBool"
          THEN [m EXCEPT !.theType = t, !.has = @ \cup {"Int"},
                         !.theInt = IF m.theString = <<WordPart("true")>> THEN 1 ELSE 0]
          ELSE [m EXCEPT !.theType = t]

\* addToVector(double): an empty value becomes a vector of floats first.
AddDouble(m, d) ==
  CASE m.theType = "kNone" ->
         [m EXCEPT !.theType = "kDouble32Vec", !.has = {"DoubleVec"},
                   !.theDoubleVec = Append(@, d)]
    [] m.theType \in {"kDouble64Vec", "kDouble32Vec"} ->
         [m EXCEPT !.theDoubleVec = Append(@, d)]
    [] OTHER -> m

AddLong(m, i) ==
  CASE m.theType = "kNone" ->
         [m EXCEPT !.theType = "kInt32Vec", !.has = {"IntVec"},
                   !.theIntVec = Append(@, i)]
    [] m.theType \in {"kInt64Vec", "kInt32Vec"} ->
         [m EXCEPT !.theIntVec = Append(@, i)]
    [] OTHER -> m

AddString(m, s) ==
  IF m.theType \in {"kNone", "kString"}
  THEN [m EXCEPT !.theType = "kString", !.theString = @ \o s]
  ELSE m
-----------------------------------------------------------------------------
Init == cell \in Assigned /\ twin = cell

Assign == \E m \in Assigned : cell' = m /\ twin' = m

\* asFloat, asInt, asBool, the casts and operator== come down to one of these.
Read ==
  /\ cell' \in {AsDouble(cell), AsLong(cell), AsDoubleVector(cell), AsIntVector(cell),
                AsString(cell)}
  /\ UNCHANGED twin

Reset == cell' = ToDefault(cell) /\ twin' = ToDefault(twin)

\* The readers fix the type of a string that was quoted, before they trim it.
Quoted ==
  /\ twin.theType = "kString"
  /\ cell' = DefineAs(cell, "kString") /\ twin' = DefineAs(twin, "kString")

Trim == cell' = TrimType(cell) /\ twin' = TrimType(twin)

Bounded(m) ==
  Len(m.theString) <= MaxLen /\ Len(m.theDoubleVec) <= MaxLen /\ Len(m.theIntVec) <= MaxLen

\* addToVector() of a value of each type it takes; it discards the others.
Extend ==
  /\ \/ \E d \in Doubles : cell' = AddDouble(cell, d) /\ twin' = AddDouble(twin, d)
     \/ \E i \in Longs : cell' = AddLong(cell, i) /\ twin' = AddLong(twin, i)
     \/ \E s \in Texts : cell' = AddString(cell, s) /\ twin' = AddString(twin, s)
  /\ Bounded(cell') /\ Bounded(twin')

Next == Assign \/ Read \/ Reset \/ Quoted \/ Trim \/ Extend

Spec == Init /\ [][Next]_vars
-----------------------------------------------------------------------------
TypeOK == cell \in MultiTypes /\ twin \in MultiTypes

\* The sequence s ends in e.
EndsIn(s, e) ==
  /\ Len(e) <= Len(s)
  /\ \A i \in DOMAIN e : s[Len(s) - Len(e) + i] = e[i]

\* What a value was given survives every order of reads: a double as double,
\* integer and text, a text as text and double, an integer as integer, and no
\* element is lost from a vector.
KeepsWhatItIs ==
  /\ "Double" \in twin.has =>
       /\ AsDouble(cell).theDouble = twin.theDouble
       /\ AsLong(cell).theInt = AsLong(twin).theInt
       /\ AsString(cell).theString = AsString(twin).theString
  /\ "String" \in twin.has =>
       /\ AsString(cell).theString = twin.theString
       /\ AsDouble(cell).theDouble = AsDouble(twin).theDouble
  /\ "Int" \in twin.has => AsLong(cell).theInt = twin.theInt
  /\ "DoubleVec" \in twin.has => EndsIn(AsDoubleVector(cell).theDoubleVec, twin.theDoubleVec)
  /\ "IntVec" \in twin.has => EndsIn(AsIntVector(cell).theIntVec, twin.theIntVec)

(***************************************************************************)
(* A value on its way through a text file: TextWriter::quoteStrings and    *)
(* TextReader::addData.                                                    *)
(***************************************************************************)
Written(m) == [text |-> AsString(m).theString, quoted |-> m.theType = "kString"]

ReadBack(w) ==
  TrimType(IF w.quoted THEN DefineAs(FromString(w.text), "kString") ELSE FromString(w.text))

\* A string and a double come back from a text file as what they were; an
\* integer comes back with its value, though as a double if it was read as one.
\* (A value that toDefault() emptied is of its type still and prints "undef".)
PrintsBack ==
  twin.has # {} =>
  LET back == ReadBack(Written(cell))
  IN /\ cell.theType = "kString" =>
          back.theType = "kString" /\ back.theString = AsString(cell).theString
     /\ cell.theType = "kDouble64" =>
          back.theType = "kDouble64" /\ AsDouble(back).theDouble = AsDouble(cell).theDouble
     /\ cell.theType = "kInt64" =>
          back.theType \in {"kInt64", "kDouble64"} /\ AsLong(back).theInt = AsLong(cell).theInt

\* Reading a value does not change what it prints.  include/dataharvester/
\* MultiType.h:99 says of the kept conversions: "make all private members
\* mutable.  That way the MultiType can be treated like any other type (const
\* correctness ...)".
ReadsChangeNothing == AsString(cell).theString = AsString(twin).theString
=============================================================================
