------------------------- MODULE WriterFacadeProofs -------------------------
(***************************************************************************)
(* Proofs about WriterFacade, for every set of files, names and rows.      *)
(***************************************************************************)
EXTENDS WriterFacade, TLAPS, FiniteSetTheorems, SequenceTheorems

(***************************************************************************)
(* The checker and the blocks.                                             *)
(***************************************************************************)
LEMMA DefineType == ASSUME NEW row \in Rows PROVE Define(row) \in Templates
<1>1. PICK D \in SUBSET Columns : row \in [D -> Cells]
  BY DEF Rows
<1>2. Define(row) \in [D -> Types]
  BY <1>1 DEF Define, TrimmedType, IsType, Cells, Types
<1> QED BY <1>2 DEF Templates

LEMMA TemplateAfterType ==
  ASSUME NEW tpl \in Templates, NEW row \in Rows
  PROVE  TemplateAfter(tpl, RawTypes(row)) \in Templates
<1> DEFINE types == RawTypes(row)
<1>1. PICK D \in SUBSET Columns : row \in [D -> Cells]
  BY DEF Rows
<1>2. PICK E \in SUBSET Columns : tpl \in [E -> Types]
  BY DEF Templates
<1>4. DOMAIN types = D
  BY <1>1 DEF RawTypes
<1>5. Visited(tpl, types) \subseteq D
  BY <1>4 DEF Visited
<1>6. \A c \in E \cup Visited(tpl, types) : TemplateType(tpl, c) \in Types
  BY <1>2 DEF TemplateType, Types
<1>7. TemplateAfter(tpl, types) \in
        {tpl, [c \in E \cup Visited(tpl, types) |-> TemplateType(tpl, c)]}
  BY <1>2 DEF TemplateAfter
<1>8. [c \in E \cup Visited(tpl, types) |-> TemplateType(tpl, c)]
        \in [E \cup Visited(tpl, types) -> Types]
  BY <1>6
<1>9. E \cup Visited(tpl, types) \in SUBSET Columns
  BY <1>5
<1> QED BY <1>7, <1>8, <1>9 DEF Templates

LEMMA WidthType == ASSUME NEW row \in Rows PROVE Width(row) \in Nat
<1>1. PICK D \in SUBSET Columns : row \in [D -> Cells]
  BY DEF Rows
<1>2. IsFiniteSet(D)
  BY FS_Subset, ColumnsAssumption
<1> QED BY <1>1, <1>2, FS_CardinalityType DEF Width

\* RootInternalNtuple::write always finds where it stops.
Stops(nt) == \E k : IsWritableLen(nt, k)

LEMMA NewNtupleType ==
  ASSUME NEW row \in Rows, NEW id \in Nat
  PROVE  /\ NewNtuple(row, id) \in Ntuple
         /\ Stops(NewNtuple(row, id))
<1> DEFINE nt == NewNtuple(row, id)
<1>1. <<[id |-> id, width |-> Width(row)]>> \in Seq([id : Nat, width : Nat])
  BY WidthType
<1>3. nt \in Ntuple
  BY <1>1, DefineType DEF NewNtuple, Ntuple
<1>2. IsWritableLen(nt, 1)
  BY WidthType DEF NewNtuple, IsWritableLen
<1> QED BY <1>2, <1>3 DEF Stops

LEMMA AddRowType ==
  ASSUME NEW nt \in Ntuple, NEW row \in Rows, NEW id \in Nat, Stops(nt)
  PROVE  /\ AddRow(nt, row, id) \in Ntuple
         /\ Stops(AddRow(nt, row, id))
<1> DEFINE r   == [id |-> id, width |-> Width(row)]
           new == AddRow(nt, row, id)
<1>1. r \in [id : Nat, width : Nat]
  BY WidthType
<1>2. nt.tpl \in Templates /\ nt.header \in Rows
      /\ nt.rows \in Seq([id : Nat, width : Nat])
  BY DEF Ntuple
<1>3. new \in Ntuple
  <2>1. Append(nt.rows, r) \in Seq([id : Nat, width : Nat])
    BY <1>1, <1>2
  <2> QED BY <1>2, <2>1, TemplateAfterType DEF AddRow, Ntuple
<1>4. new.header = nt.header /\ new.rows \in {nt.rows, Append(nt.rows, r)}
  BY DEF AddRow, Ntuple
<1>5. PICK k : IsWritableLen(nt, k)
  BY DEF Stops
<1>8. r.width = Width(row) /\ Len(nt.rows) \in Nat
  BY <1>2
<1> HIDE DEF new, r
<1>6. ASSUME new.rows = nt.rows PROVE Stops(new)
  BY <1>4, <1>5, <1>6 DEF Stops, IsWritableLen
<1>7. ASSUME new.rows = Append(nt.rows, r) PROVE Stops(new)
  <2>1. /\ Len(new.rows) = Len(nt.rows) + 1
        /\ \A j \in 1 .. Len(nt.rows) : new.rows[j] = nt.rows[j]
        /\ new.rows[Len(nt.rows) + 1] = r
    BY <1>1, <1>2, <1>7
  <2>2. CASE k < Len(nt.rows) \/ r.width # Width(nt.header)
    <3>1. k \in 0 .. Len(nt.rows)
          /\ \A j \in 1 .. k : nt.rows[j].width = Width(new.header)
      BY <1>4, <1>5 DEF IsWritableLen
    <3>2. k \in 0 .. Len(new.rows)
          /\ \A j \in 1 .. k : new.rows[j].width = Width(new.header)
      BY <1>8, <2>1, <3>1
    <3>3. CASE k < Len(nt.rows)
      <4>1. nt.rows[k + 1].width # Width(new.header)
        BY <1>4, <1>5, <3>3 DEF IsWritableLen
      <4>4. k + 1 \in 1 .. Len(nt.rows)
        BY <1>8, <3>1, <3>3
      <4>2. new.rows[k + 1].width # Width(new.header)
        BY <2>1, <4>1, <4>4
      <4>3. IsWritableLen(new, k)
        BY <3>2, <4>2 DEF IsWritableLen
      <4> QED BY <4>3 DEF Stops
    <3>4. CASE ~(k < Len(nt.rows))
      <4>1. k = Len(nt.rows) /\ r.width # Width(new.header)
        BY <1>4, <1>8, <2>2, <3>1, <3>4
      <4>2. new.rows[Len(nt.rows) + 1].width # Width(new.header)
        BY <2>1, <4>1
      <4>3. IsWritableLen(new, Len(nt.rows))
        BY <3>2, <4>1, <4>2 DEF IsWritableLen
      <4> QED BY <4>3 DEF Stops
    <3> QED BY <3>3, <3>4
  <2>3. CASE k = Len(nt.rows) /\ r.width = Width(nt.header)
    <3>1. IsWritableLen(new, k + 1)
      BY <1>4, <1>5, <1>8, <2>1, <2>3 DEF IsWritableLen
    <3> QED BY <3>1 DEF Stops
  <2> QED BY <1>5, <1>8, <2>2, <2>3 DEF IsWritableLen
<1> QED BY <1>3, <1>4, <1>6, <1>7 DEF new

LEMMA WritableType ==
  ASSUME NEW nt \in Ntuple, Stops(nt)
  PROVE  Writable(nt) \in Seq(Nat)
<1> DEFINE len == CHOOSE k \in 0 .. Len(nt.rows) : IsWritableLen(nt, k)
<1>1. len \in 0 .. Len(nt.rows)
  BY DEF Stops, IsWritableLen
<1>2. nt.rows \in Seq([id : Nat, width : Nat])
  BY DEF Ntuple
<1> HIDE DEF len
<1>3. \A j \in 1 .. len : nt.rows[j].id \in Nat
  <2>1. \A j \in 1 .. Len(nt.rows) : nt.rows[j] \in [id : Nat, width : Nat]
    BY <1>2, ElementOfSeq
  <2>2. Len(nt.rows) \in Nat
    BY <1>2
  <2> QED BY <1>1, <2>1, <2>2
<1>4. [j \in 1 .. len |-> nt.rows[j].id] \in Seq(Nat)
  BY <1>1, <1>3
<1> QED BY <1>4 DEF Writable, len

(***************************************************************************)
(* Files.                                                                  *)
(***************************************************************************)
LEMMA EmptyFileType == EmptyFile \in Contents
BY DEF EmptyFile, Contents

LEMMA ContentType ==
  ASSUME NEW file \in Contents \cup {NoFile}
  PROVE  ContentOf(file) \in Contents
BY EmptyFileType DEF ContentOf

LEMMA OpenedType ==
  ASSUME NEW file \in Contents \cup {NoFile}, NEW mode
  PROVE  Opened(file, mode) \in Contents
BY EmptyFileType, ContentType DEF Opened

LEMMA EmptyCacheType == EmptyCache \in [Names -> Ntuple \cup {NoNtuple}]
BY DEF EmptyCache

\* Every block of a cache has a place where its writing stops.
CacheStops(cache) ==
  \A n \in Names : cache[n] # NoNtuple => Stops(cache[n])

LEMMA PendingType ==
  ASSUME NEW cache \in [Names -> Ntuple \cup {NoNtuple}], CacheStops(cache),
         NEW n \in Names
  PROVE  Pending(cache, n) \in Seq(Nat)
<1>1. CASE cache[n] = NoNtuple
  BY <1>1 DEF Pending
<1>2. CASE cache[n] # NoNtuple
  <2>1. cache[n] \in Ntuple /\ Stops(cache[n])
    BY <1>2 DEF CacheStops
  <2> QED BY <1>2, <2>1, WritableType DEF Pending
<1> QED BY <1>1, <1>2

LEMMA WithTreesRows ==
  ASSUME NEW content \in Contents,
         NEW cache \in [Names -> Ntuple \cup {NoNtuple}], CacheStops(cache)
  PROVE  /\ WithTrees(content, cache) \in Contents
         /\ \A n \in Names :
              WithTrees(content, cache)[n].rows
                = content[n].rows \o Pending(cache, n)
<1> DEFINE new == WithTrees(content, cache)
<1>1. ASSUME NEW n \in Names
      PROVE  /\ new[n] \in [rows : Seq(Nat), cycles : Nat]
             /\ new[n].rows = content[n].rows \o Pending(cache, n)
  <2>1. content[n] \in [rows : Seq(Nat), cycles : Nat]
    BY DEF Contents
  <2>2. CASE cache[n] = NoNtuple
    <3>1. new[n] = content[n] /\ Pending(cache, n) = <<>>
      BY <2>2 DEF WithTrees, Pending
    <3>2. content[n].rows \o <<>> = content[n].rows
      BY <2>1, ConcatEmptySeq
    <3> QED BY <2>1, <3>1, <3>2
  <2>3. CASE cache[n] # NoNtuple
    <3>1. Writable(cache[n]) = Pending(cache, n)
      BY <2>3 DEF Pending
    <3>2. new[n] = [rows   |-> content[n].rows \o Pending(cache, n),
                    cycles |-> content[n].cycles + 1]
      BY <2>3, <3>1 DEF WithTrees
    <3>3. content[n].rows \o Pending(cache, n) \in Seq(Nat)
      BY <2>1, PendingType, ConcatProperties
    <3> QED BY <2>1, <3>2, <3>3
  <2> QED BY <2>2, <2>3
<1>2. new = [n \in Names |-> new[n]]
  BY DEF WithTrees
<1> HIDE DEF new
<1>3. new \in Contents
  BY <1>1, <1>2 DEF Contents
<1> QED BY <1>1, <1>3 DEF new

(***************************************************************************)
(* RootDataCache::write.                                                   *)
(***************************************************************************)
\* What the code relies on when it writes: nothing to save means nothing
\* cached, and an open stream or TFile has a file under it.
WriterOK(w, file, bak) ==
  /\ CacheStops(w.cache)
  /\ ~w.needsSave => w.cache = EmptyCache
  /\ w.at = "file" => file # NoFile
  /\ w.at = "backup" => bak # NoFile

\* What a flush of writer w leaves in its result.
Flushed(w, res) ==
  /\ res.w \in Writer
  /\ res.w.items = w.items /\ res.w.cache = EmptyCache
  /\ res.w.needsSave = FALSE
  /\ res.file \in Contents \cup {NoFile}
  /\ res.bak \in Contents \cup {NoFile}
  /\ res.opened \in BOOLEAN
  /\ res.opened => w.at = "nowhere"
  /\ res.w.at = "nowhere" <=> (w.at = "nowhere" /\ ~res.opened)
  /\ WriterOK(res.w, res.file, res.bak)

LEMMA FlushType ==
  ASSUME NEW w \in Writer, NEW file \in Contents \cup {NoFile},
         NEW bak \in Contents \cup {NoFile}, WriterOK(w, file, bak)
  PROVE  Flushed(w, Flush(w, file, bak))
<1> DEFINE renames == Backup /\ file # NoFile
           file1   == IF renames THEN NoFile ELSE file
           bak1    == IF renames THEN file ELSE bak
           at1     == IF renames /\ w.at = "file" THEN "backup" ELSE w.at
           opens   == at1 = "nowhere"
           file2   == IF opens THEN Opened(file1, fileMode) ELSE file1
           done    == [w EXCEPT !.at = IF opens THEN "file" ELSE at1,
                                !.cache = EmptyCache, !.needsSave = FALSE]
           res     == Flush(w, file, bak)
<1>1. CASE ~w.needsSave
  <2>1. res = [w |-> w, file |-> file, bak |-> bak, opened |-> FALSE]
    BY <1>1 DEF Flush, Opens, Cleared
  <2> HIDE DEF res
  <2>2. w.cache = EmptyCache /\ w.needsSave = FALSE
    BY <1>1 DEF WriterOK, Writer
  <2> QED BY <2>1, <2>2 DEF res, Flushed, Writer
<1>2. CASE w.needsSave
  <2>1. res = IF done.at = "file"
              THEN [w |-> done, file |-> WithTrees(file2, w.cache),
                    bak |-> bak1, opened |-> opens]
              ELSE [w |-> done, file |-> file2,
                    bak |-> WithTrees(bak1, w.cache), opened |-> opens]
    BY <1>2 DEF Flush, Opens, Cleared
  <2>2. /\ w.at \in {"nowhere", "file", "backup"} /\ CacheStops(w.cache)
        /\ w.cache \in [Names -> Ntuple \cup {NoNtuple}]
    BY DEF WriterOK, Writer
  <2>3. /\ done \in Writer /\ done.items = w.items /\ done.cache = EmptyCache
        /\ done.needsSave = FALSE /\ done.at = IF opens THEN "file" ELSE at1
    BY EmptyCacheType DEF Writer
  <2>4. CacheStops(EmptyCache)
    BY DEF CacheStops, EmptyCache
  <2>5. /\ file1 \in Contents \cup {NoFile} /\ bak1 \in Contents \cup {NoFile}
        /\ file2 \in Contents \cup {NoFile}
    BY OpenedType
  <2>6. done.at = "file" => file2 \in Contents
    BY <2>2, <2>3, OpenedType DEF WriterOK
  <2>7. done.at # "file" => done.at = "backup" /\ bak1 \in Contents
    BY <2>2, <2>3 DEF WriterOK
  <2>8. /\ done.at = "file" => WithTrees(file2, w.cache) \in Contents
        /\ done.at # "file" => WithTrees(bak1, w.cache) \in Contents
    BY <2>2, <2>6, <2>7, WithTreesRows
  <2>9. opens <=> w.at = "nowhere"
    BY <2>2
  <2>10. opens \in BOOLEAN /\ (opens => done.at = "file")
    BY <2>3
  <2> HIDE DEF done, res, opens, file2, bak1
  <2>11. CASE done.at = "file"
    <3>1. /\ res.w = done /\ res.file = WithTrees(file2, w.cache)
          /\ res.bak = bak1 /\ res.opened = opens
      BY <2>1, <2>11
    <3>2. res.file \in Contents /\ res.file # NoFile
      BY <2>8, <2>11, <3>1, MarkersAssumption
    <3>3. WriterOK(res.w, res.file, res.bak)
      BY <2>3, <2>4, <2>11, <3>1, <3>2 DEF WriterOK
    <3>4. res.w.at = "nowhere" <=> (w.at = "nowhere" /\ ~res.opened)
      BY <2>9, <2>11, <3>1
    <3> QED BY <2>3, <2>5, <2>9, <2>10, <3>1, <3>2, <3>3, <3>4 DEF res, Flushed
  <2>12. CASE done.at # "file"
    <3>1. /\ res.w = done /\ res.file = file2
          /\ res.bak = WithTrees(bak1, w.cache) /\ res.opened = opens
      BY <2>1, <2>12
    <3>2. res.bak \in Contents /\ res.bak # NoFile
      BY <2>8, <2>12, <3>1, MarkersAssumption
    <3>3. WriterOK(res.w, res.file, res.bak)
      BY <2>3, <2>4, <2>7, <2>12, <3>1, <3>2 DEF WriterOK
    <3>4. res.w.at = "nowhere" <=> (w.at = "nowhere" /\ ~res.opened)
      BY <2>7, <2>9, <2>10, <2>12, <3>1
    <3> QED BY <2>3, <2>5, <2>9, <2>10, <3>1, <3>2, <3>3, <3>4 DEF res, Flushed
  <2> QED BY <2>11, <2>12
<1> QED BY <1>1, <1>2 DEF Writer

(***************************************************************************)
(* Type correctness.                                                       *)
(***************************************************************************)
LiveOK ==
  \A f \in Files : IsLive(f) =>
    /\ WriterOK(writers[f], disk[f], backup[f])
    /\ f \in TextFiles => writers[f].at = "file" /\ ~writers[f].needsSave

TypeInv == TypeOK /\ LiveOK

LEMMA LiveType ==
  ASSUME TypeInv, NEW f \in Files, IsLive(f)
  PROVE  /\ writers[f] \in Writer
         /\ WriterOK(writers[f], disk[f], backup[f])
         /\ writers[f].cache \in [Names -> Ntuple \cup {NoNtuple}]
BY DEF TypeInv, TypeOK, LiveOK, IsLive, Writer

LEMMA AddedType ==
  ASSUME NEW w \in Writer, CacheStops(w.cache), NEW n \in Names,
         NEW row \in Rows, NEW id \in Nat
  PROVE  Added(w, n, row, id) \in Ntuple /\ Stops(Added(w, n, row, id))
<1>1. w.cache[n] \in Ntuple \cup {NoNtuple}
  BY DEF Writer
<1>2. CASE w.cache[n] = NoNtuple
  BY <1>2, NewNtupleType DEF Added
<1>3. CASE w.cache[n] # NoNtuple
  <2>1. w.cache[n] \in Ntuple /\ Stops(w.cache[n])
    BY <1>1, <1>3 DEF CacheStops
  <2> QED BY <1>3, <2>1, AddRowType DEF Added
<1> QED BY <1>2, <1>3

LEMMA NoHistoryType ==
  ASSUME TypeOK, NEW f \in Files
  PROVE  NoHistory(f) \in History
<1>1. ContentOf(disk[f]) \in Contents
  BY ContentType DEF TypeOK
<1>2. [n \in Names |-> <<>>] \in [Names -> Seq(Nat)]
  OBVIOUS
<1> QED BY <1>1, <1>2 DEF NoHistory, History

LEMMA NewWriterType ==
  ASSUME NEW at \in {"nowhere", "file"}
  PROVE  /\ NewWriter(at) \in Writer
         /\ CacheStops(NewWriter(at).cache)
         /\ NewWriter(at).at = at /\ NewWriter(at).cache = EmptyCache
         /\ NewWriter(at).needsSave = FALSE /\ NewWriter(at).items = 0
BY EmptyCacheType DEF NewWriter, Writer, CacheStops, EmptyCache

LEMMA InitType == ASSUME Init PROVE TypeInv
<1>1. OldFile \in Contents
  BY DEF OldFile, Contents
<1>2. disk \in [Files -> Contents \cup {NoFile}]
  BY <1>1 DEF Init
<1>3. TypeOK
  <2>1. \A f \in Files : NoHistory(f) \in History
    <3>1. ASSUME NEW f \in Files PROVE NoHistory(f) \in History
      <4>1. ContentOf(disk[f]) \in Contents
        BY <1>2, ContentType
      <4>2. [n \in Names |-> <<>>] \in [Names -> Seq(Nat)]
        OBVIOUS
      <4> QED BY <4>1, <4>2 DEF NoHistory, History
    <3> QED BY <3>1
  <2> QED BY <1>2, <2>1 DEF Init, TypeOK, FileModes
<1>4. \A f \in Files : ~IsLive(f)
  BY DEF Init, IsLive
<1> QED BY <1>3, <1>4 DEF TypeInv, LiveOK

LEMMA ConfigureType ==
  ASSUME TypeInv, NEW v \in ConfigValues, Configure(v)
  PROVE  TypeInv'
BY DEF TypeInv, TypeOK, LiveOK, IsLive, Configure, WriterOK, CacheStops, Stops,
       IsWritableLen

LEMMA FileType ==
  ASSUME TypeInv, NEW f \in Files, NEW m \in FileModes, File(f, m)
  PROVE  TypeInv'
<1>1. CASE IsLive(f)
  BY <1>1 DEF File, TypeInv, TypeOK, LiveOK, IsLive
<1>2. CASE ~IsLive(f)
  <2> DEFINE eager == f \in TextFiles
             w == NewWriter(IF eager THEN "file" ELSE "nowhere")
             d == IF eager THEN Opened(disk[f], m) ELSE disk[f]
             h == [NoHistory(f) EXCEPT !.asked = m,
                      !.openedAs = IF eager THEN m ELSE "none"]
  <2>1. /\ writers' = [writers EXCEPT ![f] = w]
        /\ disk' = [disk EXCEPT ![f] = d]
        /\ hist' = [hist EXCEPT ![f] = h]
        /\ backup' = backup
    BY <1>2 DEF File, TypeInv, TypeOK
  <2>2. /\ w \in Writer /\ CacheStops(w.cache) /\ w.cache = EmptyCache
        /\ w.needsSave = FALSE
        /\ w.at = IF eager THEN "file" ELSE "nowhere"
    BY NewWriterType
  <2>3. d \in Contents \cup {NoFile} /\ (eager => d # NoFile)
    BY OpenedType, MarkersAssumption DEF TypeInv, TypeOK
  <2>4. h \in History
    BY NoHistoryType DEF History, TypeInv
  <2> HIDE DEF w, d, h
  <2>5. TypeOK'
    BY <2>1, <2>2, <2>3, <2>4 DEF TypeInv, TypeOK, File
  <2>6. WriterOK(w, d, backup[f])
    BY <2>2, <2>3 DEF WriterOK
  <2>7. LiveOK'
    <3>1. ASSUME NEW g \in Files, IsLive(g)'
          PROVE  /\ WriterOK(writers[g], disk[g], backup[g])'
                 /\ g \in TextFiles =>
                      (writers[g].at = "file" /\ ~writers[g].needsSave)'
      <4>1. CASE g = f
        BY <2>1, <2>2, <2>6, <4>1 DEF TypeInv, TypeOK
      <4>2. CASE g # f
        <5>1. /\ writers'[g] = writers[g] /\ disk'[g] = disk[g]
              /\ backup'[g] = backup[g] /\ IsLive(g)
          BY <2>1, <3>1, <4>2 DEF TypeInv, TypeOK, IsLive
        <5> QED BY <5>1 DEF TypeInv, LiveOK, WriterOK
      <4> QED BY <4>1, <4>2
    <3> QED BY <3>1 DEF LiveOK
  <2> QED BY <2>5, <2>7 DEF TypeInv
<1> QED BY <1>1, <1>2

LEMMA SaveTextType ==
  ASSUME TypeInv, NEW f \in Files, NEW n \in Names, NEW row \in SavedRows,
         SaveText(f, n, row)
  PROVE  TypeInv'
<1>1. CASE ~HasData(row)
  BY <1>1 DEF SaveText, TypeInv, TypeOK, LiveOK, IsLive
<1>2. CASE HasData(row)
  <2>1. disk[f] \in Contents
    BY LiveType DEF SaveText, TypeInv, TypeOK, LiveOK, WriterOK
  <2> DEFINE d == [disk[f] EXCEPT ![n].rows = Append(@, saved + 1)]
             h == [hist[f] EXCEPT !.accepted[n] = Append(@, saved + 1)]
  <2>2. saved + 1 \in Nat
    BY DEF TypeInv, TypeOK
  <2>3. d \in Contents
    <3>1. disk[f][n] \in [rows : Seq(Nat), cycles : Nat]
      BY <2>1 DEF Contents
    <3>2. [disk[f][n] EXCEPT !.rows = Append(disk[f][n].rows, saved + 1)]
            \in [rows : Seq(Nat), cycles : Nat]
      <4>1. Append(disk[f][n].rows, saved + 1) \in Seq(Nat)
        BY <2>2, <3>1
      <4> QED BY <3>1, <4>1
    <3> QED BY <2>1, <3>2 DEF Contents
  <2>4. h \in History
    <3>1. hist[f] \in History
      BY DEF TypeInv, TypeOK
    <3>2. hist[f].accepted \in [Names -> Seq(Nat)]
      BY <3>1 DEF History
    <3>3. Append(hist[f].accepted[n], saved + 1) \in Seq(Nat)
      BY <2>2, <3>2
    <3>4. [hist[f].accepted EXCEPT ![n] = Append(hist[f].accepted[n], saved + 1)]
            \in [Names -> Seq(Nat)]
      BY <3>2, <3>3
    <3> QED BY <3>1, <3>4 DEF History
  <2>5. /\ disk' = [disk EXCEPT ![f] = d] /\ hist' = [hist EXCEPT ![f] = h]
        /\ saved' = saved + 1
    BY <1>2 DEF SaveText
  <2>6. UNCHANGED <<fileMode, configMode, appendStatic, writers, backup>>
    BY DEF SaveText
  <2> HIDE DEF d, h
  <2>7. TypeOK'
    BY <2>2, <2>3, <2>4, <2>5, <2>6 DEF TypeInv, TypeOK
  <2>8. LiveOK'
    <3>1. \A g \in Files : disk'[g] = NoFile => disk[g] = NoFile
      BY <2>1, <2>3, <2>5, MarkersAssumption DEF TypeInv, TypeOK
    <3> QED BY <2>6, <3>1 DEF TypeInv, LiveOK, IsLive, WriterOK
  <2> QED BY <2>7, <2>8 DEF TypeInv
<1> QED BY <1>1, <1>2

\* The writer after RootWriter::save(map) has added the row, before write().
Adding(w, n, row, id) ==
  [w EXCEPT !.cache[n] = Added(w, n, row, id), !.needsSave = TRUE,
            !.items = IF FlushTime(w) THEN 0 ELSE @ + 1,
            !.flushed = @ \/ FlushTime(w)]

\* What the whole of RootWriter::save(map) leaves behind.
SaveResult(f, w1) ==
  IF FlushTime(writers[f]) THEN Flush(w1, disk[f], backup[f])
  ELSE [w |-> w1, file |-> disk[f], bak |-> backup[f], opened |-> FALSE]

LEMMA AddingType ==
  ASSUME NEW w \in Writer, CacheStops(w.cache), NEW n \in Names,
         NEW row \in Rows, NEW id \in Nat,
         NEW w1, w1 = Adding(w, n, row, id)
  PROVE  /\ w1 \in Writer /\ CacheStops(w1.cache)
         /\ w1.at = w.at /\ w1.needsSave
         /\ w1.cache = [w.cache EXCEPT ![n] = Added(w, n, row, id)]
         /\ w1.items = IF FlushTime(w) THEN 0 ELSE w.items + 1
<1> DEFINE nt == Added(w, n, row, id)
<1>1. nt \in Ntuple /\ Stops(nt)
  BY AddedType
<1> HIDE DEF nt
<1>2. FlushTime(w) \in BOOLEAN
  BY DEF FlushTime
<1>3. /\ w.cache \in [Names -> Ntuple \cup {NoNtuple}] /\ w.items \in Nat
      /\ w.flushed \in BOOLEAN
  BY DEF Writer
<1>4. [w.cache EXCEPT ![n] = nt] \in [Names -> Ntuple \cup {NoNtuple}]
  BY <1>1, <1>3
<1>5. w1 = [w EXCEPT !.cache = [w.cache EXCEPT ![n] = nt], !.needsSave = TRUE,
              !.items = IF FlushTime(w) THEN 0 ELSE w.items + 1,
              !.flushed = w.flushed \/ FlushTime(w)]
  BY DEF Adding, Writer, nt
<1>6. w1 \in Writer
  <2>1. ASSUME NEW c \in [Names -> Ntuple \cup {NoNtuple}], NEW i \in Nat,
               NEW b \in BOOLEAN
        PROVE  [w EXCEPT !.cache = c, !.needsSave = TRUE, !.items = i,
                         !.flushed = b] \in Writer
    BY DEF Writer
  <2>2. (w.flushed \/ FlushTime(w)) \in BOOLEAN
    BY <1>2, <1>3
  <2>3. (IF FlushTime(w) THEN 0 ELSE w.items + 1) \in Nat
    BY <1>3
  <2> QED BY ONLY <1>4, <1>5, <2>1, <2>2, <2>3
<1>7. w1.cache = [w.cache EXCEPT ![n] = nt] /\ w1.needsSave
      /\ w1.at = w.at /\ w1.items = IF FlushTime(w) THEN 0 ELSE w.items + 1
  BY <1>5 DEF Writer
<1>8. CacheStops(w1.cache)
  BY <1>1, <1>3, <1>7 DEF CacheStops
<1> QED BY <1>6, <1>7, <1>8 DEF nt

\* The step of SaveRoot, given its result.
SavesRoot(f, n, row, res) ==
  /\ IsLive(f) /\ f \in RootFiles
  /\ writers' = [writers EXCEPT ![f] = res.w]
  /\ disk' = [disk EXCEPT ![f] = res.file]
  /\ backup' = [backup EXCEPT ![f] = res.bak]
  /\ hist' = [hist EXCEPT
       ![f].openedAs = IF res.opened THEN fileMode ELSE @,
       ![f].accepted[n] = IF HasData(row) /\ Takes(writers[f], n, row)
                          THEN Append(@, saved + 1) ELSE @]
  /\ saved' = saved + 1
  /\ UNCHANGED <<fileMode, configMode, appendStatic>>

LEMMA SaveRootIs ==
  ASSUME TypeInv, NEW f \in Files, NEW n \in Names, NEW row \in SavedRows,
         SaveRoot(f, n, row)
  PROVE  SavesRoot(f, n, row,
                   SaveResult(f, Adding(writers[f], n, row, saved + 1)))
BY DEF SaveRoot, SaveResult, Adding, SavesRoot

LEMMA SaveResultType ==
  ASSUME TypeInv, NEW f \in Files, IsLive(f), NEW n \in Names,
         NEW row \in SavedRows
  PROVE  LET w1  == Adding(writers[f], n, row, saved + 1)
             res == SaveResult(f, w1)
         IN  /\ res.w \in Writer
             /\ res.file \in Contents \cup {NoFile}
             /\ res.bak \in Contents \cup {NoFile}
             /\ res.opened \in BOOLEAN
             /\ WriterOK(res.w, res.file, res.bak)
             /\ WriterOK(w1, disk[f], backup[f])
<1> DEFINE w1  == Adding(writers[f], n, row, saved + 1)
           res == SaveResult(f, w1)
<1>1. /\ row \in Rows /\ saved + 1 \in Nat
      /\ disk[f] \in Contents \cup {NoFile} /\ backup[f] \in Contents \cup {NoFile}
  BY FacadeAssumption DEF TypeInv, TypeOK
<1>2. /\ writers[f] \in Writer /\ CacheStops(writers[f].cache)
      /\ WriterOK(writers[f], disk[f], backup[f])
  BY LiveType DEF WriterOK
<1>3. /\ w1 \in Writer /\ CacheStops(w1.cache) /\ w1.at = writers[f].at
      /\ w1.needsSave
  <2> DEFINE id == saved + 1
             w  == writers[f]
             x  == Adding(w, n, row, id)
  <2>1. id \in Nat /\ row \in Rows /\ w \in Writer /\ CacheStops(w.cache)
    BY <1>1, <1>2
  <2> HIDE DEF id, w
  <2> HIDE DEF x
  <2>2. x \in Writer /\ CacheStops(x.cache) /\ x.at = w.at /\ x.needsSave
    <3>1. x = Adding(w, n, row, id)
      BY DEF x
    <3>2. /\ x \in Writer /\ CacheStops(x.cache)
          /\ x.at = w.at /\ x.needsSave
          /\ x.cache = [w.cache EXCEPT ![n] = Added(w, n, row, id)]
          /\ x.items = IF FlushTime(w) THEN 0 ELSE w.items + 1
      BY <2>1, <3>1, AddingType
    <3> QED BY <3>2
  <2> QED BY <2>2 DEF id, w, x
<1> HIDE DEF w1
<1>4. WriterOK(w1, disk[f], backup[f])
  BY <1>2, <1>3 DEF WriterOK
<1>5. CASE FlushTime(writers[f])
  <2>1. res = Flush(w1, disk[f], backup[f])
    BY <1>5 DEF SaveResult
  <2> HIDE DEF res
  <2>2. /\ res.w \in Writer /\ res.opened \in BOOLEAN
        /\ res.file \in Contents \cup {NoFile} /\ res.bak \in Contents \cup {NoFile}
        /\ WriterOK(res.w, res.file, res.bak)
    BY <1>1, <1>3, <1>4, <2>1, FlushType DEF Flushed
  <2> QED BY <1>4, <2>2 DEF w1, res
<1>6. CASE ~FlushTime(writers[f])
  <2>1. res = [w |-> w1, file |-> disk[f], bak |-> backup[f], opened |-> FALSE]
    BY <1>6 DEF SaveResult
  <2> HIDE DEF res
  <2>2. /\ res.w = w1 /\ res.file = disk[f] /\ res.bak = backup[f]
        /\ res.opened = FALSE
    BY <2>1
  <2>3. /\ res.w \in Writer /\ res.opened \in BOOLEAN
        /\ res.file \in Contents \cup {NoFile} /\ res.bak \in Contents \cup {NoFile}
        /\ WriterOK(res.w, res.file, res.bak)
    BY <1>1, <1>3, <1>4, <2>2
  <2> QED BY <1>4, <2>3 DEF w1, res
<1> QED BY <1>5, <1>6

LEMMA SaveRootType ==
  ASSUME TypeInv, NEW f \in Files, NEW n \in Names, NEW row \in SavedRows,
         SaveRoot(f, n, row)
  PROVE  TypeInv'
<1> DEFINE w1  == Adding(writers[f], n, row, saved + 1)
           res == SaveResult(f, w1)
<1>0. SavesRoot(f, n, row, res)
  BY SaveRootIs
<1> HIDE DEF res
<1>1. /\ IsLive(f) /\ f \in RootFiles
      /\ writers' = [writers EXCEPT ![f] = res.w]
      /\ disk' = [disk EXCEPT ![f] = res.file]
      /\ backup' = [backup EXCEPT ![f] = res.bak]
      /\ hist' = [hist EXCEPT
           ![f].openedAs = IF res.opened THEN fileMode ELSE @,
           ![f].accepted[n] = IF HasData(row) /\ Takes(writers[f], n, row)
                              THEN Append(@, saved + 1) ELSE @]
      /\ saved' = saved + 1
      /\ UNCHANGED <<fileMode, configMode, appendStatic>>
  BY <1>0 DEF SavesRoot
<1> USE DEF res
<1>2. /\ res.w \in Writer /\ res.opened \in BOOLEAN
      /\ res.file \in Contents \cup {NoFile} /\ res.bak \in Contents \cup {NoFile}
      /\ WriterOK(res.w, res.file, res.bak)
  BY <1>1, SaveResultType
<1> HIDE DEF w1, res
<1>3. hist' \in [Files -> History]
  <2>1. hist[f] \in History /\ hist \in [Files -> History] /\ saved \in Nat
        /\ fileMode \in FileModes
    BY DEF TypeInv, TypeOK
  <2>2. ASSUME NEW h \in History, NEW o \in FileModes \cup {"none"},
               NEW s \in Seq(Nat)
        PROVE  [h EXCEPT !.openedAs = o, !.accepted[n] = s] \in History
    BY DEF History
  <2>3. hist[f].accepted[n] \in Seq(Nat) /\ hist[f].openedAs \in FileModes \cup {"none"}
    BY <2>1 DEF History
  <2> DEFINE o == IF res.opened THEN fileMode ELSE hist[f].openedAs
             s == IF HasData(row) /\ Takes(writers[f], n, row)
                  THEN Append(hist[f].accepted[n], saved + 1)
                  ELSE hist[f].accepted[n]
  <2>4. o \in FileModes \cup {"none"} /\ s \in Seq(Nat)
    BY <2>1, <2>3
  <2>5. hist' = [hist EXCEPT ![f] = [hist[f] EXCEPT !.openedAs = o, !.accepted[n] = s]]
    BY <1>1, <2>1 DEF History
  <2> HIDE DEF o, s
  <2> QED BY <2>1, <2>2, <2>4, <2>5
<1>4. TypeOK'
  BY <1>1, <1>2, <1>3 DEF TypeInv, TypeOK
<1>5. LiveOK'
  <2>1. ASSUME NEW g \in Files, IsLive(g)'
        PROVE  /\ WriterOK(writers[g], disk[g], backup[g])'
               /\ g \in TextFiles =>
                    (writers[g].at = "file" /\ ~writers[g].needsSave)'
    <3>1. CASE g = f
      BY <1>1, <1>2, <3>1, FacadeAssumption DEF TypeInv, TypeOK
    <3>2. CASE g # f
      <4>1. /\ writers'[g] = writers[g] /\ disk'[g] = disk[g]
            /\ backup'[g] = backup[g] /\ IsLive(g)
        BY <1>1, <2>1, <3>2 DEF TypeInv, TypeOK, IsLive
      <4> QED BY <4>1 DEF TypeInv, LiveOK, WriterOK
    <3> QED BY <3>1, <3>2
  <2> QED BY <2>1 DEF LiveOK
<1> QED BY <1>4, <1>5 DEF TypeInv

\* The merge script leaves the rows alone.
LEMMA MergedRows ==
  ASSUME NEW file \in Contents \cup {NoFile}
  PROVE  /\ Merged(file) \in Contents \cup {NoFile}
         /\ \A n \in Names :
              ContentOf(Merged(file))[n].rows = ContentOf(file)[n].rows
<1>1. CASE file = NoFile \/ \A n \in Names : file[n].cycles < 2
  BY <1>1 DEF Merged
<1>2. CASE ~(file = NoFile \/ \A n \in Names : file[n].cycles < 2)
  <2> DEFINE new == [n \in Names |->
                       [file[n] EXCEPT !.cycles = IF @ > 1 THEN 1 ELSE @]]
  <2>1. Merged(file) = new /\ file \in Contents
    BY <1>2 DEF Merged
  <2>2. \A n \in Names : /\ new[n] \in [rows : Seq(Nat), cycles : Nat]
                         /\ new[n].rows = file[n].rows
    BY <2>1 DEF Contents
  <2>3. new \in Contents
    BY <2>2 DEF Contents
  <2> HIDE DEF new
  <2> QED BY <2>1, <2>2, <2>3, MarkersAssumption DEF ContentOf
<1> QED BY <1>1, <1>2

LEMMA DestroyedType ==
  ASSUME TypeInv, NEW f \in Files, IsLive(f), NEW works \in BOOLEAN
  PROVE  /\ Destroyed(f, works).file \in Contents \cup {NoFile}
         /\ Destroyed(f, works).bak \in Contents \cup {NoFile}
         /\ Destroyed(f, works).opened \in BOOLEAN
<1> DEFINE d == Destroyed(f, works)
<1>1. disk[f] \in Contents \cup {NoFile} /\ backup[f] \in Contents \cup {NoFile}
  BY DEF TypeInv, TypeOK
<1>2. CASE f \in TextFiles
  <2>1. d = [file |-> disk[f], bak |-> backup[f], opened |-> FALSE]
    BY <1>2 DEF Destroyed
  <2> QED BY <1>1, <2>1
<1>3. CASE f \notin TextFiles
  <2> DEFINE res == Flush(writers[f], disk[f], backup[f])
  <2>1. /\ res.file \in Contents \cup {NoFile} /\ res.bak \in Contents \cup {NoFile}
        /\ res.opened \in BOOLEAN
    BY <1>1, LiveType, FlushType DEF Flushed
  <2>2. d = [file   |-> IF Merges(f) /\ works THEN Merged(res.file) ELSE res.file,
             bak    |-> res.bak,
             opened |-> res.opened]
    BY <1>3 DEF Destroyed
  <2> HIDE DEF res, d
  <2>3. d.file \in {res.file, Merged(res.file)} /\ d.bak = res.bak
        /\ d.opened = res.opened
    BY <2>2
  <2> QED BY <2>1, <2>3, MergedRows DEF d
<1> QED BY <1>2, <1>3

\* What closing does to each file, and to each file that is left alone.
Closes(S, T, left, broken) ==
  /\ writers' = [f \in Files |-> IF f \in T THEN left ELSE writers[f]]
  /\ \A f \in S : LET d == Destroyed(f, f \notin broken)
                  IN  /\ disk'[f] = d.file /\ backup'[f] = d.bak
                      /\ hist'[f] = IF d.opened
                           THEN [hist[f] EXCEPT !.openedAs = fileMode]
                           ELSE hist[f]
  /\ \A f \in Files \ S : /\ disk'[f] = disk[f] /\ backup'[f] = backup[f]
                          /\ hist'[f] = hist[f]
  /\ UNCHANGED <<fileMode, configMode, saved>>
  /\ appendStatic' \in {AppendValue, appendStatic}
  /\ disk' = [f \in Files |-> disk'[f]]
  /\ backup' = [f \in Files |-> backup'[f]]
  /\ hist' = [f \in Files |-> hist'[f]]

LEMMA ClosedFiles ==
  ASSUME NEW S \in SUBSET Files, NEW T \in SUBSET Files, S \subseteq T,
         NEW left \in {Absent, Null}, NEW broken,
         CloseFiles(S, T, left, broken), TypeInv
  PROVE  Closes(S, T, left, broken)
BY DEF CloseFiles, Closes, TypeInv, TypeOK

LEMMA CloseFilesType ==
  ASSUME NEW S \in SUBSET Files, NEW T \in SUBSET Files, S \subseteq T,
         NEW left \in {Absent, Null}, NEW broken,
         CloseFiles(S, T, left, broken), TypeInv, \A f \in S : IsLive(f)
  PROVE  TypeInv'
<1>6. Closes(S, T, left, broken)
  BY ClosedFiles
<1>1. \A f \in Files : /\ disk'[f] \in Contents \cup {NoFile}
                       /\ backup'[f] \in Contents \cup {NoFile}
                       /\ hist'[f] \in History
  <2>1. ASSUME NEW f \in S
        PROVE  /\ disk'[f] \in Contents \cup {NoFile}
               /\ backup'[f] \in Contents \cup {NoFile}
               /\ hist'[f] \in History
    <3> DEFINE d == Destroyed(f, f \notin broken)
    <3>1. /\ disk'[f] = d.file /\ backup'[f] = d.bak
          /\ hist'[f] = IF d.opened THEN [hist[f] EXCEPT !.openedAs = fileMode]
                        ELSE hist[f]
      BY <1>6 DEF Closes
    <3>2. hist[f] \in History /\ fileMode \in FileModes
      BY DEF TypeInv, TypeOK
    <3>3. /\ d.file \in Contents \cup {NoFile} /\ d.bak \in Contents \cup {NoFile}
          /\ d.opened \in BOOLEAN
      BY DestroyedType
    <3> HIDE DEF d
    <3>4. [hist[f] EXCEPT !.openedAs = fileMode] \in History
      BY <3>2 DEF History
    <3> QED BY <3>1, <3>2, <3>3, <3>4
  <2>2. ASSUME NEW f \in Files \ S
        PROVE  /\ disk'[f] \in Contents \cup {NoFile}
               /\ backup'[f] \in Contents \cup {NoFile}
               /\ hist'[f] \in History
    <3>1. disk'[f] = disk[f] /\ backup'[f] = backup[f] /\ hist'[f] = hist[f]
      BY <1>6 DEF Closes
    <3> QED BY <3>1 DEF TypeInv, TypeOK
  <2> QED BY <2>1, <2>2
<1>2. appendStatic' \in {"unset", "yes", "no"}
  BY <1>6 DEF Closes, TypeInv, TypeOK, AppendValue
<1>3. /\ writers' = [f \in Files |-> IF f \in T THEN left ELSE writers[f]]
      /\ disk' = [f \in Files |-> disk'[f]]
      /\ backup' = [f \in Files |-> backup'[f]]
      /\ hist' = [f \in Files |-> hist'[f]]
      /\ UNCHANGED <<fileMode, configMode, saved>>
  BY <1>6 DEF Closes
<1>4. TypeOK'
  BY <1>1, <1>2, <1>3 DEF TypeInv, TypeOK
<1>5. LiveOK'
  <2>1. ASSUME NEW g \in Files, IsLive(g)'
        PROVE  /\ WriterOK(writers[g], disk[g], backup[g])'
               /\ g \in TextFiles =>
                    (writers[g].at = "file" /\ ~writers[g].needsSave)'
    <3>1. g \notin T /\ writers'[g] = writers[g] /\ IsLive(g)
      BY <1>3, <2>1 DEF IsLive
    <3>2. disk'[g] = disk[g] /\ backup'[g] = backup[g]
      BY <1>6, <3>1 DEF Closes
    <3> QED BY <3>1, <3>2 DEF TypeInv, LiveOK, WriterOK
  <2> QED BY <2>1 DEF LiveOK
<1> QED BY <1>4, <1>5 DEF TypeInv

\* Every way of closing is an instance of CloseFiles on live files.
LEMMA ClosingIs ==
  ASSUME CloseAll \/ \E f \in Files : Close(f)
  PROVE  \E S \in SUBSET Files, T \in SUBSET Files, left \in {Absent, Null} : \E broken :
           /\ S \subseteq T /\ \A f \in S : IsLive(f)
           /\ \A f \in T \ S : ~IsLive(f)
           /\ CloseFiles(S, T, left, broken) /\ broken \in BrokenMerges
<1>1. CASE CloseAll
  <2>1. PICK broken \in BrokenMerges : CloseFiles({f \in Files : IsLive(f)}, Files, Absent, broken)
    BY <1>1 DEF CloseAll
  <2> QED BY <2>1
<1>2. ASSUME NEW f \in Files, Close(f)
      PROVE  \E S \in SUBSET Files, T \in SUBSET Files, left \in {Absent, Null} : \E broken :
               /\ S \subseteq T /\ \A g \in S : IsLive(g)
               /\ \A g \in T \ S : ~IsLive(g)
               /\ CloseFiles(S, T, left, broken) /\ broken \in BrokenMerges
  <2> DEFINE S == IF IsLive(f) THEN {f} ELSE {}
  <2>1. PICK broken \in BrokenMerges : CloseFiles(S, {f}, Null, broken)
    BY <1>2 DEF Close
  <2>2. S \in SUBSET Files /\ {f} \in SUBSET Files /\ S \subseteq {f}
        /\ (\A g \in S : IsLive(g)) /\ (\A g \in {f} \ S : ~IsLive(g))
    OBVIOUS
  <2> QED BY <2>1, <2>2
<1> QED BY <1>1, <1>2

LEMMA StutterType == ASSUME TypeInv, UNCHANGED vars PROVE TypeInv'
BY DEF TypeInv, TypeOK, LiveOK, IsLive, vars, WriterOK, CacheStops, Stops,
       IsWritableLen

LEMMA NextType == ASSUME TypeInv, [Next]_vars PROVE TypeInv'
<1>1. CASE \E v \in ConfigValues : Configure(v)
  BY <1>1, ConfigureType
<1>2. CASE \E f \in Files, m \in FileModes : File(f, m)
  BY <1>2, FileType
<1>3. ASSUME NEW f \in Files, NEW n \in Names, NEW row \in SavedRows,
             SaveText(f, n, row) \/ SaveRoot(f, n, row)
      PROVE  TypeInv'
  BY <1>3, SaveTextType, SaveRootType
<1>4. CASE CloseAll \/ \E f \in Files : Close(f)
  BY <1>4, ClosingIs, CloseFilesType
<1>5. CASE UNCHANGED vars
  BY <1>5, StutterType
<1> QED BY <1>1, <1>2, <1>3, <1>4, <1>5 DEF Next

\* The writers, their caches, the files and the modes keep their types under
\* every sequence of calls of the facade.
THEOREM TypeCorrect == Spec => []TypeOK
<1>1. TypeInv => TypeOK
  BY DEF TypeInv
<1> QED BY <1>1, InitType, NextType, PTL DEF Spec

THEOREM TypeInvHolds == Spec => []TypeInv
BY InitType, NextType, PTL DEF Spec

(***************************************************************************)
(* The bound on the cache.                                                 *)
(***************************************************************************)
Bounded(w) ==
  /\ IsFiniteSet(CachedRows(w))
  /\ Cardinality(CachedRows(w)) <= w.items
  /\ w.items < FlushAfter \/ w.items = 0

BoundInv == \A f \in RootFiles : IsLive(f) => Bounded(writers[f])

LEMMA EmptyCacheBounded ==
  ASSUME NEW w \in Writer, w.cache = EmptyCache,
         w.items < FlushAfter \/ w.items = 0
  PROVE  Bounded(w)
<1>1. CachedRows(w) = {}
  BY DEF CachedRows, EmptyCache
<1>2. w.items \in Nat
  BY DEF Writer
<1> QED BY <1>1, <1>2, FS_EmptySet DEF Bounded

\* A block grows by one row at most.
LEMMA AddedRows ==
  ASSUME NEW w \in Writer, NEW n \in Names, NEW row \in Rows, NEW id \in Nat
  PROVE  \E j : DOMAIN Added(w, n, row, id).rows
                 \subseteq {j} \cup (IF w.cache[n] = NoNtuple THEN {}
                                  ELSE DOMAIN w.cache[n].rows)
<1> DEFINE nt == w.cache[n]
<1>1. CASE nt = NoNtuple
  <2>1. Added(w, n, row, id).rows = <<[id |-> id, width |-> Width(row)]>>
    BY <1>1 DEF Added, NewNtuple
  <2>2. DOMAIN Added(w, n, row, id).rows = {1}
    BY <2>1
  <2> QED BY <1>1, <2>2
<1>2. CASE nt # NoNtuple
  <2> DEFINE r == [id |-> id, width |-> Width(row)]
             new == Added(w, n, row, id)
  <2>1. nt \in Ntuple
    BY <1>2 DEF Writer
  <2>2. nt.rows \in Seq([id : Nat, width : Nat]) /\ r \in [id : Nat, width : Nat]
    BY <2>1, WidthType DEF Ntuple
  <2>3. new.rows \in {nt.rows, Append(nt.rows, r)}
    BY <1>2, <2>1 DEF Added, AddRow, Ntuple
  <2> HIDE DEF r, new
  <2>4. /\ DOMAIN nt.rows = 1 .. Len(nt.rows) /\ Len(nt.rows) \in Nat
        /\ DOMAIN Append(nt.rows, r) = 1 .. Len(nt.rows) + 1
    BY <2>2
  <2>5. DOMAIN new.rows \subseteq {Len(nt.rows) + 1} \cup DOMAIN nt.rows
    BY <2>3, <2>4
  <2> QED BY <1>2, <2>5 DEF new
<1> QED BY <1>1, <1>2

LEMMA AddingBounded ==
  ASSUME NEW w \in Writer, CacheStops(w.cache), Bounded(w), ~FlushTime(w),
         NEW n \in Names, NEW row \in Rows, NEW id \in Nat
  PROVE  Bounded(Adding(w, n, row, id))
<1> DEFINE w1 == Adding(w, n, row, id)
           nt == Added(w, n, row, id)
<1>1. /\ w1 \in Writer /\ CacheStops(w1.cache)
      /\ w1.at = w.at /\ w1.needsSave
      /\ w1.cache = [w.cache EXCEPT ![n] = nt]
      /\ w1.items = IF FlushTime(w) THEN 0 ELSE w.items + 1
  BY AddingType
<1>2. PICK j : DOMAIN nt.rows \subseteq {j} \cup (IF w.cache[n] = NoNtuple THEN {}
                                              ELSE DOMAIN w.cache[n].rows)
  BY AddedRows
<1>3. w.cache \in [Names -> Ntuple \cup {NoNtuple}] /\ w.items \in Nat
  BY DEF Writer
<1> HIDE DEF w1, nt
<1>4. CachedRows(w1) \subseteq CachedRows(w) \cup {<<n, j>>}
  <2>1. ASSUME NEW m \in Names, w1.cache[m] # NoNtuple, NEW i \in DOMAIN w1.cache[m].rows
        PROVE  <<m, i>> \in CachedRows(w) \cup {<<n, j>>}
    <3>1. CASE m # n
      BY <1>1, <1>3, <2>1, <3>1 DEF CachedRows
    <3>2. CASE m = n /\ i = j
      BY <3>2
    <3>3. CASE m = n /\ i # j
      <4>1. w.cache[n] # NoNtuple /\ i \in DOMAIN w.cache[n].rows
        BY <1>1, <1>2, <1>3, <2>1, <3>3
      <4> QED BY <3>3, <4>1 DEF CachedRows
    <3> QED BY <3>1, <3>2, <3>3
  <2>2. ASSUME NEW p \in CachedRows(w1)
        PROVE  \E m \in Names : w1.cache[m] # NoNtuple
                 /\ \E i \in DOMAIN w1.cache[m].rows : p = <<m, i>>
    BY DEF CachedRows
  <2> QED BY <2>1, <2>2
<1>5. /\ IsFiniteSet(CachedRows(w) \cup {<<n, j>>})
      /\ Cardinality(CachedRows(w) \cup {<<n, j>>}) <= Cardinality(CachedRows(w)) + 1
      /\ Cardinality(CachedRows(w)) \in Nat
  <2>1. IsFiniteSet(CachedRows(w))
    BY DEF Bounded
  <2>2. /\ IsFiniteSet(CachedRows(w) \cup {<<n, j>>})
        /\ Cardinality(CachedRows(w) \cup {<<n, j>>}) =
             IF <<n, j>> \in CachedRows(w) THEN Cardinality(CachedRows(w))
             ELSE Cardinality(CachedRows(w)) + 1
    BY <2>1, FS_AddElement
  <2>3. Cardinality(CachedRows(w)) \in Nat
    BY <2>1, FS_CardinalityType
  <2> QED BY <2>2, <2>3
<1>6. /\ IsFiniteSet(CachedRows(w1))
      /\ Cardinality(CachedRows(w1)) <= Cardinality(CachedRows(w) \cup {<<n, j>>})
      /\ Cardinality(CachedRows(w1)) \in Nat
      /\ Cardinality(CachedRows(w) \cup {<<n, j>>}) \in Nat
  BY <1>4, <1>5, FS_Subset, FS_CardinalityType
<1>7. w1.items = w.items + 1 /\ w1.items < FlushAfter
  BY <1>1, <1>3, FacadeAssumption DEF FlushTime
<1>8. Cardinality(CachedRows(w1)) <= w1.items
  BY <1>3, <1>5, <1>6, <1>7 DEF Bounded
<1> QED BY <1>6, <1>7, <1>8 DEF Bounded, w1

LEMMA BoundNext ==
  ASSUME TypeInv, BoundInv, [Next]_vars
  PROVE  BoundInv'
<1>1. ASSUME \A f \in RootFiles : IsLive(f)' => IsLive(f) /\ writers'[f] = writers[f]
      PROVE  BoundInv'
  BY <1>1 DEF BoundInv, Bounded, CachedRows
<1>2. ASSUME NEW v \in ConfigValues, Configure(v) PROVE BoundInv'
  BY <1>1, <1>2 DEF Configure, IsLive
<1>3. ASSUME NEW f \in Files, NEW m \in FileModes, File(f, m) PROVE BoundInv'
  <2>1. CASE IsLive(f)
    BY <1>1, <1>3, <2>1 DEF File, IsLive
  <2>2. CASE ~IsLive(f)
    <3>1. PICK at \in {"nowhere", "file"} :
            writers' = [writers EXCEPT ![f] = NewWriter(at)]
      BY <1>3, <2>2 DEF File
    <3>2. Bounded(NewWriter(at))
      BY NewWriterType, EmptyCacheBounded
    <3>3. ASSUME NEW g \in RootFiles, IsLive(g)' PROVE Bounded(writers'[g])
      <4>1. g \in Files /\ writers'[g] = IF g = f THEN NewWriter(at) ELSE writers[g]
        BY <3>1 DEF TypeInv, TypeOK, Files
      <4>2. g # f => IsLive(g)
        BY <3>3, <4>1 DEF IsLive
      <4> QED BY <3>2, <4>1, <4>2 DEF BoundInv
    <3> QED BY <3>3 DEF BoundInv, Bounded, CachedRows
  <2> QED BY <2>1, <2>2
<1>4. ASSUME NEW f \in Files, NEW n \in Names, NEW row \in SavedRows,
             SaveText(f, n, row)
      PROVE  BoundInv'
  BY <1>1, <1>4 DEF SaveText, IsLive
<1>5. ASSUME NEW f \in Files, NEW n \in Names, NEW row \in SavedRows,
             SaveRoot(f, n, row)
      PROVE  BoundInv'
  <2> DEFINE w1  == Adding(writers[f], n, row, saved + 1)
             res == SaveResult(f, w1)
  <2>1. IsLive(f) /\ f \in RootFiles /\ writers' = [writers EXCEPT ![f] = res.w]
    <3>1. SavesRoot(f, n, row, res)
      BY <1>5, SaveRootIs
    <3> HIDE DEF res
    <3> QED BY <3>1 DEF SavesRoot
  <2>2. /\ writers[f] \in Writer /\ CacheStops(writers[f].cache)
        /\ row \in Rows /\ saved + 1 \in Nat /\ Bounded(writers[f])
    BY <2>1, LiveType, FacadeAssumption DEF WriterOK, TypeInv, TypeOK, BoundInv
  <2>3. /\ w1 \in Writer /\ CacheStops(w1.cache)
        /\ w1.at = writers[f].at /\ w1.needsSave
        /\ w1.cache = [writers[f].cache EXCEPT ![n] =
                         Added(writers[f], n, row, saved + 1)]
        /\ w1.items = IF FlushTime(writers[f]) THEN 0 ELSE writers[f].items + 1
    BY <2>2, AddingType
  <2>4. ASSUME ~FlushTime(writers[f]) PROVE Bounded(res.w)
    <3>1. Bounded(w1)
      BY <2>2, <2>4, AddingBounded
    <3> HIDE DEF w1
    <3>2. res.w = w1
      BY <2>4 DEF SaveResult
    <3> QED BY ONLY <3>1, <3>2
  <2>5. ASSUME FlushTime(writers[f]) PROVE Bounded(res.w)
    <3>1. res = Flush(w1, disk[f], backup[f])
      BY <2>5 DEF SaveResult
    <3>2. WriterOK(w1, disk[f], backup[f])
      BY <2>1, <2>3, LiveType DEF WriterOK
    <3>3. disk[f] \in Contents \cup {NoFile} /\ backup[f] \in Contents \cup {NoFile}
      BY DEF TypeInv, TypeOK
    <3> HIDE DEF w1
    <3>4. res.w \in Writer /\ res.w.items = w1.items /\ res.w.cache = EmptyCache
      <4>1. Flushed(w1, res)
        BY <2>3, <3>1, <3>2, <3>3, FlushType
      <4> HIDE DEF res
      <4> QED BY <4>1 DEF Flushed
    <3> HIDE DEF res
    <3>6. res.w.items = 0
      BY <2>3, <2>5, <3>4
    <3>5. Bounded(res.w)
      BY <3>4, <3>6, EmptyCacheBounded
    <3> QED BY <3>5 DEF w1
  <2>6. Bounded(res.w)
    BY ONLY <2>4, <2>5
  <2> HIDE DEF res
  <2>7. ASSUME NEW g \in RootFiles, IsLive(g)' PROVE Bounded(writers'[g])
    <3>1. g \in Files /\ writers'[g] = IF g = f THEN res.w ELSE writers[g]
      BY <2>1 DEF TypeInv, TypeOK, Files
    <3>2. g # f => IsLive(g)
      BY <2>7, <3>1 DEF IsLive
    <3> QED BY <2>6, <3>1, <3>2 DEF BoundInv
  <2> QED BY <2>7 DEF BoundInv, Bounded, CachedRows
<1>6. CASE CloseAll \/ \E f \in Files : Close(f)
  <2>1. PICK S \in SUBSET Files, T \in SUBSET Files, left \in {Absent, Null} : \E broken :
          S \subseteq T /\ CloseFiles(S, T, left, broken)
    BY <1>6, ClosingIs
  <2>2. writers' = [f \in Files |-> IF f \in T THEN left ELSE writers[f]]
    BY <2>1 DEF CloseFiles
  <2> QED BY <1>1, <2>2 DEF IsLive, Files
<1>7. CASE UNCHANGED vars
  BY <1>1, <1>7 DEF vars, IsLive
<1> QED BY <1>2, <1>3, <1>4, <1>5, <1>6, <1>7 DEF Next

\* RootWriter:FlushAfter bounds what a root writer caches, over all tuples and
\* whatever rows are saved, rejected or flushed.
THEOREM CacheIsBounded == Spec => []CacheBounded
<1>1. Init => BoundInv
  BY DEF Init, BoundInv, IsLive, Files
<1>2. BoundInv => CacheBounded
  BY DEF BoundInv, CacheBounded, Bounded
<1> QED BY <1>1, <1>2, InitType, NextType, BoundNext, PTL DEF Spec

(***************************************************************************)
(* Conservation of the accepted rows.                                      *)
(***************************************************************************)
LEMMA AppendConcat ==
  ASSUME NEW s \in Seq(Nat), NEW t \in Seq(Nat), NEW x \in Nat
  PROVE  s \o Append(t, x) = Append(s \o t, x)
OBVIOUS

\* All rows of a block have the width of its header, as RootInternalNtuple's
\* writing expects.
Wide(nt) ==
  /\ nt.header \in SavedRows
  /\ \A j \in 1 .. Len(nt.rows) : nt.rows[j].width = Width(nt.header)

Ids(nt) == [j \in 1 .. Len(nt.rows) |-> nt.rows[j].id]

LEMMA WideWritable ==
  ASSUME NEW nt \in Ntuple, Wide(nt)
  PROVE  Writable(nt) = Ids(nt)
<1>1. Len(nt.rows) \in Nat
  BY DEF Ntuple
<1>2. IsWritableLen(nt, Len(nt.rows))
  BY <1>1 DEF Wide, IsWritableLen
<1>3. ASSUME NEW k, IsWritableLen(nt, k) PROVE k = Len(nt.rows)
  <2>1. k \in 0 .. Len(nt.rows)
    BY <1>3 DEF IsWritableLen
  <2>2. ASSUME k < Len(nt.rows) PROVE FALSE
    <3>1. k + 1 \in 1 .. Len(nt.rows)
      BY <1>1, <2>1, <2>2
    <3>2. nt.rows[k + 1].width # Width(nt.header)
      BY <1>3, <2>2 DEF IsWritableLen
    <3> QED BY <3>1, <3>2 DEF Wide
  <2> QED BY <1>1, <2>1, <2>2
<1> DEFINE len == CHOOSE k \in 0 .. Len(nt.rows) : IsWritableLen(nt, k)
<1>4. len = Len(nt.rows)
  BY <1>1, <1>2, <1>3
<1> HIDE DEF len
<1>5. Writable(nt) = [j \in 1 .. len |-> nt.rows[j].id]
  BY DEF Writable, len
<1> QED BY <1>4, <1>5 DEF Ids

LEMMA WideStops == ASSUME NEW nt \in Ntuple, Wide(nt) PROVE Stops(nt)
<1>1. Len(nt.rows) \in Nat
  BY DEF Ntuple
<1>2. IsWritableLen(nt, Len(nt.rows))
  BY <1>1 DEF Wide, IsWritableLen
<1> QED BY <1>2 DEF Stops

LEMMA WideNew ==
  ASSUME NEW row \in SavedRows, NEW id \in Nat
  PROVE  Wide(NewNtuple(row, id)) /\ Ids(NewNtuple(row, id)) = <<id>>
BY DEF Wide, Ids, NewNtuple

LEMMA WideAdd ==
  ASSUME UniformRows, NEW nt \in Ntuple, Wide(nt), NEW row \in SavedRows,
         NEW id \in Nat
  PROVE  /\ Wide(AddRow(nt, row, id))
         /\ Ids(AddRow(nt, row, id)) =
              IF Check(nt.tpl, RawTypes(row)) THEN Append(Ids(nt), id) ELSE Ids(nt)
<1> DEFINE r   == [id |-> id, width |-> Width(row)]
           new == AddRow(nt, row, id)
<1>1. nt.rows \in Seq([id : Nat, width : Nat]) /\ row \in Rows
  BY FacadeAssumption DEF Ntuple
<1>2. r \in [id : Nat, width : Nat] /\ r.id = id /\ r.width = Width(row)
  BY <1>1, WidthType
<1>3. Width(row) = Width(nt.header)
  BY DEF UniformRows, Wide, Width
<1>4. new.header = nt.header /\ new.rows = IF Check(nt.tpl, RawTypes(row))
                                          THEN Append(nt.rows, r) ELSE nt.rows
  BY DEF AddRow, Ntuple
<1> HIDE DEF r, new
<1>5. ASSUME ~Check(nt.tpl, RawTypes(row)) PROVE Wide(new) /\ Ids(new) = Ids(nt)
  BY <1>4, <1>5 DEF Wide, Ids
<1>6. ASSUME Check(nt.tpl, RawTypes(row))
      PROVE  Wide(new) /\ Ids(new) = Append(Ids(nt), id)
  <2>1. new.rows = Append(nt.rows, r)
    BY <1>4, <1>6
  <2>2. /\ Len(nt.rows) \in Nat
        /\ Len(new.rows) = Len(nt.rows) + 1
        /\ \A j \in 1 .. Len(nt.rows) : new.rows[j] = nt.rows[j]
        /\ new.rows[Len(nt.rows) + 1] = r
    BY <1>1, <1>2, <2>1
  <2>3. Wide(new)
    BY <1>2, <1>3, <1>4, <2>2 DEF Wide
  <2>4. \A j \in 1 .. Len(nt.rows) : nt.rows[j].id \in Nat
    <3>1. \A j \in 1 .. Len(nt.rows) : nt.rows[j] \in [id : Nat, width : Nat]
      BY <1>1, ElementOfSeq
    <3> QED BY <3>1
  <2>5. Ids(nt) \in Seq(Nat) /\ Len(Ids(nt)) = Len(nt.rows)
    BY <2>2, <2>4 DEF Ids
  <2>6. Append(Ids(nt), id) =
          [j \in 1 .. Len(nt.rows) + 1 |->
             IF j \in 1 .. Len(nt.rows) THEN nt.rows[j].id ELSE id]
    BY <2>2, <2>5 DEF Ids
  <2>7. \A j \in 1 .. Len(nt.rows) + 1 :
          new.rows[j].id = IF j \in 1 .. Len(nt.rows) THEN nt.rows[j].id ELSE id
    BY <1>2, <2>2
  <2> QED BY <2>2, <2>3, <2>6, <2>7 DEF Ids
<1> QED BY <1>5, <1>6 DEF new

WideCache(cache) == \A n \in Names : cache[n] # NoNtuple => Wide(cache[n])

\* What adding a row does to the rows that a flush would write.
AddsPending(w, n, row, id, cache) ==
  /\ WideCache(cache)
  /\ Pending(cache, n) = IF Takes(w, n, row) THEN Append(Pending(w.cache, n), id)
                         ELSE Pending(w.cache, n)
  /\ \A m \in Names \ {n} : Pending(cache, m) = Pending(w.cache, m)

LEMMA AddedPending ==
  ASSUME UniformRows, NEW w \in Writer, WideCache(w.cache), NEW n \in Names,
         NEW row \in SavedRows, NEW id \in Nat,
         NEW cache, cache = [w.cache EXCEPT ![n] = Added(w, n, row, id)]
  PROVE  AddsPending(w, n, row, id, cache)
<1> DEFINE nt  == w.cache[n]
           new == Added(w, n, row, id)
<1>1. w.cache \in [Names -> Ntuple \cup {NoNtuple}] /\ row \in Rows
  BY FacadeAssumption DEF Writer
<1>2. ASSUME nt = NoNtuple
      PROVE  /\ new \in Ntuple /\ Wide(new)
             /\ Takes(w, n, row) /\ Ids(new) = Append(Pending(w.cache, n), id)
  BY <1>1, <1>2, NewNtupleType, WideNew DEF Added, Takes, Pending
<1>3. ASSUME nt # NoNtuple
      PROVE  /\ new \in Ntuple /\ Wide(new)
             /\ Ids(new) = IF Takes(w, n, row) THEN Append(Pending(w.cache, n), id)
                           ELSE Pending(w.cache, n)
  <2>1. nt \in Ntuple /\ Wide(nt)
    BY <1>1, <1>3 DEF WideCache
  <2>2. Pending(w.cache, n) = Ids(nt)
    BY <1>3, <2>1, WideWritable DEF Pending
  <2>3. new = AddRow(nt, row, id)
    BY <1>3 DEF Added
  <2>4. new \in Ntuple
    BY <1>1, <2>1, <2>3, AddRowType, WideStops
  <2>5. /\ Wide(AddRow(nt, row, id))
        /\ Ids(AddRow(nt, row, id)) =
             IF Check(nt.tpl, RawTypes(row)) THEN Append(Ids(nt), id) ELSE Ids(nt)
    BY <2>1, WideAdd
  <2>6. Takes(w, n, row) <=> Check(nt.tpl, RawTypes(row))
    BY <1>3 DEF Takes
  <2> HIDE DEF nt, new
  <2> QED BY <2>2, <2>3, <2>4, <2>5, <2>6
<1>4. new \in Ntuple /\ Wide(new) /\ new # NoNtuple
  BY <1>2, <1>3, MarkersAssumption
<1>5. Pending(cache, n) = Ids(new)
  BY <1>1, <1>4, WideWritable DEF Pending
<1>6. WideCache(cache)
  BY <1>1, <1>4 DEF WideCache
<1>7. \A m \in Names \ {n} : Pending(cache, m) = Pending(w.cache, m)
  BY <1>1 DEF Pending
<1> QED BY <1>2, <1>3, <1>5, <1>6, <1>7 DEF AddsPending

\* A flush of w that returns res: what is pending goes behind what is on disk
\* or, if the flush opens the file, behind what the mode leaves of it.
FlushWrites(w, file, n, res) ==
  /\ res.w.at = IF w.needsSave THEN "file" ELSE w.at
  /\ res.opened <=> (w.needsSave /\ w.at = "nowhere")
  /\ res.w.cache = EmptyCache
  /\ ContentOf(res.file)[n].rows =
       (IF res.opened THEN Opened(file, fileMode)[n].rows
        ELSE ContentOf(file)[n].rows) \o Pending(w.cache, n)

LEMMA FlushRows ==
  ASSUME ~Backup, NEW w \in Writer, NEW file \in Contents \cup {NoFile},
         NEW bak \in Contents \cup {NoFile}, WriterOK(w, file, bak),
         w.at # "backup", NEW n \in Names,
         NEW res, res = Flush(w, file, bak)
  PROVE  FlushWrites(w, file, n, res)
<1>1. ASSUME ~w.needsSave PROVE FlushWrites(w, file, n, res)
  <2>1. res = [w |-> w, file |-> file, bak |-> bak, opened |-> FALSE]
    BY <1>1 DEF Flush, Opens, Cleared
  <2>2. w.cache = EmptyCache /\ Pending(w.cache, n) = <<>>
    BY <1>1 DEF WriterOK, Pending, EmptyCache
  <2>3. ContentOf(file)[n].rows \in Seq(Nat)
    BY ContentType DEF Contents
  <2>4. ContentOf(file)[n].rows \o <<>> = ContentOf(file)[n].rows
    BY <2>3, ConcatEmptySeq
  <2>5. res.w = w /\ res.file = file /\ res.opened = FALSE
    BY <2>1
  <2> QED BY <1>1, <2>2, <2>4, <2>5 DEF FlushWrites
<1>2. ASSUME w.needsSave PROVE FlushWrites(w, file, n, res)
  <2> DEFINE opens == w.at = "nowhere"
             file2 == IF opens THEN Opened(file, fileMode) ELSE file
             done  == [w EXCEPT !.at = IF opens THEN "file" ELSE w.at,
                                !.cache = EmptyCache, !.needsSave = FALSE]
  <2>1. w.at \in {"nowhere", "file"} /\ CacheStops(w.cache)
        /\ w.cache \in [Names -> Ntuple \cup {NoNtuple}]
    BY DEF Writer, WriterOK
  <2>2. done.at = "file" /\ done.cache = EmptyCache
    BY <2>1 DEF Writer
  <2>3. res = [w |-> done, file |-> WithTrees(file2, w.cache), bak |-> bak,
               opened |-> opens]
    BY <1>2, <2>1, <2>2 DEF Flush, Opens, Cleared
  <2>4. file2 \in Contents
    BY <2>1, OpenedType DEF WriterOK
  <2> HIDE DEF file2, done
  <2>5. /\ WithTrees(file2, w.cache) \in Contents
        /\ \A m \in Names :
             WithTrees(file2, w.cache)[m].rows
               = file2[m].rows \o Pending(w.cache, m)
    BY <2>1, <2>4, WithTreesRows
  <2>6. res.w = done /\ res.opened = opens /\ res.file = WithTrees(file2, w.cache)
    BY <2>3
  <2>7. ContentOf(res.file)[n].rows = file2[n].rows \o Pending(w.cache, n)
    BY <2>5, <2>6, MarkersAssumption DEF ContentOf
  <2>8. file2[n].rows = IF opens THEN Opened(file, fileMode)[n].rows
                        ELSE ContentOf(file)[n].rows
    BY <2>1 DEF file2, ContentOf, WriterOK
  <2> QED BY <1>2, <2>2, <2>6, <2>7, <2>8 DEF FlushWrites
<1> QED BY <1>1, <1>2

\* The inductive form of Conserved for one file, with content d and history h,
\* and its entry w in myWriter.  A writer that has not opened its file has left
\* it as it was, and no block has a row that would stop its writing.
CachedOf(w, n) == IF w \in {Absent, Null} THEN <<>> ELSE Pending(w.cache, n)

Kept(w, d, h) ==
  /\ h.openedAs = "none" => \A n \in Names : ContentOf(d)[n].rows = h.before[n].rows
  /\ w \notin {Absent, Null} =>
       /\ w.at # "backup" /\ WideCache(w.cache)
       /\ w.at = "nowhere" <=> h.openedAs = "none"
  /\ \A n \in Names :
       ContentOf(d)[n].rows \o CachedOf(w, n) = Base(h, n) \o h.accepted[n]

KeepInv == \A f \in Files : Kept(writers[f], disk[f], hist[f])

LEMMA KeepInit == ASSUME Init PROVE KeepInv
<1>1. ASSUME NEW f \in Files PROVE Kept(writers[f], disk[f], hist[f])
  <2>1. ContentOf(disk[f]) \in Contents
    BY <1>1, InitType, ContentType DEF TypeInv, TypeOK
  <2>2. \A n \in Names : ContentOf(disk[f])[n].rows \in Seq(Nat)
    BY <2>1 DEF Contents
  <2>3. writers[f] = Absent /\ hist[f] = NoHistory(f)
    BY DEF Init
  <2>4. hist[f].openedAs = "none" /\ hist[f].before = ContentOf(disk[f])
        /\ \A n \in Names : hist[f].accepted[n] = <<>>
    BY <2>3 DEF NoHistory
  <2> QED BY <2>2, <2>3, <2>4 DEF Kept, CachedOf, Base
<1> QED BY <1>1 DEF KeepInv

\* Writer::file(f, m) builds the writer.
LEMMA KeepFile ==
  ASSUME TypeInv, KeepInv, NEW f \in Files, NEW m \in FileModes, File(f, m)
  PROVE  KeepInv'
<1>1. CASE IsLive(f)
  BY <1>1 DEF File, KeepInv
<1>2. CASE ~IsLive(f)
  <2> DEFINE eager == f \in TextFiles
             w == NewWriter(IF eager THEN "file" ELSE "nowhere")
             d == IF eager THEN Opened(disk[f], m) ELSE disk[f]
             h == [NoHistory(f) EXCEPT !.asked = m,
                      !.openedAs = IF eager THEN m ELSE "none"]
  <2>1. /\ writers' = [writers EXCEPT ![f] = w]
        /\ disk' = [disk EXCEPT ![f] = d]
        /\ hist' = [hist EXCEPT ![f] = h]
    BY <1>2 DEF File, TypeInv, TypeOK
  <2>2. /\ w \in Writer /\ w.cache = EmptyCache
        /\ w.at = IF eager THEN "file" ELSE "nowhere"
    BY NewWriterType
  <2>3. /\ h.openedAs = IF eager THEN m ELSE "none"
        /\ h.before = ContentOf(disk[f])
        /\ \A n \in Names : h.accepted[n] = <<>>
    BY DEF NoHistory
  <2>4. disk[f] \in Contents \cup {NoFile} /\ ContentOf(disk[f]) \in Contents
    BY ContentType DEF TypeInv, TypeOK
  <2>5. ContentOf(d) = IF eager /\ m = "Recreate" THEN EmptyFile
                       ELSE ContentOf(disk[f])
    BY <2>4, EmptyFileType, MarkersAssumption DEF Opened, ContentOf
  <2>6. ASSUME NEW n \in Names
        PROVE  ContentOf(d)[n].rows = Base(h, n) /\ Base(h, n) \in Seq(Nat)
    <3>1. ContentOf(disk[f])[n].rows \in Seq(Nat) /\ <<>> \in Seq(Nat)
      BY <2>4 DEF Contents
    <3>2. EmptyFile[n].rows = <<>>
      BY DEF EmptyFile
    <3> HIDE DEF d, h
    <3> QED BY <2>3, <2>5, <3>1, <3>2 DEF Base
  <2>7. m # "none" /\ w \notin {Absent, Null}
    BY <2>2, MarkersAssumption DEF FileModes
  <2>8. \A n \in Names : CachedOf(w, n) = <<>>
    BY <2>2, <2>7 DEF CachedOf, Pending, EmptyCache
  <2>9. WideCache(w.cache)
    BY <2>2 DEF WideCache, EmptyCache
  <2> HIDE DEF w, d, h
  <2>10. Kept(w, d, h)
    <3>1. \A n \in Names :
            ContentOf(d)[n].rows \o CachedOf(w, n) = Base(h, n) \o h.accepted[n]
      BY <2>3, <2>6, <2>8
    <3>2. h.openedAs = "none" =>
            \A n \in Names : ContentOf(d)[n].rows = h.before[n].rows
      BY <2>3, <2>5, <2>7
    <3>3. w.at # "backup" /\ (w.at = "nowhere" <=> h.openedAs = "none")
      BY <2>2, <2>3, <2>7
    <3> QED BY <2>9, <3>1, <3>2, <3>3 DEF Kept
  <2>11. ASSUME NEW g \in Files PROVE Kept(writers'[g], disk'[g], hist'[g])
    BY <2>1, <2>10 DEF KeepInv, TypeInv, TypeOK
  <2> QED BY <2>11 DEF KeepInv
<1> QED BY <1>1, <1>2

\* TextWriter::save prints the row behind the others.
LEMMA KeepText ==
  ASSUME TypeInv, KeepInv, NEW f \in Files, NEW n \in Names,
         NEW row \in SavedRows, SaveText(f, n, row)
  PROVE  KeepInv'
<1>1. CASE ~HasData(row)
  BY <1>1 DEF SaveText, KeepInv
<1>2. CASE HasData(row)
  <2> DEFINE d == [disk[f] EXCEPT ![n].rows = Append(@, saved + 1)]
             h == [hist[f] EXCEPT !.accepted[n] = Append(@, saved + 1)]
  <2>1. /\ disk' = [disk EXCEPT ![f] = d] /\ hist' = [hist EXCEPT ![f] = h]
        /\ writers' = writers /\ IsLive(f) /\ f \in TextFiles
    BY <1>2 DEF SaveText
  <2>2. /\ saved + 1 \in Nat /\ hist[f] \in History
        /\ writers[f] \in Writer /\ writers[f].at = "file"
        /\ disk[f] \in Contents /\ writers[f].cache = EmptyCache
    BY <2>1, LiveType DEF TypeInv, TypeOK, LiveOK, WriterOK
  <2>3. d \in Contents
    <3>1. disk[f][n] \in [rows : Seq(Nat), cycles : Nat]
      BY <2>2 DEF Contents
    <3>2. [disk[f][n] EXCEPT !.rows = Append(disk[f][n].rows, saved + 1)]
            \in [rows : Seq(Nat), cycles : Nat]
      <4>1. Append(disk[f][n].rows, saved + 1) \in Seq(Nat)
        BY <2>2, <3>1
      <4> QED BY <3>1, <4>1
    <3> QED BY <2>2, <3>2 DEF Contents
  <2>4. ContentOf(d) = d /\ ContentOf(disk[f]) = disk[f]
    BY <2>2, <2>3, MarkersAssumption DEF ContentOf
  <2>5. /\ \A m \in Names : d[m].rows = IF m = n THEN Append(disk[f][n].rows, saved + 1)
                                        ELSE disk[f][m].rows
        /\ disk[f][n].rows \in Seq(Nat)
    BY <2>2 DEF Contents
  <2>6. /\ h.openedAs = hist[f].openedAs /\ h.before = hist[f].before
        /\ \A m \in Names : h.accepted[m] =
             IF m = n THEN Append(hist[f].accepted[n], saved + 1)
             ELSE hist[f].accepted[m]
        /\ hist[f].accepted[n] \in Seq(Nat) /\ Base(hist[f], n) \in Seq(Nat)
    BY <2>2 DEF History, Contents, Base
  <2>7. Kept(writers[f], disk[f], hist[f])
    BY DEF KeepInv
  <2>8. \A m \in Names : CachedOf(writers[f], m) = <<>>
    BY <2>1, <2>2 DEF CachedOf, IsLive, Pending, EmptyCache
  <2>9. hist[f].openedAs # "none"
    BY <2>1, <2>2, <2>7 DEF Kept, IsLive
  <2> HIDE DEF d, h
  <2>10. ASSUME NEW m \in Names
         PROVE  d[m].rows \o <<>> = Base(h, m) \o h.accepted[m]
    <3>1. disk[f][m].rows \o <<>> = Base(hist[f], m) \o hist[f].accepted[m]
      BY <2>4, <2>7, <2>8 DEF Kept
    <3>2. Base(h, m) = Base(hist[f], m)
      BY <2>6 DEF Base
    <3>3. CASE m = n
      <4>1. disk[f][n].rows = Base(hist[f], n) \o hist[f].accepted[n]
        BY <2>5, <3>1, <3>3, ConcatEmptySeq
      <4>2. Append(disk[f][n].rows, saved + 1)
              = Base(hist[f], n) \o Append(hist[f].accepted[n], saved + 1)
        BY <2>2, <2>6, <4>1, AppendConcat
      <4>3. Append(disk[f][n].rows, saved + 1) \o <<>>
              = Append(disk[f][n].rows, saved + 1)
        BY <2>2, <2>5, ConcatEmptySeq
      <4> QED BY <2>5, <2>6, <3>2, <3>3, <4>2, <4>3
    <3>4. CASE m # n
      BY <2>5, <2>6, <3>1, <3>2, <3>4
    <3> QED BY <3>3, <3>4
  <2>11. Kept(writers[f], d, h)
    BY <2>4, <2>6, <2>7, <2>8, <2>9, <2>10 DEF Kept
  <2>12. ASSUME NEW g \in Files PROVE Kept(writers'[g], disk'[g], hist'[g])
    BY <2>1, <2>11 DEF KeepInv, TypeInv, TypeOK
  <2> QED BY <2>12 DEF KeepInv
<1> QED BY <1>1, <1>2

\* A flush keeps what was kept; the history notes the mode if it opens a file.
Noted(h, res) == [h EXCEPT !.openedAs = IF res.opened THEN fileMode ELSE @]

LEMMA FlushKeeps ==
  ASSUME ~Backup, fileMode \in FileModes, NEW w \in Writer,
         NEW file \in Contents \cup {NoFile}, NEW bak \in Contents \cup {NoFile},
         WriterOK(w, file, bak), NEW h \in History, Kept(w, file, h),
         NEW res, res = Flush(w, file, bak)
  PROVE  Kept(res.w, res.file, Noted(h, res))
<1> DEFINE h2 == Noted(h, res)
<1>1. w.at # "backup" /\ (w.at = "nowhere" <=> h.openedAs = "none")
      /\ w \notin {Absent, Null}
  BY MarkersAssumption DEF Kept
<1>2. Flushed(w, res)
  BY FlushType
<1>3. res.w \in Writer /\ res.w \notin {Absent, Null} /\ res.w.cache = EmptyCache
  BY <1>2, MarkersAssumption DEF Flushed
<1>4. h2.before = h.before /\ h2.accepted = h.accepted
      /\ h2.openedAs = IF res.opened THEN fileMode ELSE h.openedAs
  BY DEF Noted, History
<1>5. fileMode # "none"
  BY DEF FileModes
<1> HIDE DEF h2
<1>6. ASSUME NEW n \in Names
      PROVE  /\ ContentOf(res.file)[n].rows \o CachedOf(res.w, n)
                  = Base(h2, n) \o h2.accepted[n]
             /\ h2.openedAs = "none" => ContentOf(res.file)[n].rows = h2.before[n].rows
  <2>1. FlushWrites(w, file, n, res)
    BY <1>1, FlushRows
  <2>2. h.accepted[n] \in Seq(Nat) /\ h.before[n].rows \in Seq(Nat)
    BY DEF History, Contents
  <2>3. ContentOf(file)[n].rows \o Pending(w.cache, n) = Base(h, n) \o h.accepted[n]
    BY <1>1 DEF Kept, CachedOf
  <2>4. h.openedAs = "none" => ContentOf(file)[n].rows = h.before[n].rows
    BY DEF Kept
  <2>5. ContentOf(res.file)[n].rows =
          (IF (IF res.opened THEN fileMode ELSE h.openedAs) = "Recreate"
           THEN <<>> ELSE h.before[n].rows) \o h.accepted[n]
    <3> DEFINE p == Pending(w.cache, n)
               d == ContentOf(file)[n].rows
               a == h.accepted[n]
    <3>1. p \in Seq(Nat)
      BY PendingType DEF WriterOK, Writer
    <3>2. d \in Seq(Nat)
      BY ContentType DEF Contents
    <3>3. ASSUME ~res.opened
          PROVE  ContentOf(res.file)[n].rows = Base(h, n) \o a
      BY <2>1, <2>3, <3>3 DEF FlushWrites
    <3>4. ASSUME res.opened
          PROVE  ContentOf(res.file)[n].rows =
                   (IF fileMode = "Recreate" THEN <<>> ELSE h.before[n].rows) \o a
      <4>1. h.openedAs = "none" /\ d = h.before[n].rows /\ Base(h, n) = d
        BY <1>1, <2>1, <2>4, <3>4 DEF Base, FlushWrites
      <4>2. d \o p = d \o a
        BY <2>3, <4>1
      <4>3. Opened(file, fileMode)[n].rows
              = IF fileMode = "Recreate" THEN <<>> ELSE d
        BY DEF Opened, EmptyFile
      <4>4. ContentOf(res.file)[n].rows = Opened(file, fileMode)[n].rows \o p
        BY <2>1, <3>4 DEF FlushWrites
      <4> HIDE DEF d, p, a
      <4>5. p = a
        <5>1. a \in Seq(Nat)
          BY <2>2 DEF a
        <5> QED BY <3>1, <3>2, <4>2, <5>1, ConcatSimplifications
      <4> QED BY <4>1, <4>3, <4>4, <4>5
    <3> QED BY <3>3, <3>4 DEF Base
  <2>6. CachedOf(res.w, n) = <<>>
    BY <1>3 DEF CachedOf, Pending, EmptyCache
  <2>7. ContentOf(res.file)[n].rows \in Seq(Nat)
    BY <1>2, ContentType DEF Flushed, Contents
  <2>8. ContentOf(res.file)[n].rows \o <<>> = ContentOf(res.file)[n].rows
    BY <2>7, ConcatEmptySeq
  <2>9. Base(h2, n) = IF h2.openedAs = "Recreate" THEN <<>> ELSE h.before[n].rows
    BY <1>4 DEF Base
  <2>10. /\ res.w.at = IF w.needsSave THEN "file" ELSE w.at
         /\ res.opened <=> (w.needsSave /\ w.at = "nowhere")
    BY <2>1 DEF FlushWrites
  <2>11. ASSUME h2.openedAs = "none"
         PROVE  ContentOf(res.file)[n].rows = h2.before[n].rows
    <3>1. ~res.opened /\ h.openedAs = "none"
      BY <1>4, <1>5, <2>11
    <3>2. ~w.needsSave
      BY <1>1, <2>10, <3>1
    <3>3. res.file = file
      BY <3>2 DEF Flush, Opens, Cleared
    <3> QED BY <1>4, <2>4, <3>1, <3>3
  <2>12. ContentOf(res.file)[n].rows \o CachedOf(res.w, n)
           = Base(h2, n) \o h2.accepted[n]
    BY <1>4, <2>5, <2>6, <2>8, <2>9
  <2> QED BY <2>11, <2>12
<1>7. WideCache(res.w.cache)
  BY <1>3 DEF WideCache, EmptyCache
<1>8. res.w.at # "backup" /\ (res.w.at = "nowhere" <=> h2.openedAs = "none")
  <2>1. res.w.at = IF w.needsSave THEN IF w.at = "nowhere" THEN "file" ELSE w.at ELSE w.at
    BY <1>1 DEF Flush, Writer, Opens, Cleared
  <2>2. res.opened <=> (w.needsSave /\ w.at = "nowhere")
    BY <1>1 DEF Flush, Writer, Opens, Cleared
  <2> QED BY <1>1, <1>4, <1>5, <2>1, <2>2
<1> QED BY <1>6, <1>7, <1>8 DEF Kept, h2

\* Closing a writer whose blocks are written, and merging the file's cycles.
LEMMA GoneKeeps ==
  ASSUME NEW w \in Writer, w.cache = EmptyCache, NEW d \in Contents \cup {NoFile},
         NEW h, Kept(w, d, h), NEW left \in {Absent, Null}
  PROVE  Kept(left, d, h) /\ Kept(left, Merged(d), h)
<1>1. \A n \in Names : CachedOf(w, n) = <<>> /\ CachedOf(left, n) = <<>>
  BY MarkersAssumption DEF CachedOf, Pending, EmptyCache
<1>2. Kept(left, d, h)
  BY <1>1 DEF Kept
<1>3. \A n \in Names : ContentOf(Merged(d))[n].rows = ContentOf(d)[n].rows
  BY MergedRows
<1> QED BY <1>1, <1>2, <1>3 DEF Kept

\* The step of ~RootWriter or ~TextWriter.
LEMMA DestroyedKeeps ==
  ASSUME ~Backup, TypeInv, KeepInv, NEW f \in Files, IsLive(f),
         NEW works \in BOOLEAN, NEW left \in {Absent, Null},
         NEW d, d = Destroyed(f, works)
  PROVE  Kept(left, d.file, IF d.opened THEN [hist[f] EXCEPT !.openedAs = fileMode]
                            ELSE hist[f])
<1>1. /\ writers[f] \in Writer /\ WriterOK(writers[f], disk[f], backup[f])
      /\ disk[f] \in Contents \cup {NoFile} /\ backup[f] \in Contents \cup {NoFile}
      /\ hist[f] \in History /\ fileMode \in FileModes
      /\ Kept(writers[f], disk[f], hist[f])
  BY LiveType DEF TypeInv, TypeOK, KeepInv
<1>2. CASE f \in TextFiles
  <2>1. d.file = disk[f] /\ d.opened = FALSE
    BY <1>2 DEF Destroyed
  <2>2. writers[f].cache = EmptyCache
    BY <1>2 DEF TypeInv, LiveOK, WriterOK
  <2> QED BY <1>1, <2>1, <2>2, GoneKeeps
<1>3. CASE f \notin TextFiles
  <2> DEFINE res == Flush(writers[f], disk[f], backup[f])
  <2>1. Kept(res.w, res.file, Noted(hist[f], res))
    BY <1>1, FlushKeeps
  <2>2. Flushed(writers[f], res)
    BY <1>1, FlushType
  <2>3. d = [file   |-> IF Merges(f) /\ works THEN Merged(res.file) ELSE res.file,
             bak    |-> res.bak,
             opened |-> res.opened]
    BY <1>3 DEF Destroyed
  <2> HIDE DEF res
  <2>4. d.file \in {res.file, Merged(res.file)} /\ d.opened = res.opened
    BY <2>3
  <2>5. res.w \in Writer /\ res.w.cache = EmptyCache
        /\ res.file \in Contents \cup {NoFile}
    BY <2>2 DEF Flushed
  <2>6. Kept(left, res.file, Noted(hist[f], res))
        /\ Kept(left, Merged(res.file), Noted(hist[f], res))
    BY <2>1, <2>5, GoneKeeps
  <2>7. Noted(hist[f], res) = IF d.opened THEN [hist[f] EXCEPT !.openedAs = fileMode]
                              ELSE hist[f]
    BY <1>1, <2>4 DEF Noted, History
  <2> QED BY <2>4, <2>6, <2>7
<1> QED BY <1>2, <1>3

LEMMA KeepClose ==
  ASSUME ~Backup, TypeInv, KeepInv,
         NEW S \in SUBSET Files, NEW T \in SUBSET Files, S \subseteq T,
         NEW left \in {Absent, Null}, NEW broken, \A f \in S : IsLive(f),
         \A f \in T \ S : ~IsLive(f), CloseFiles(S, T, left, broken)
  PROVE  KeepInv'
<1>1. Closes(S, T, left, broken)
  BY ClosedFiles
<1>2. ASSUME NEW f \in Files PROVE Kept(writers'[f], disk'[f], hist'[f])
  <2>1. writers'[f] = IF f \in T THEN left ELSE writers[f]
    BY <1>1 DEF Closes
  <2>2. Kept(writers[f], disk[f], hist[f])
    BY DEF KeepInv
  <2>3. CASE f \in S
    <3> DEFINE d == Destroyed(f, f \notin broken)
    <3>1. /\ disk'[f] = d.file
          /\ hist'[f] = IF d.opened THEN [hist[f] EXCEPT !.openedAs = fileMode]
                        ELSE hist[f]
      BY <1>1, <2>3 DEF Closes
    <3>2. Kept(left, d.file,
               IF d.opened THEN [hist[f] EXCEPT !.openedAs = fileMode] ELSE hist[f])
      BY <2>3, DestroyedKeeps
    <3> QED BY <2>1, <2>3, <3>1, <3>2
  <2>4. CASE f \notin S
    <3>1. disk'[f] = disk[f] /\ hist'[f] = hist[f]
      BY <1>1, <2>4 DEF Closes
    <3>2. CASE f \in T
      <4>1. writers[f] \in {Absent, Null}
        BY <2>4, <3>2 DEF IsLive
      <4> QED BY <2>1, <2>2, <3>1, <3>2, <4>1 DEF Kept, CachedOf
    <3>3. CASE f \notin T
      BY <2>1, <2>2, <3>1, <3>3
    <3> QED BY <3>2, <3>3
  <2> QED BY <2>3, <2>4
<1> QED BY <1>2 DEF KeepInv

\* RootWriter::save(map): the row is cached and, at a flush, written.
LEMMA KeepRoot ==
  ASSUME UniformRows, ~Backup, TypeInv, KeepInv, NEW f \in Files, NEW n \in Names,
         NEW row \in SavedRows, SaveRoot(f, n, row)
  PROVE  KeepInv'
<1> DEFINE w   == writers[f]
           w1  == Adding(w, n, row, saved + 1)
           res == SaveResult(f, w1)
           h   == [hist[f] EXCEPT !.accepted[n] =
                     IF Takes(w, n, row) THEN Append(@, saved + 1) ELSE @]
<1>1. SavesRoot(f, n, row, res)
  BY SaveRootIs
<1>2. HasData(row)
  BY DEF UniformRows
<1> HIDE DEF res
<1>3. /\ IsLive(f) /\ writers' = [writers EXCEPT ![f] = res.w]
      /\ disk' = [disk EXCEPT ![f] = res.file]
  BY <1>1 DEF SavesRoot
<1>4. /\ w \in Writer /\ WriterOK(w, disk[f], backup[f]) /\ CacheStops(w.cache)
      /\ disk[f] \in Contents \cup {NoFile} /\ backup[f] \in Contents \cup {NoFile}
      /\ hist[f] \in History /\ fileMode \in FileModes /\ saved + 1 \in Nat
      /\ row \in Rows /\ Kept(w, disk[f], hist[f])
  BY <1>3, LiveType, FacadeAssumption DEF TypeInv, TypeOK, KeepInv, WriterOK
<1>5. h \in History
  <2>1. hist[f].accepted \in [Names -> Seq(Nat)]
    BY <1>4 DEF History
  <2>2. (IF Takes(w, n, row) THEN Append(hist[f].accepted[n], saved + 1)
         ELSE hist[f].accepted[n]) \in Seq(Nat)
    BY <1>4, <2>1
  <2> HIDE DEF w
  <2> QED BY <1>4, <2>1, <2>2 DEF History
<1>6. hist' = [hist EXCEPT ![f] = Noted(h, res)]
  <2>1. hist' = [hist EXCEPT
          ![f].openedAs = IF res.opened THEN fileMode ELSE @,
          ![f].accepted[n] = IF HasData(row) /\ Takes(w, n, row)
                             THEN Append(@, saved + 1) ELSE @]
    BY <1>1 DEF SavesRoot
  <2>2. hist \in [Files -> History]
    BY DEF TypeInv, TypeOK
  <2> HIDE DEF w
  <2> QED BY <1>2, <1>4, <2>1, <2>2 DEF Noted, History
<1>7. /\ w1 \in Writer /\ CacheStops(w1.cache)
      /\ w1.at = w.at /\ w1.needsSave
      /\ w1.cache = [w.cache EXCEPT ![n] = Added(w, n, row, saved + 1)]
      /\ w1.items = IF FlushTime(w) THEN 0 ELSE w.items + 1
  BY <1>4, AddingType
<1>8. WriterOK(w1, disk[f], backup[f])
  BY <1>4, <1>7 DEF WriterOK
<1>9. w.at # "backup" /\ WideCache(w.cache) /\ (w.at = "nowhere" <=> h.openedAs = "none")
  BY <1>3, <1>4 DEF Kept, IsLive, History
<1> HIDE DEF w1
<1>10. /\ WideCache(w1.cache)
       /\ Pending(w1.cache, n) = IF Takes(w, n, row)
                                 THEN Append(Pending(w.cache, n), saved + 1)
                                 ELSE Pending(w.cache, n)
       /\ \A m \in Names \ {n} : Pending(w1.cache, m) = Pending(w.cache, m)
  <2> HIDE DEF w
  <2>1. AddsPending(w, n, row, saved + 1, w1.cache)
    BY <1>4, <1>7, <1>9, AddedPending
  <2> QED BY <2>1 DEF AddsPending
<1>11. Kept(w1, disk[f], h)
  <2>1. w1 \notin {Absent, Null}
    BY <1>7, MarkersAssumption
  <2>2. /\ h.openedAs = hist[f].openedAs /\ h.before = hist[f].before
        /\ \A m \in Names : h.accepted[m] =
             IF m = n /\ Takes(w, n, row) THEN Append(hist[f].accepted[n], saved + 1)
             ELSE hist[f].accepted[m]
        /\ hist[f].accepted[n] \in Seq(Nat) /\ Base(hist[f], n) \in Seq(Nat)
    <3> HIDE DEF w
    <3>1. hist[f].accepted \in [Names -> Seq(Nat)]
          /\ hist[f].before[n].rows \in Seq(Nat)
      BY <1>4 DEF History, Contents
    <3> QED BY <1>4, <3>1 DEF History, Base
  <2> HIDE DEF h
  <2>3. ASSUME NEW m \in Names
        PROVE  ContentOf(disk[f])[m].rows \o CachedOf(w1, m)
                 = Base(h, m) \o h.accepted[m]
    <3>1. ContentOf(disk[f])[m].rows \o Pending(w.cache, m)
            = Base(hist[f], m) \o hist[f].accepted[m]
      BY <1>3, <1>4 DEF Kept, CachedOf, IsLive
    <3>2. Base(h, m) = Base(hist[f], m) /\ CachedOf(w1, m) = Pending(w1.cache, m)
      BY <2>1, <2>2 DEF Base, CachedOf
    <3>3. CASE m = n /\ Takes(w, n, row)
      <4>1. ContentOf(disk[f])[n].rows \in Seq(Nat) /\ Pending(w.cache, n) \in Seq(Nat)
        BY <1>4, ContentType, PendingType DEF Contents, Writer
      <4> HIDE DEF w
      <4>2. ContentOf(disk[f])[n].rows \o Append(Pending(w.cache, n), saved + 1)
              = Append(ContentOf(disk[f])[n].rows \o Pending(w.cache, n), saved + 1)
        BY <1>4, <4>1, AppendConcat
      <4>3. Base(hist[f], n) \o Append(hist[f].accepted[n], saved + 1)
              = Append(Base(hist[f], n) \o hist[f].accepted[n], saved + 1)
        BY <1>4, <2>2, AppendConcat
      <4> QED BY <1>10, <2>2, <3>1, <3>2, <3>3, <4>2, <4>3
    <3>4. CASE ~(m = n /\ Takes(w, n, row))
      <4>1. Pending(w1.cache, m) = Pending(w.cache, m)
        BY <1>10, <3>4
      <4> QED BY <2>2, <3>1, <3>2, <3>4, <4>1
    <3> QED BY <3>3, <3>4
  <2>4. h.openedAs = "none" =>
          \A m \in Names : ContentOf(disk[f])[m].rows = h.before[m].rows
    BY <1>4, <2>2 DEF Kept
  <2> QED BY <1>7, <1>9, <1>10, <2>3, <2>4 DEF Kept
<1>12. Kept(res.w, res.file, Noted(h, res))
  <2>1. CASE FlushTime(w)
    <3>1. res = Flush(w1, disk[f], backup[f])
      BY <2>1 DEF res, SaveResult
    <3> HIDE DEF h, w
    <3> QED BY <1>4, <1>5, <1>7, <1>8, <1>11, <3>1, FlushKeeps
  <2>2. CASE ~FlushTime(w)
    <3>1. res.w = w1 /\ res.file = disk[f] /\ res.opened = FALSE
      BY <2>2 DEF res, SaveResult
    <3> HIDE DEF h, w
    <3>2. Noted(h, res) = h
      BY <1>5, <3>1 DEF Noted, History
    <3> QED BY <1>11, <3>1, <3>2
  <2> QED BY <2>1, <2>2
<1> HIDE DEF h
<1>13. ASSUME NEW g \in Files PROVE Kept(writers'[g], disk'[g], hist'[g])
  BY <1>3, <1>6, <1>12 DEF KeepInv, TypeInv, TypeOK
<1> QED BY <1>13 DEF KeepInv

LEMMA KeepNext ==
  ASSUME UniformRows, ~Backup, TypeInv, KeepInv, [Next]_vars
  PROVE  KeepInv'
<1>1. ASSUME NEW v \in ConfigValues, Configure(v) PROVE KeepInv'
  BY <1>1 DEF Configure, KeepInv
<1>2. ASSUME NEW f \in Files, NEW m \in FileModes, File(f, m) PROVE KeepInv'
  BY <1>2, KeepFile
<1>3. ASSUME NEW f \in Files, NEW n \in Names, NEW row \in SavedRows,
             SaveText(f, n, row) \/ SaveRoot(f, n, row)
      PROVE  KeepInv'
  BY <1>3, KeepText, KeepRoot
<1>4. CASE CloseAll \/ \E f \in Files : Close(f)
  <2>1. PICK S \in SUBSET Files, T \in SUBSET Files, left \in {Absent, Null} : \E broken :
          /\ S \subseteq T /\ \A f \in S : IsLive(f)
          /\ \A f \in T \ S : ~IsLive(f)
          /\ CloseFiles(S, T, left, broken)
    BY <1>4, ClosingIs
  <2> QED BY <2>1, KeepClose
<1>5. CASE UNCHANGED vars
  BY <1>5 DEF vars, KeepInv
<1> QED BY <1>1, <1>2, <1>3, <1>4, <1>5 DEF Next

\* No accepted row is lost, repeated or reordered, whatever files are open at
\* once, in whatever modes, however often the cache is flushed and whether or
\* not the merge script works.
THEOREM RowsAreConserved == Spec => []Conserved
<1>1. KeepInv /\ TypeInv => Conserved
  <2> SUFFICES ASSUME KeepInv, NEW f \in Files, NEW n \in Names
               PROVE  ContentOf(disk[f])[n].rows \o PendingRows(f, n)
                        = Base(hist[f], n) \o hist[f].accepted[n]
    BY DEF Conserved
  <2>1. PendingRows(f, n) = CachedOf(writers[f], n)
    BY DEF PendingRows, CachedOf, IsLive
  <2> QED BY <2>1 DEF KeepInv, Kept
<1>2. ~(UniformRows /\ ~Backup) => Conserved
  BY DEF Conserved
<1>3. ASSUME UniformRows /\ ~Backup PROVE Spec => []Conserved
  <2>1. TypeInv /\ KeepInv /\ [Next]_vars => TypeInv' /\ KeepInv'
    BY <1>3, NextType, KeepNext
  <2> QED BY <1>1, <2>1, InitType, KeepInit, PTL DEF Spec
<1>4. ASSUME ~(UniformRows /\ ~Backup) PROVE Spec => []Conserved
  BY <1>2, <1>4, PTL
<1> QED BY <1>3, <1>4

-----------------------------------------------------------------------------
(***************************************************************************)
(* The order of the rows: the root and text writers keep it, with or       *)
(* without backups, whatever the shapes of the rows are.  First, rising    *)
(* sequences of row numbers.                                               *)
(***************************************************************************)
Rising(s) == \A i, j \in 1 .. Len(s) : i < j => s[i] < s[j]

\* No row of s was saved after the m-th call.
UpTo(s, m) == \A i \in 1 .. Len(s) : s[i] <= m

\* Each row of s was saved before each row of t.
Before(s, t) == \A i \in 1 .. Len(s), j \in 1 .. Len(t) : s[i] < t[j]

LEMMA ConcatRises ==
  ASSUME NEW s \in Seq(Nat), NEW t \in Seq(Nat), Rising(s), Rising(t),
         Before(s, t)
  PROVE  Rising(s \o t)
<1> DEFINE u == s \o t
<1>1. /\ Len(s) \in Nat /\ Len(t) \in Nat /\ Len(u) = Len(s) + Len(t)
      /\ \A i \in 1 .. Len(u) :
           u[i] = IF i <= Len(s) THEN s[i] ELSE t[i - Len(s)]
  BY ConcatProperties
<1> HIDE DEF u
<1>2. ASSUME NEW i \in 1 .. Len(u), NEW j \in 1 .. Len(u), i < j
      PROVE  u[i] < u[j]
  <2>1. CASE j <= Len(s)
    <3>1. i \in 1 .. Len(s) /\ j \in 1 .. Len(s)
      BY <1>1, <1>2, <2>1
    <3>2. s[i] < s[j]
      BY <1>2, <3>1 DEF Rising
    <3>3. u[i] = s[i] /\ u[j] = s[j]
      BY <1>1, <3>1
    <3> QED BY <3>2, <3>3
  <2>2. CASE i <= Len(s) /\ ~(j <= Len(s))
    <3>1. i \in 1 .. Len(s) /\ j - Len(s) \in 1 .. Len(t)
      BY <1>1, <2>2
    <3>2. s[i] < t[j - Len(s)]
      BY <3>1 DEF Before
    <3> QED BY <1>1, <2>2, <3>2
  <2>3. CASE ~(i <= Len(s))
    <3>1. /\ i - Len(s) \in 1 .. Len(t) /\ j - Len(s) \in 1 .. Len(t)
          /\ i - Len(s) < j - Len(s) /\ ~(j <= Len(s))
      BY <1>1, <1>2, <2>3
    <3>2. t[i - Len(s)] < t[j - Len(s)]
      BY <3>1 DEF Rising
    <3> QED BY <1>1, <2>3, <3>1, <3>2
  <2> QED BY <2>1, <2>2, <2>3
<1> QED BY <1>2 DEF Rising, u

LEMMA ConcatUpTo ==
  ASSUME NEW s \in Seq(Nat), NEW t \in Seq(Nat), NEW m \in Nat,
         UpTo(s, m), UpTo(t, m)
  PROVE  UpTo(s \o t, m)
<1> DEFINE u == s \o t
<1>1. /\ Len(s) \in Nat /\ Len(t) \in Nat /\ Len(u) = Len(s) + Len(t)
      /\ \A i \in 1 .. Len(u) :
           u[i] = IF i <= Len(s) THEN s[i] ELSE t[i - Len(s)]
  BY ConcatProperties
<1> HIDE DEF u
<1>2. ASSUME NEW i \in 1 .. Len(u) PROVE u[i] <= m
  <2>1. CASE i <= Len(s)
    <3>1. i \in 1 .. Len(s)
      BY <2>1
    <3> QED BY <1>1, <2>1, <3>1 DEF UpTo
  <2>2. CASE ~(i <= Len(s))
    <3>1. i - Len(s) \in 1 .. Len(t)
      BY <1>1, <2>2
    <3>2. t[i - Len(s)] <= m
      BY <3>1 DEF UpTo
    <3> QED BY <1>1, <2>2, <3>2
  <2> QED BY <2>1, <2>2
<1> QED BY <1>2 DEF UpTo, u

\* A row saved in this call goes behind all that were saved before.
LEMMA AppendRises ==
  ASSUME NEW s \in Seq(Nat), NEW m \in Nat, Rising(s), UpTo(s, m)
  PROVE  Rising(Append(s, m + 1)) /\ UpTo(Append(s, m + 1), m + 1)
<1> DEFINE u == Append(s, m + 1)
<1>1. /\ Len(s) \in Nat /\ Len(u) = Len(s) + 1 /\ u[Len(s) + 1] = m + 1
      /\ \A i \in 1 .. Len(s) : u[i] = s[i] /\ s[i] \in Nat
  OBVIOUS
<1> HIDE DEF u
<1>2. \A i \in 1 .. Len(u) : i \in 1 .. Len(s) \/ i = Len(s) + 1
  BY <1>1
<1>3. UpTo(u, m + 1)
  BY <1>1, <1>2 DEF UpTo
<1>4. ASSUME NEW i \in 1 .. Len(u), NEW j \in 1 .. Len(u), i < j
      PROVE  u[i] < u[j]
  <2>1. i \in 1 .. Len(s)
    BY <1>1, <1>4
  <2>2. CASE j \in 1 .. Len(s)
    BY <1>1, <1>4, <2>1, <2>2 DEF Rising
  <2>3. CASE j = Len(s) + 1
    BY <1>1, <2>1, <2>3 DEF UpTo
  <2> QED BY <1>2, <2>2, <2>3
<1> QED BY <1>3, <1>4 DEF Rising, u

(***************************************************************************)
(* Blocks: a flush writes their first rows.                                *)
(***************************************************************************)
LEMMA IdsType ==
  ASSUME NEW nt \in Ntuple
  PROVE  Ids(nt) \in Seq(Nat) /\ Len(Ids(nt)) = Len(nt.rows)
<1>1. nt.rows \in Seq([id : Nat, width : Nat])
  BY DEF Ntuple
<1>2. \A j \in 1 .. Len(nt.rows) : nt.rows[j] \in [id : Nat, width : Nat]
  BY <1>1, ElementOfSeq
<1>3. Len(nt.rows) \in Nat /\ \A j \in 1 .. Len(nt.rows) : nt.rows[j].id \in Nat
  BY <1>1, <1>2
<1> QED BY <1>3 DEF Ids

LEMMA WritableIsPrefix ==
  ASSUME NEW nt \in Ntuple, Stops(nt)
  PROVE  /\ Len(Writable(nt)) \in 0 .. Len(Ids(nt))
         /\ \A j \in 1 .. Len(Writable(nt)) : Writable(nt)[j] = Ids(nt)[j]
<1> DEFINE len == CHOOSE k \in 0 .. Len(nt.rows) : IsWritableLen(nt, k)
<1>1. len \in 0 .. Len(nt.rows)
  BY DEF Stops, IsWritableLen
<1>2. Writable(nt) = [j \in 1 .. len |-> nt.rows[j].id]
  BY DEF Writable
<1> HIDE DEF len
<1>3. Len(nt.rows) \in Nat /\ Len(Ids(nt)) = Len(nt.rows)
  <2>1. nt.rows \in Seq([id : Nat, width : Nat])
    BY DEF Ntuple
  <2> QED BY <2>1, IdsType
<1>4. Len(Writable(nt)) = len
  BY <1>1, <1>2, <1>3
<1>5. \A j \in 1 .. len : j \in 1 .. Len(nt.rows)
  BY <1>1, <1>3
<1> QED BY <1>1, <1>2, <1>3, <1>4, <1>5 DEF Ids

(***************************************************************************)
(* Files and caches in order.  A cached row is younger than what is in the *)
(* file and in its backup, since a flush or a renaming may bring the block *)
(* behind the rows of either.                                              *)
(***************************************************************************)
InFileOrder(content, m) ==
  \A n \in Names : Rising(content[n].rows) /\ UpTo(content[n].rows, m)

CacheInOrder(cache, content, m) ==
  \A n \in Names : cache[n] # NoNtuple =>
    /\ Rising(Ids(cache[n])) /\ UpTo(Ids(cache[n]), m)
    /\ Before(content[n].rows, Ids(cache[n]))

\* The order in one file d, its backup b and its entry w in myWriter, when m
\* rows have been saved.
Ordered(w, d, b, m) ==
  /\ InFileOrder(ContentOf(d), m) /\ InFileOrder(ContentOf(b), m)
  /\ w \notin {Absent, Null} =>
       /\ CacheInOrder(w.cache, ContentOf(d), m)
       /\ CacheInOrder(w.cache, ContentOf(b), m)

OrderInv == \A f \in Files : Ordered(writers[f], disk[f], backup[f], saved)

LEMMA NothingInOrder ==
  ASSUME NEW content, NEW m
  PROVE  /\ InFileOrder(EmptyFile, m)
         /\ CacheInOrder(EmptyCache, content, m)
         /\ \A cache : CacheInOrder(cache, content, m)
                         => CacheInOrder(cache, EmptyFile, m)
<1>1. \A n \in Names : EmptyFile[n].rows = <<>>
  BY DEF EmptyFile
<1> QED BY <1>1 DEF InFileOrder, CacheInOrder, Rising, UpTo, Before, EmptyCache

\* What a flush would write of a block goes behind what is in the file.
LEMMA PendingInOrder ==
  ASSUME NEW content \in Contents, NEW m \in Nat,
         NEW cache \in [Names -> Ntuple \cup {NoNtuple}], CacheStops(cache),
         InFileOrder(content, m), CacheInOrder(cache, content, m), NEW n \in Names
  PROVE  /\ Rising(content[n].rows \o Pending(cache, n))
         /\ UpTo(content[n].rows \o Pending(cache, n), m)
<1> DEFINE s == content[n].rows
           t == Pending(cache, n)
<1>1. s \in Seq(Nat) /\ t \in Seq(Nat) /\ Rising(s) /\ UpTo(s, m)
  BY PendingType DEF Contents, InFileOrder
<1>2. Rising(t) /\ UpTo(t, m) /\ Before(s, t)
  <2>1. CASE cache[n] = NoNtuple
    <3>1. t = <<>>
      BY <2>1 DEF Pending
    <3> HIDE DEF s, t
    <3> QED BY <3>1 DEF Rising, UpTo, Before
  <2>2. CASE cache[n] # NoNtuple
    <3> DEFINE ids == Ids(cache[n])
    <3>1. cache[n] \in Ntuple /\ Stops(cache[n]) /\ t = Writable(cache[n])
      BY <2>2 DEF CacheStops, Pending
    <3>2. /\ Len(t) \in 0 .. Len(ids) /\ Len(ids) \in Nat
          /\ \A j \in 1 .. Len(t) : t[j] = ids[j]
      BY <3>1, WritableIsPrefix, IdsType
    <3>3. Rising(ids) /\ UpTo(ids, m) /\ Before(s, ids)
      BY <2>2 DEF CacheInOrder
    <3> HIDE DEF s, t, ids
    <3>4. \A j \in 1 .. Len(t) : j \in 1 .. Len(ids)
      BY <3>2
    <3> QED BY <3>2, <3>3, <3>4 DEF Rising, UpTo, Before
  <2> QED BY <2>1, <2>2
<1> HIDE DEF s, t
<1>3. Rising(s \o t) /\ UpTo(s \o t, m)
  BY <1>1, <1>2, ConcatRises, ConcatUpTo
<1> QED BY <1>3 DEF s, t

LEMMA TreesInOrder ==
  ASSUME NEW content \in Contents, NEW m \in Nat,
         NEW cache \in [Names -> Ntuple \cup {NoNtuple}], CacheStops(cache),
         InFileOrder(content, m), CacheInOrder(cache, content, m)
  PROVE  InFileOrder(ContentOf(WithTrees(content, cache)), m)
<1>1. WithTrees(content, cache) \in Contents
  BY WithTreesRows
<1>2. ContentOf(WithTrees(content, cache)) = WithTrees(content, cache)
  BY <1>1, MarkersAssumption DEF ContentOf
<1>3. ASSUME NEW n \in Names
      PROVE  /\ Rising(WithTrees(content, cache)[n].rows)
             /\ UpTo(WithTrees(content, cache)[n].rows, m)
  BY PendingInOrder, WithTreesRows
<1> QED BY <1>2, <1>3 DEF InFileOrder

(***************************************************************************)
(* The steps.                                                              *)
(***************************************************************************)
LEMMA UpToMore ==
  ASSUME NEW s \in Seq(Nat), NEW m \in Nat, NEW k \in Nat, m <= k, UpTo(s, m)
  PROVE  UpTo(s, k)
<1>1. \A i \in 1 .. Len(s) : s[i] \in Nat
  OBVIOUS
<1> QED BY <1>1 DEF UpTo

\* Rows that are saved elsewhere do not disturb the order.
LEMMA OrderedLater ==
  ASSUME NEW w \in Writer \cup {Absent, Null}, NEW d \in Contents \cup {NoFile},
         NEW b \in Contents \cup {NoFile}, NEW m \in Nat, NEW k \in Nat, m <= k,
         Ordered(w, d, b, m)
  PROVE  Ordered(w, d, b, k)
<1>1. ASSUME NEW c \in Contents, InFileOrder(c, m) PROVE InFileOrder(c, k)
  <2>1. \A n \in Names : c[n].rows \in Seq(Nat)
    BY DEF Contents
  <2> QED BY <1>1, <2>1, UpToMore DEF InFileOrder
<1>2. ASSUME w \notin {Absent, Null}, NEW c, CacheInOrder(w.cache, c, m)
      PROVE  CacheInOrder(w.cache, c, k)
  <2>1. ASSUME NEW n \in Names, w.cache[n] # NoNtuple
        PROVE  Ids(w.cache[n]) \in Seq(Nat)
    <3>1. w.cache[n] \in Ntuple
      BY <1>2, <2>1 DEF Writer
    <3> QED BY <3>1, IdsType
  <2> QED BY <1>2, <2>1, UpToMore DEF CacheInOrder
<1>3. ContentOf(d) \in Contents /\ ContentOf(b) \in Contents
  BY ContentType
<1> QED BY <1>1, <1>2, <1>3 DEF Ordered

\* RootDataCache::write, with its renaming of the file to its backup.
LEMMA FlushOrders ==
  ASSUME NEW w \in Writer, NEW file \in Contents \cup {NoFile},
         NEW bak \in Contents \cup {NoFile}, WriterOK(w, file, bak),
         NEW m \in Nat, Ordered(w, file, bak, m),
         NEW res, res = Flush(w, file, bak)
  PROVE  Ordered(res.w, res.file, res.bak, m)
<1> DEFINE renames == Backup /\ file # NoFile
           file1   == IF renames THEN NoFile ELSE file
           bak1    == IF renames THEN file ELSE bak
           at1     == IF renames /\ w.at = "file" THEN "backup" ELSE w.at
           opens   == at1 = "nowhere"
           file2   == IF opens THEN Opened(file1, fileMode) ELSE file1
           done    == [w EXCEPT !.at = IF opens THEN "file" ELSE at1,
                                !.cache = EmptyCache, !.needsSave = FALSE]
<1>1. CASE ~w.needsSave
  <2>1. res.w = w /\ res.file = file /\ res.bak = bak
    BY <1>1 DEF Flush
  <2> QED BY <2>1
<1>2. CASE w.needsSave
  <2>1. res = IF done.at = "file"
              THEN [w |-> done, file |-> WithTrees(file2, w.cache),
                    bak |-> bak1, opened |-> opens]
              ELSE [w |-> done, file |-> file2,
                    bak |-> WithTrees(bak1, w.cache), opened |-> opens]
    BY <1>2 DEF Flush, Opens, Cleared
  <2>2. /\ w.at \in {"nowhere", "file", "backup"} /\ CacheStops(w.cache)
        /\ w.cache \in [Names -> Ntuple \cup {NoNtuple}]
        /\ w \notin {Absent, Null}
    BY MarkersAssumption DEF WriterOK, Writer
  <2>3. done.cache = EmptyCache /\ done.at = IF opens THEN "file" ELSE at1
    BY DEF Writer
  <2>4. /\ done.at = "file" => file2 \in Contents
        /\ done.at # "file" => bak1 \in Contents
    BY <2>2, <2>3, OpenedType DEF WriterOK
  <2>5. /\ ContentOf(file2) \in {ContentOf(file), EmptyFile}
        /\ ContentOf(bak1) \in {ContentOf(file), ContentOf(bak)}
    BY <2>4, MarkersAssumption, EmptyFileType, ContentType DEF Opened, ContentOf
  <2>6. /\ InFileOrder(ContentOf(file2), m) /\ CacheInOrder(w.cache, ContentOf(file2), m)
        /\ InFileOrder(ContentOf(bak1), m) /\ CacheInOrder(w.cache, ContentOf(bak1), m)
    BY <2>2, <2>5, NothingInOrder DEF Ordered
  <2> HIDE DEF done, file2, bak1, opens
  <2>7. CASE done.at = "file"
    <3>1. ContentOf(file2) = file2
      BY <2>4, <2>7, MarkersAssumption DEF ContentOf
    <3>2. InFileOrder(ContentOf(WithTrees(file2, w.cache)), m)
      BY <2>2, <2>4, <2>6, <2>7, <3>1, TreesInOrder
    <3>3. res.w = done /\ res.file = WithTrees(file2, w.cache) /\ res.bak = bak1
      BY <2>1, <2>7
    <3> QED BY <2>3, <2>6, <3>2, <3>3, NothingInOrder DEF Ordered
  <2>8. CASE done.at # "file"
    <3>1. ContentOf(bak1) = bak1
      BY <2>4, <2>8, MarkersAssumption DEF ContentOf
    <3>2. InFileOrder(ContentOf(WithTrees(bak1, w.cache)), m)
      BY <2>2, <2>4, <2>6, <2>8, <3>1, TreesInOrder
    <3>3. res.w = done /\ res.file = file2 /\ res.bak = WithTrees(bak1, w.cache)
      BY <2>1, <2>8
    <3> QED BY <2>3, <2>6, <3>2, <3>3, NothingInOrder DEF Ordered
  <2> QED BY <2>7, <2>8
<1> QED BY <1>1, <1>2 DEF Writer

\* The numbers of a block's rows, when RootDataCache::add has dealt with a row.
LEMMA AddedIds ==
  ASSUME NEW w \in Writer, CacheStops(w.cache), NEW n \in Names,
         NEW row \in Rows, NEW id \in Nat
  PROVE  Ids(Added(w, n, row, id)) \in
           IF w.cache[n] = NoNtuple THEN {<<id>>}
           ELSE {Ids(w.cache[n]), Append(Ids(w.cache[n]), id)}
<1> DEFINE nt  == w.cache[n]
           r   == [id |-> id, width |-> Width(row)]
           new == Added(w, n, row, id)
<1>1. CASE nt = NoNtuple
  <2>1. new.rows = <<r>>
    BY <1>1 DEF Added, NewNtuple
  <2>2. Ids(new) = <<id>>
    <3>1. Len(new.rows) = 1 /\ new.rows[1] = r /\ r.id = id
      BY <2>1
    <3> HIDE DEF new, r
    <3> QED BY <3>1 DEF Ids
  <2> QED BY <1>1, <2>2
<1>2. CASE nt # NoNtuple
  <2>1. nt \in Ntuple
    BY <1>2 DEF Writer
  <2>2. nt.rows \in Seq([id : Nat, width : Nat]) /\ r \in [id : Nat, width : Nat]
        /\ r.id = id
    BY <2>1, WidthType DEF Ntuple
  <2>3. new.rows \in {nt.rows, Append(nt.rows, r)}
    BY <1>2, <2>1 DEF Added, AddRow, Ntuple
  <2> HIDE DEF r, new, nt
  <2>4. CASE new.rows = nt.rows
    <3>1. Ids(new) = Ids(nt)
      BY <2>4 DEF Ids
    <3> QED BY <1>2, <3>1 DEF nt, new
  <2>5. CASE new.rows = Append(nt.rows, r)
    <3>1. /\ Len(nt.rows) \in Nat /\ Len(new.rows) = Len(nt.rows) + 1
          /\ \A j \in 1 .. Len(nt.rows) : new.rows[j] = nt.rows[j]
          /\ new.rows[Len(nt.rows) + 1] = r
      BY <2>2, <2>5
    <3>2. Ids(nt) \in Seq(Nat) /\ Len(Ids(nt)) = Len(nt.rows)
      BY <2>1, IdsType
    <3>3. Append(Ids(nt), id) =
            [j \in 1 .. Len(nt.rows) + 1 |->
               IF j \in 1 .. Len(nt.rows) THEN nt.rows[j].id ELSE id]
      BY <3>1, <3>2 DEF Ids
    <3>4. \A j \in 1 .. Len(nt.rows) + 1 :
            new.rows[j].id = IF j \in 1 .. Len(nt.rows) THEN nt.rows[j].id ELSE id
      <4>1. \A j \in 1 .. Len(nt.rows) + 1 :
              j \in 1 .. Len(nt.rows) \/ j = Len(nt.rows) + 1
        BY <3>1
      <4>2. Len(nt.rows) + 1 \notin 1 .. Len(nt.rows)
        BY <3>1
      <4> QED BY <2>2, <3>1, <4>1, <4>2
    <3>5. Ids(new) = Append(Ids(nt), id)
      BY <3>1, <3>3, <3>4 DEF Ids
    <3> QED BY <1>2, <3>5 DEF nt, new
  <2> QED BY <2>3, <2>4, <2>5
<1> QED BY <1>1, <1>2

LEMMA AddingOrders ==
  ASSUME NEW w \in Writer, CacheStops(w.cache), NEW n \in Names,
         NEW row \in Rows, NEW m \in Nat, NEW d \in Contents \cup {NoFile},
         NEW b \in Contents \cup {NoFile}, Ordered(w, d, b, m),
         NEW w1, w1 = Adding(w, n, row, m + 1)
  PROVE  Ordered(w1, d, b, m + 1)
<1> DEFINE new == Added(w, n, row, m + 1)
           old == w.cache[n]
<1>1. /\ w1 \in Writer /\ w1.cache = [w.cache EXCEPT ![n] = new]
      /\ w.cache \in [Names -> Ntuple \cup {NoNtuple}] /\ m + 1 \in Nat
  BY AddingType DEF Writer
<1>2. Ids(new) \in IF old = NoNtuple THEN {<<m + 1>>}
                   ELSE {Ids(old), Append(Ids(old), m + 1)}
  BY AddedIds
<1>3. old # NoNtuple => Ids(old) \in Seq(Nat)
  BY <1>1, IdsType
<1>4. Ordered(w, d, b, m + 1)
  BY OrderedLater
<1>5. ContentOf(d) \in Contents /\ ContentOf(b) \in Contents
      /\ w \notin {Absent, Null}
  BY ContentType, MarkersAssumption
<1> HIDE DEF new
<1>6. ASSUME NEW c \in Contents, InFileOrder(c, m), CacheInOrder(w.cache, c, m),
             CacheInOrder(w.cache, c, m + 1)
      PROVE  CacheInOrder(w1.cache, c, m + 1)
  <2> DEFINE s == c[n].rows
             t == Ids(new)
  <2>1. s \in Seq(Nat) /\ UpTo(s, m)
    BY <1>6 DEF Contents, InFileOrder
  <2>2. \A i \in 1 .. Len(s) : s[i] \in Nat /\ s[i] < m + 1
    BY <2>1 DEF UpTo
  <2>3. Rising(t) /\ UpTo(t, m + 1) /\ Before(s, t)
    <3>1. CASE t = <<m + 1>>
      <4> HIDE DEF s, t
      <4> QED BY <2>2, <3>1 DEF Rising, UpTo, Before
    <3>2. CASE old # NoNtuple /\ t \in {Ids(old), Append(Ids(old), m + 1)}
      <4> DEFINE u == Ids(old)
      <4>1. /\ u \in Seq(Nat) /\ Rising(u) /\ UpTo(u, m) /\ UpTo(u, m + 1)
            /\ Before(s, u)
        BY <1>3, <1>6, <3>2 DEF CacheInOrder
      <4>2. CASE t = u
        BY <4>1, <4>2
      <4>3. CASE t = Append(u, m + 1)
        <5> HIDE DEF s, t, u
        <5>1. Rising(t) /\ UpTo(t, m + 1)
          BY <4>1, <4>3, AppendRises
        <5>2. /\ Len(u) \in Nat /\ Len(t) = Len(u) + 1 /\ t[Len(u) + 1] = m + 1
              /\ \A i \in 1 .. Len(u) : t[i] = u[i]
          BY <4>1, <4>3
        <5>3. \A i \in 1 .. Len(t) : i \in 1 .. Len(u) \/ i = Len(u) + 1
          BY <5>2
        <5>4. Before(s, t)
          BY <2>2, <4>1, <5>2, <5>3 DEF Before
        <5> QED BY <5>1, <5>4
      <4> QED BY <3>2, <4>2, <4>3
    <3> QED BY <1>2, <3>1, <3>2
  <2>4. w1.cache[n] = new /\ \A k \in Names \ {n} : w1.cache[k] = w.cache[k]
    BY <1>1
  <2> QED BY <1>6, <2>3, <2>4 DEF CacheInOrder
<1>7. /\ InFileOrder(ContentOf(d), m) /\ InFileOrder(ContentOf(b), m)
      /\ CacheInOrder(w.cache, ContentOf(d), m)
      /\ CacheInOrder(w.cache, ContentOf(b), m)
  BY <1>5 DEF Ordered
<1>8. /\ InFileOrder(ContentOf(d), m + 1) /\ InFileOrder(ContentOf(b), m + 1)
      /\ CacheInOrder(w.cache, ContentOf(d), m + 1)
      /\ CacheInOrder(w.cache, ContentOf(b), m + 1)
  BY <1>4, <1>5 DEF Ordered
<1> QED BY <1>5, <1>6, <1>7, <1>8 DEF Ordered

LEMMA OrderInit == ASSUME Init PROVE OrderInv
<1>1. ASSUME NEW f \in Files PROVE Ordered(writers[f], disk[f], backup[f], saved)
  <2>1. /\ writers[f] = Absent /\ disk[f] \in {NoFile, OldFile}
        /\ backup[f] = NoFile /\ saved = 0
    BY DEF Init
  <2>2. \A n \in Names : EmptyFile[n].rows = <<>> /\ OldFile[n].rows = <<0>>
    BY DEF EmptyFile, OldFile
  <2>3. InFileOrder(EmptyFile, 0) /\ InFileOrder(OldFile, 0)
    BY <2>2 DEF InFileOrder, Rising, UpTo
  <2> QED BY <2>1, <2>3 DEF Ordered, ContentOf
<1> QED BY <1>1 DEF OrderInv

\* Writer::file(f, m) empties the file, or leaves it, and caches nothing.
LEMMA OrderFile ==
  ASSUME TypeInv, OrderInv, NEW f \in Files, NEW m \in FileModes, File(f, m)
  PROVE  OrderInv'
<1>1. CASE IsLive(f)
  BY <1>1 DEF File, OrderInv
<1>2. CASE ~IsLive(f)
  <2> DEFINE eager == f \in TextFiles
             w == NewWriter(IF eager THEN "file" ELSE "nowhere")
             d == IF eager THEN Opened(disk[f], m) ELSE disk[f]
  <2>1. /\ writers' = [writers EXCEPT ![f] = w]
        /\ disk' = [disk EXCEPT ![f] = d]
        /\ backup' = backup /\ saved' = saved
    BY <1>2 DEF File, TypeInv, TypeOK
  <2>2. w.cache = EmptyCache
    BY NewWriterType
  <2>3. disk[f] \in Contents \cup {NoFile} /\ ContentOf(disk[f]) \in Contents
    BY ContentType DEF TypeInv, TypeOK
  <2>4. ContentOf(d) \in {ContentOf(disk[f]), EmptyFile}
    BY <2>3, EmptyFileType, MarkersAssumption DEF Opened, ContentOf
  <2>5. Ordered(writers[f], disk[f], backup[f], saved)
    BY DEF OrderInv
  <2> HIDE DEF w, d
  <2>6. Ordered(w, d, backup[f], saved)
    BY <2>2, <2>4, <2>5, NothingInOrder DEF Ordered
  <2>7. ASSUME NEW g \in Files
        PROVE  Ordered(writers'[g], disk'[g], backup'[g], saved')
    BY <2>1, <2>6 DEF OrderInv, TypeInv, TypeOK
  <2> QED BY <2>7 DEF OrderInv
<1> QED BY <1>1, <1>2

\* A text writer caches nothing; its row goes behind what is in the file.
LEMMA OrderText ==
  ASSUME TypeInv, OrderInv, NEW f \in Files, NEW n \in Names,
         NEW row \in SavedRows, SaveText(f, n, row)
  PROVE  OrderInv'
<1>1. /\ saved \in Nat /\ saved + 1 \in Nat /\ saved <= saved + 1
      /\ saved' = saved + 1 /\ writers' = writers /\ backup' = backup
      /\ IsLive(f) /\ f \in TextFiles
  BY DEF SaveText, TypeInv, TypeOK
<1>2. ASSUME NEW g \in Files
      PROVE  Ordered(writers[g], disk[g], backup[g], saved + 1)
  <2>1. /\ writers[g] \in Writer \cup {Absent, Null}
        /\ disk[g] \in Contents \cup {NoFile} /\ backup[g] \in Contents \cup {NoFile}
        /\ Ordered(writers[g], disk[g], backup[g], saved)
    BY DEF TypeInv, TypeOK, OrderInv
  <2> QED BY <1>1, <2>1, OrderedLater
<1>3. CASE ~HasData(row)
  <2>1. disk' = disk
    BY <1>3 DEF SaveText
  <2> QED BY <1>1, <1>2, <2>1 DEF OrderInv
<1>4. CASE HasData(row)
  <2> DEFINE d == [disk[f] EXCEPT ![n].rows = Append(@, saved + 1)]
  <2>1. disk' = [disk EXCEPT ![f] = d]
    BY <1>4 DEF SaveText
  <2>2. disk[f] \in Contents /\ writers[f].cache = EmptyCache
    BY <1>1, LiveType DEF TypeInv, TypeOK, LiveOK, WriterOK
  <2>3. disk[f][n].rows \in Seq(Nat) /\ ContentOf(disk[f]) = disk[f]
    BY <2>2, MarkersAssumption DEF Contents, ContentOf
  <2>4. d \in Contents
    <3>1. disk[f][n] \in [rows : Seq(Nat), cycles : Nat]
      BY <2>2 DEF Contents
    <3>2. [disk[f][n] EXCEPT !.rows = Append(disk[f][n].rows, saved + 1)]
            \in [rows : Seq(Nat), cycles : Nat]
      <4>1. Append(disk[f][n].rows, saved + 1) \in Seq(Nat)
        BY <1>1, <3>1
      <4> QED BY <3>1, <4>1
    <3> QED BY <2>2, <3>2 DEF Contents
  <2>5. \A k \in Names : d[k].rows = IF k = n THEN Append(disk[f][n].rows, saved + 1)
                                     ELSE disk[f][k].rows
    BY <2>2 DEF Contents
  <2>6. ContentOf(d) = d
    BY <2>4, MarkersAssumption DEF ContentOf
  <2> HIDE DEF d
  <2>7. InFileOrder(d, saved + 1)
    <3>1. /\ Rising(disk[f][n].rows) /\ UpTo(disk[f][n].rows, saved)
          /\ InFileOrder(disk[f], saved + 1)
      BY <1>2, <2>3 DEF OrderInv, Ordered, InFileOrder
    <3>2. /\ Rising(Append(disk[f][n].rows, saved + 1))
          /\ UpTo(Append(disk[f][n].rows, saved + 1), saved + 1)
      BY <1>1, <2>3, <3>1, AppendRises
    <3> QED BY <2>5, <3>1, <3>2 DEF InFileOrder
  <2>8. Ordered(writers[f], d, backup[f], saved + 1)
    BY <1>2, <2>2, <2>6, <2>7, NothingInOrder DEF Ordered
  <2>9. ASSUME NEW g \in Files
        PROVE  Ordered(writers'[g], disk'[g], backup'[g], saved')
    BY <1>1, <1>2, <2>1, <2>8 DEF TypeInv, TypeOK
  <2> QED BY <2>9 DEF OrderInv
<1> QED BY <1>3, <1>4

\* RootWriter::save(map).
LEMMA OrderRoot ==
  ASSUME TypeInv, OrderInv, NEW f \in Files, NEW n \in Names,
         NEW row \in SavedRows, SaveRoot(f, n, row)
  PROVE  OrderInv'
<1> DEFINE w   == writers[f]
           w1  == Adding(w, n, row, saved + 1)
           res == SaveResult(f, w1)
<1>1. SavesRoot(f, n, row, res)
  BY SaveRootIs
<1> HIDE DEF res
<1>2. /\ IsLive(f) /\ writers' = [writers EXCEPT ![f] = res.w]
      /\ disk' = [disk EXCEPT ![f] = res.file]
      /\ backup' = [backup EXCEPT ![f] = res.bak]
      /\ saved' = saved + 1
  BY <1>1 DEF SavesRoot
<1>3. /\ w \in Writer /\ WriterOK(w, disk[f], backup[f]) /\ CacheStops(w.cache)
      /\ disk[f] \in Contents \cup {NoFile} /\ backup[f] \in Contents \cup {NoFile}
      /\ saved \in Nat /\ saved + 1 \in Nat /\ saved <= saved + 1 /\ row \in Rows
      /\ Ordered(w, disk[f], backup[f], saved)
  BY <1>2, LiveType, FacadeAssumption DEF TypeInv, TypeOK, OrderInv, WriterOK
<1>4. /\ w1 \in Writer /\ CacheStops(w1.cache)
      /\ w1.at = w.at /\ w1.needsSave
      /\ w1.cache = [w.cache EXCEPT ![n] = Added(w, n, row, saved + 1)]
      /\ w1.items = IF FlushTime(w) THEN 0 ELSE w.items + 1
  BY <1>3, AddingType
<1>5. WriterOK(w1, disk[f], backup[f])
  BY <1>3, <1>4 DEF WriterOK
<1>6. Ordered(w1, disk[f], backup[f], saved + 1)
  BY <1>3, AddingOrders
<1> HIDE DEF w1, w
<1>7. Ordered(res.w, res.file, res.bak, saved + 1)
  <2>1. CASE FlushTime(writers[f])
    <3>1. res = Flush(w1, disk[f], backup[f])
      BY <2>1 DEF res, SaveResult
    <3> QED BY <1>3, <1>4, <1>5, <1>6, <3>1, FlushOrders
  <2>2. CASE ~FlushTime(writers[f])
    <3>1. res.w = w1 /\ res.file = disk[f] /\ res.bak = backup[f]
      BY <2>2 DEF res, SaveResult
    <3> QED BY <1>6, <3>1
  <2> QED BY <2>1, <2>2
<1>8. ASSUME NEW g \in Files
      PROVE  Ordered(writers'[g], disk'[g], backup'[g], saved')
  <2>1. CASE g = f
    BY <1>2, <1>7, <2>1 DEF TypeInv, TypeOK
  <2>2. CASE g # f
    <3>1. /\ writers'[g] = writers[g] /\ disk'[g] = disk[g]
          /\ backup'[g] = backup[g]
      BY <1>2, <2>2 DEF TypeInv, TypeOK
    <3>2. /\ writers[g] \in Writer \cup {Absent, Null}
          /\ disk[g] \in Contents \cup {NoFile} /\ backup[g] \in Contents \cup {NoFile}
          /\ Ordered(writers[g], disk[g], backup[g], saved)
      BY DEF TypeInv, TypeOK, OrderInv
    <3>3. Ordered(writers[g], disk[g], backup[g], saved + 1)
      BY <1>3, <3>2, OrderedLater
    <3> QED BY <1>2, <3>1, <3>3
  <2> QED BY <2>1, <2>2
<1> QED BY <1>8 DEF OrderInv

\* The merge script leaves rows where they are, and a closed writer has none.
LEMMA GoneOrders ==
  ASSUME NEW w, NEW d \in Contents \cup {NoFile}, NEW b, NEW m,
         Ordered(w, d, b, m), NEW left \in {Absent, Null}
  PROVE  Ordered(left, d, b, m) /\ Ordered(left, Merged(d), b, m)
<1>1. \A n \in Names : ContentOf(Merged(d))[n].rows = ContentOf(d)[n].rows
  BY MergedRows
<1> QED BY <1>1 DEF Ordered, InFileOrder

\* ~RootWriter and ~TextWriter.
LEMMA DestroyedOrders ==
  ASSUME TypeInv, OrderInv, NEW f \in Files, IsLive(f), NEW works \in BOOLEAN,
         NEW left \in {Absent, Null}, NEW d, d = Destroyed(f, works)
  PROVE  Ordered(left, d.file, d.bak, saved)
<1>1. /\ writers[f] \in Writer /\ WriterOK(writers[f], disk[f], backup[f])
      /\ disk[f] \in Contents \cup {NoFile} /\ backup[f] \in Contents \cup {NoFile}
      /\ saved \in Nat /\ Ordered(writers[f], disk[f], backup[f], saved)
  BY LiveType DEF TypeInv, TypeOK, OrderInv
<1>2. CASE f \in TextFiles
  <2>1. d.file = disk[f] /\ d.bak = backup[f]
    BY <1>2 DEF Destroyed
  <2> QED BY <1>1, <2>1, GoneOrders
<1>3. CASE f \notin TextFiles
  <2> DEFINE res == Flush(writers[f], disk[f], backup[f])
  <2>1. Ordered(res.w, res.file, res.bak, saved)
    BY <1>1, FlushOrders
  <2>2. Flushed(writers[f], res)
    BY <1>1, FlushType
  <2>3. d = [file   |-> IF Merges(f) /\ works THEN Merged(res.file) ELSE res.file,
             bak    |-> res.bak,
             opened |-> res.opened]
    BY <1>3 DEF Destroyed
  <2> HIDE DEF res
  <2>4. d.file \in {res.file, Merged(res.file)} /\ d.bak = res.bak
    BY <2>3
  <2>5. res.file \in Contents \cup {NoFile}
    BY <2>2 DEF Flushed
  <2> QED BY <2>1, <2>4, <2>5, GoneOrders
<1> QED BY <1>2, <1>3

LEMMA OrderClose ==
  ASSUME TypeInv, OrderInv,
         NEW S \in SUBSET Files, NEW T \in SUBSET Files, S \subseteq T,
         NEW left \in {Absent, Null}, NEW broken, \A f \in S : IsLive(f),
         CloseFiles(S, T, left, broken)
  PROVE  OrderInv'
<1>1. Closes(S, T, left, broken)
  BY ClosedFiles
<1>2. saved' = saved
  BY <1>1 DEF Closes
<1>3. ASSUME NEW f \in Files
      PROVE  Ordered(writers'[f], disk'[f], backup'[f], saved')
  <2>1. writers'[f] = IF f \in T THEN left ELSE writers[f]
    BY <1>1 DEF Closes
  <2>2. Ordered(writers[f], disk[f], backup[f], saved)
    BY DEF OrderInv
  <2>3. CASE f \in S
    <3> DEFINE d == Destroyed(f, f \notin broken)
    <3>1. disk'[f] = d.file /\ backup'[f] = d.bak
      BY <1>1, <2>3 DEF Closes
    <3>2. Ordered(left, d.file, d.bak, saved)
      BY <2>3, DestroyedOrders
    <3> QED BY <1>2, <2>1, <2>3, <3>1, <3>2
  <2>4. CASE f \notin S
    <3>1. disk'[f] = disk[f] /\ backup'[f] = backup[f]
      BY <1>1, <2>4 DEF Closes
    <3>2. writers'[f] \in {Absent, Null} \/ writers'[f] = writers[f]
      BY <2>1
    <3> QED BY <1>2, <2>2, <3>1, <3>2 DEF Ordered
  <2> QED BY <2>3, <2>4
<1> QED BY <1>3 DEF OrderInv

LEMMA OrderNext == ASSUME TypeInv, OrderInv, [Next]_vars PROVE OrderInv'
<1>1. ASSUME NEW v \in ConfigValues, Configure(v) PROVE OrderInv'
  BY <1>1 DEF Configure, OrderInv
<1>2. ASSUME NEW f \in Files, NEW m \in FileModes, File(f, m) PROVE OrderInv'
  BY <1>2, OrderFile
<1>3. ASSUME NEW f \in Files, NEW n \in Names, NEW row \in SavedRows,
             SaveText(f, n, row) \/ SaveRoot(f, n, row)
      PROVE  OrderInv'
  BY <1>3, OrderText, OrderRoot
<1>4. CASE CloseAll \/ \E f \in Files : Close(f)
  <2>1. PICK S \in SUBSET Files, T \in SUBSET Files, left \in {Absent, Null} : \E broken :
          /\ S \subseteq T /\ \A f \in S : IsLive(f)
          /\ \A f \in T \ S : ~IsLive(f)
          /\ CloseFiles(S, T, left, broken)
    BY <1>4, ClosingIs
  <2> QED BY <2>1, OrderClose
<1>5. CASE UNCHANGED vars
  BY <1>5 DEF vars, OrderInv
<1> QED BY <1>1, <1>2, <1>3, <1>4, <1>5 DEF Next

\* In every file and in every backup rows stand in the order of the calls that
\* saved them, each at most once, and what is still cached follows them: with
\* any number of files, flushes, renamings to the backup, reopenings in either
\* mode and merges, and for rows of any shape.
THEOREM RowsAreInOrder == Spec => []InOrder
<1>1. TypeInv /\ OrderInv => InOrder
  <2> SUFFICES ASSUME TypeInv, OrderInv, NEW f \in Files, NEW n \in Names
               PROVE  /\ Rising(ContentOf(disk[f])[n].rows \o PendingRows(f, n))
                      /\ Rising(ContentOf(backup[f])[n].rows \o PendingRows(f, n))
    BY DEF InOrder, Rising
  <2>1. /\ ContentOf(disk[f]) \in Contents /\ ContentOf(backup[f]) \in Contents
        /\ saved \in Nat /\ Ordered(writers[f], disk[f], backup[f], saved)
    BY ContentType DEF TypeInv, TypeOK, OrderInv
  <2>2. CASE IsLive(f)
    <3>1. /\ CacheStops(writers[f].cache)
          /\ writers[f].cache \in [Names -> Ntuple \cup {NoNtuple}]
          /\ PendingRows(f, n) = Pending(writers[f].cache, n)
      BY <2>2, LiveType DEF WriterOK, Writer, PendingRows
    <3>2. /\ InFileOrder(ContentOf(disk[f]), saved)
          /\ InFileOrder(ContentOf(backup[f]), saved)
          /\ CacheInOrder(writers[f].cache, ContentOf(disk[f]), saved)
          /\ CacheInOrder(writers[f].cache, ContentOf(backup[f]), saved)
      BY <2>1, <2>2 DEF Ordered, IsLive
    <3> QED BY <2>1, <3>1, <3>2, PendingInOrder
  <2>3. CASE ~IsLive(f)
    <3>1. PendingRows(f, n) = <<>>
      BY <2>3 DEF PendingRows
    <3>2. ContentOf(disk[f])[n].rows \in Seq(Nat)
          /\ ContentOf(backup[f])[n].rows \in Seq(Nat)
      BY <2>1 DEF Contents
    <3>3. Rising(ContentOf(disk[f])[n].rows) /\ Rising(ContentOf(backup[f])[n].rows)
      BY <2>1 DEF Ordered, InFileOrder
    <3> QED BY <3>1, <3>2, <3>3, ConcatEmptySeq
  <2> QED BY <2>2, <2>3
<1>2. TypeInv /\ OrderInv /\ [Next]_vars => TypeInv' /\ OrderInv'
  BY NextType, OrderNext
<1> QED BY <1>1, <1>2, InitType, OrderInit, PTL DEF Spec

(***************************************************************************)
(* What one step does to the rows of a file.                               *)
(***************************************************************************)
LEMMA PrefixOfConcat ==
  ASSUME NEW s \in Seq(Nat), NEW t \in Seq(Nat)
  PROVE  IsPrefix(s, s \o t) /\ IsPrefix(s, s)
<1> DEFINE u == s \o t
<1>1. /\ u \in Seq(Nat) /\ Len(s) \in Nat /\ Len(s) <= Len(u)
      /\ \A i \in 1 .. Len(s) : u[i] = s[i]
  <2>1. /\ Len(t) \in Nat /\ Len(u) = Len(s) + Len(t)
        /\ \A i \in 1 .. Len(u) :
             u[i] = IF i <= Len(s) THEN s[i] ELSE t[i - Len(s)]
    BY ConcatProperties
  <2> QED BY <2>1, ConcatProperties
<1> HIDE DEF u
<1>2. /\ SubSeq(s, 1, Len(s)) = [i \in 1 .. Len(s) |-> s[i]]
      /\ SubSeq(u, 1, Len(s)) = [i \in 1 .. Len(s) |-> u[i]]
  BY <1>1
<1>3. SubSeq(s, 1, Len(s)) = SubSeq(u, 1, Len(s))
  BY <1>1, <1>2
<1> QED BY <1>1, <1>3 DEF IsPrefix, u

\* Without backups a TFile keeps its name, and it is there once the history
\* says how it was opened.
Placed(f) ==
  IsLive(f) =>
    /\ writers[f].at # "backup"
    /\ writers[f].at = "nowhere" <=> hist[f].openedAs = "none"

PlaceInv == \A f \in Files : Placed(f)

\* The rows of content d2 are those of d with others behind them.
Extends(d, d2) ==
  \A n \in Names : IsPrefix(ContentOf(d)[n].rows, ContentOf(d2)[n].rows)

\* What a flush without backups does to the file, and where the writer is then.
FlushExtends(w, file, res) ==
  /\ res.w \in Writer /\ res.opened \in BOOLEAN /\ res.w.at # "backup"
  /\ res.opened => w.at = "nowhere"
  /\ res.w.at = "nowhere" <=> (w.at = "nowhere" /\ ~res.opened)
  /\ res.file \in Contents \cup {NoFile}
  /\ Extends(file, res.file) \/ (res.opened /\ fileMode = "Recreate")

LEMMA SameExtends ==
  ASSUME NEW d \in Contents \cup {NoFile}
  PROVE  Extends(d, d) /\ Extends(d, Merged(d))
<1>1. ContentOf(d) \in Contents
  BY ContentType
<1>2. \A n \in Names : ContentOf(d)[n].rows \in Seq(Nat)
  BY <1>1 DEF Contents
<1>3. \A n \in Names : ContentOf(Merged(d))[n].rows = ContentOf(d)[n].rows
  BY MergedRows
<1> QED BY <1>2, <1>3, PrefixOfConcat DEF Extends

LEMMA FlushLeaves ==
  ASSUME ~Backup, NEW w \in Writer, NEW file \in Contents \cup {NoFile},
         NEW bak \in Contents \cup {NoFile}, WriterOK(w, file, bak),
         w.at # "backup", NEW res, res = Flush(w, file, bak)
  PROVE  FlushExtends(w, file, res)
<1>1. Flushed(w, res)
  BY FlushType
<1>2. res.w.at # "backup"
  <2>1. res.w.at = IF w.needsSave THEN IF w.at = "nowhere" THEN "file" ELSE w.at ELSE w.at
    BY DEF Flush, Writer, Opens, Cleared
  <2> QED BY <2>1
<1>3. ASSUME ~(res.opened /\ fileMode = "Recreate"), NEW n \in Names
      PROVE  IsPrefix(ContentOf(file)[n].rows, ContentOf(res.file)[n].rows)
  <2>1. ContentOf(file)[n].rows \in Seq(Nat) /\ Pending(w.cache, n) \in Seq(Nat)
    BY ContentType, PendingType DEF Contents, Writer, WriterOK
  <2>2. ContentOf(res.file)[n].rows = ContentOf(file)[n].rows \o Pending(w.cache, n)
    <3>1. FlushWrites(w, file, n, res)
      BY FlushRows
    <3>2. res.opened => Opened(file, fileMode) = ContentOf(file)
      BY <1>3 DEF Opened
    <3> QED BY <3>1, <3>2 DEF FlushWrites
  <2> QED BY <2>1, <2>2, PrefixOfConcat
<1> QED BY <1>1, <1>2, <1>3 DEF Flushed, FlushExtends, Extends

\* The step keeps the rows of file f, or opens it in the mode Recreate.
KeepsOrRecreates(f) ==
  \/ Extends(disk[f], disk'[f])
  \/ /\ hist'[f].openedAs = "Recreate"
     /\ hist[f].openedAs = "none" \/ ~IsLive(f)

\* A step that leaves file f, its entry in myWriter and its history alone.
LEMMA UntouchedKeeps ==
  ASSUME TypeInv, PlaceInv, NEW f \in Files, disk'[f] = disk[f],
         hist'[f] = hist[f], writers'[f] \in {writers[f], Absent, Null}
  PROVE  KeepsOrRecreates(f) /\ Placed(f)'
<1>1. disk[f] \in Contents \cup {NoFile}
  BY DEF TypeInv, TypeOK
<1>2. Extends(disk[f], disk'[f])
  BY <1>1, SameExtends
<1> QED BY <1>2 DEF KeepsOrRecreates, PlaceInv, Placed, IsLive

LEMMA FileKeeps ==
  ASSUME TypeInv, PlaceInv, NEW f \in Files, NEW m \in FileModes, File(f, m),
         NEW g \in Files
  PROVE  KeepsOrRecreates(g) /\ Placed(g)'
<1>1. CASE IsLive(f) \/ g # f
  BY <1>1, UntouchedKeeps DEF File, TypeInv, TypeOK
<1>2. CASE ~IsLive(f) /\ g = f
  <2> DEFINE eager == f \in TextFiles
             w == NewWriter(IF eager THEN "file" ELSE "nowhere")
             d == IF eager THEN Opened(disk[f], m) ELSE disk[f]
             h == [NoHistory(f) EXCEPT !.asked = m,
                      !.openedAs = IF eager THEN m ELSE "none"]
  <2>1. writers'[f] = w /\ disk'[f] = d /\ hist'[f] = h
    BY <1>2 DEF File, TypeInv, TypeOK
  <2>2. w.at = (IF eager THEN "file" ELSE "nowhere")
        /\ h.openedAs = (IF eager THEN m ELSE "none") /\ m # "none"
    BY NewWriterType DEF NoHistory, FileModes
  <2>3. disk[f] \in Contents \cup {NoFile} /\ ContentOf(disk[f]) \in Contents
    BY ContentType DEF TypeInv, TypeOK
  <2>4. ASSUME ~(eager /\ m = "Recreate") PROVE Extends(disk[f], d)
    <3>1. ContentOf(d) = ContentOf(disk[f])
      BY <2>3, <2>4, EmptyFileType, MarkersAssumption DEF Opened, ContentOf
    <3> QED BY <2>3, <3>1, SameExtends DEF Extends
  <2> HIDE DEF w, d, h
  <2>5. KeepsOrRecreates(f)
    BY <1>2, <2>1, <2>2, <2>4 DEF KeepsOrRecreates
  <2>6. Placed(f)'
    BY <2>1, <2>2 DEF Placed
  <2> QED BY <1>2, <2>5, <2>6
<1> QED BY <1>1, <1>2

LEMMA TextKeeps ==
  ASSUME TypeInv, PlaceInv, NEW f \in Files, NEW n \in Names,
         NEW row \in SavedRows, SaveText(f, n, row), NEW g \in Files
  PROVE  KeepsOrRecreates(g) /\ Placed(g)'
<1>1. writers' = writers /\ IsLive(f) /\ f \in TextFiles
  BY DEF SaveText
<1>2. CASE g # f \/ ~HasData(row)
  BY <1>1, <1>2, UntouchedKeeps DEF SaveText, TypeInv, TypeOK
<1>3. CASE g = f /\ HasData(row)
  <2> DEFINE d == [disk[f] EXCEPT ![n].rows = Append(@, saved + 1)]
  <2>1. disk'[f] = d /\ hist'[f] = [hist[f] EXCEPT !.accepted[n] = Append(@, saved + 1)]
    BY <1>3 DEF SaveText, TypeInv, TypeOK
  <2>2. disk[f] \in Contents /\ saved + 1 \in Nat /\ hist[f] \in History
    BY <1>1, LiveType DEF TypeInv, TypeOK, LiveOK, WriterOK
  <2>3. hist'[f].openedAs = hist[f].openedAs
    BY <2>1, <2>2 DEF History
  <2>4. d \in Contents
    <3>1. disk[f][n] \in [rows : Seq(Nat), cycles : Nat]
      BY <2>2 DEF Contents
    <3>2. [disk[f][n] EXCEPT !.rows = Append(disk[f][n].rows, saved + 1)]
            \in [rows : Seq(Nat), cycles : Nat]
      <4>1. Append(disk[f][n].rows, saved + 1) \in Seq(Nat)
        BY <2>2, <3>1
      <4> QED BY <3>1, <4>1
    <3> QED BY <2>2, <3>2 DEF Contents
  <2>5. \A k \in Names : d[k].rows = IF k = n THEN Append(disk[f][n].rows, saved + 1)
                                     ELSE disk[f][k].rows
    BY <2>2 DEF Contents
  <2>6. ContentOf(d) = d /\ ContentOf(disk[f]) = disk[f]
    BY <2>2, <2>4, MarkersAssumption DEF ContentOf
  <2> HIDE DEF d
  <2>7. ASSUME NEW k \in Names PROVE IsPrefix(disk[f][k].rows, d[k].rows)
    <3>1. disk[f][k].rows \in Seq(Nat) /\ <<saved + 1>> \in Seq(Nat)
      BY <2>2 DEF Contents
    <3>2. Append(disk[f][k].rows, saved + 1) = disk[f][k].rows \o <<saved + 1>>
      BY <2>2, <3>1, AppendIsConcat
    <3> QED BY <2>5, <3>1, <3>2, PrefixOfConcat
  <2>8. KeepsOrRecreates(f)
    BY <2>1, <2>6, <2>7 DEF KeepsOrRecreates, Extends
  <2>9. Placed(f)'
    BY <1>1, <2>3 DEF PlaceInv, Placed, IsLive
  <2> QED BY <1>3, <2>8, <2>9
<1> QED BY <1>2, <1>3

LEMMA RootKeeps ==
  ASSUME ~Backup, TypeInv, PlaceInv, NEW f \in Files, NEW n \in Names,
         NEW row \in SavedRows, SaveRoot(f, n, row), NEW g \in Files
  PROVE  KeepsOrRecreates(g) /\ Placed(g)'
<1> DEFINE w   == writers[f]
           w1  == Adding(w, n, row, saved + 1)
           res == SaveResult(f, w1)
<1>1. SavesRoot(f, n, row, res)
  BY SaveRootIs
<1> HIDE DEF res
<1>2. /\ IsLive(f) /\ writers' = [writers EXCEPT ![f] = res.w]
      /\ disk' = [disk EXCEPT ![f] = res.file]
      /\ hist' = [hist EXCEPT
           ![f].openedAs = IF res.opened THEN fileMode ELSE @,
           ![f].accepted[n] = IF HasData(row) /\ Takes(w, n, row)
                              THEN Append(@, saved + 1) ELSE @]
  BY <1>1 DEF SavesRoot
<1>3. CASE g # f
  BY <1>2, <1>3, UntouchedKeeps DEF TypeInv, TypeOK
<1>4. CASE g = f
  <2>1. /\ w \in Writer /\ WriterOK(w, disk[f], backup[f]) /\ CacheStops(w.cache)
        /\ disk[f] \in Contents \cup {NoFile} /\ backup[f] \in Contents \cup {NoFile}
        /\ hist[f] \in History /\ fileMode \in FileModes /\ saved + 1 \in Nat
        /\ row \in Rows /\ Placed(f)
    BY <1>2, LiveType, FacadeAssumption DEF TypeInv, TypeOK, PlaceInv, WriterOK
  <2>2. /\ w1 \in Writer /\ CacheStops(w1.cache)
        /\ w1.at = w.at /\ w1.needsSave
        /\ w1.cache = [w.cache EXCEPT ![n] = Added(w, n, row, saved + 1)]
        /\ w1.items = IF FlushTime(w) THEN 0 ELSE w.items + 1
    BY <2>1, AddingType
  <2>3. WriterOK(w1, disk[f], backup[f]) /\ w.at # "backup"
        /\ (w.at = "nowhere" <=> hist[f].openedAs = "none")
    BY <1>2, <2>1, <2>2 DEF WriterOK, Placed
  <2> HIDE DEF w1, w
  <2>4. FlushExtends(w1, disk[f], res)
    <3>1. CASE FlushTime(writers[f])
      <4>1. res = Flush(w1, disk[f], backup[f])
        BY <3>1 DEF res, SaveResult
      <4> QED BY <2>1, <2>2, <2>3, <4>1, FlushLeaves
    <3>2. CASE ~FlushTime(writers[f])
      <4>1. res.w = w1 /\ res.file = disk[f] /\ res.opened = FALSE
        BY <3>2 DEF res, SaveResult
      <4> QED BY <2>1, <2>2, <2>3, <4>1, SameExtends DEF FlushExtends
    <3> QED BY <3>1, <3>2
  <2>5. writers'[f] = res.w /\ disk'[f] = res.file
    BY <1>2 DEF TypeInv, TypeOK
  <2>6. hist'[f].openedAs = IF res.opened THEN fileMode ELSE hist[f].openedAs
    BY <1>2, <2>1 DEF TypeInv, TypeOK, History
  <2>7. KeepsOrRecreates(f)
    BY <2>2, <2>3, <2>4, <2>5, <2>6 DEF FlushExtends, KeepsOrRecreates
  <2>8. Placed(f)'
    BY <2>1, <2>2, <2>3, <2>4, <2>5, <2>6 DEF FlushExtends, Placed, FileModes
  <2> QED BY <1>4, <2>7, <2>8
<1> QED BY <1>3, <1>4

LEMMA ClosedKeeps ==
  ASSUME ~Backup, TypeInv, PlaceInv,
         NEW S \in SUBSET Files, NEW T \in SUBSET Files, S \subseteq T,
         NEW left \in {Absent, Null}, NEW broken, \A f \in S : IsLive(f),
         CloseFiles(S, T, left, broken), NEW g \in Files
  PROVE  KeepsOrRecreates(g) /\ Placed(g)'
<1>1. Closes(S, T, left, broken)
  BY ClosedFiles
<1>2. writers'[g] = IF g \in T THEN left ELSE writers[g]
  BY <1>1 DEF Closes
<1>3. CASE g \notin S
  <2>1. disk'[g] = disk[g] /\ hist'[g] = hist[g]
    BY <1>1, <1>3 DEF Closes
  <2> QED BY <1>2, <2>1, UntouchedKeeps
<1>4. CASE g \in S
  <2> DEFINE d   == Destroyed(g, g \notin broken)
             res == Flush(writers[g], disk[g], backup[g])
  <2>1. /\ disk'[g] = d.file
        /\ hist'[g] = IF d.opened THEN [hist[g] EXCEPT !.openedAs = fileMode]
                      ELSE hist[g]
    BY <1>1, <1>4 DEF Closes
  <2>2. Placed(g)'
    BY <1>2, <1>4 DEF Placed, IsLive
  <2>3. /\ writers[g] \in Writer /\ WriterOK(writers[g], disk[g], backup[g])
        /\ disk[g] \in Contents \cup {NoFile} /\ backup[g] \in Contents \cup {NoFile}
        /\ hist[g] \in History /\ writers[g].at # "backup"
        /\ (writers[g].at = "nowhere" <=> hist[g].openedAs = "none")
    BY <1>4, LiveType DEF TypeInv, TypeOK, PlaceInv, Placed
  <2>4. CASE g \in TextFiles
    <3>1. d.file = disk[g]
      BY <2>4 DEF Destroyed
    <3> QED BY <2>1, <2>2, <2>3, <3>1, SameExtends DEF KeepsOrRecreates
  <2>5. CASE g \notin TextFiles
    <3>1. FlushExtends(writers[g], disk[g], res)
      BY <2>3, FlushLeaves
    <3>2. d = [file   |-> IF Merges(g) /\ g \notin broken THEN Merged(res.file)
                          ELSE res.file,
               bak    |-> res.bak,
               opened |-> res.opened]
      BY <2>5 DEF Destroyed
    <3> HIDE DEF res
    <3>3. d.file \in {res.file, Merged(res.file)} /\ d.opened = res.opened
      BY <3>2
    <3> HIDE DEF d
    <3>4. CASE Extends(disk[g], res.file)
      <4>1. \A n \in Names : ContentOf(Merged(res.file))[n].rows
                               = ContentOf(res.file)[n].rows
        BY <3>1, MergedRows DEF FlushExtends
      <4>2. Extends(disk[g], d.file)
        BY <3>3, <3>4, <4>1 DEF Extends
      <4> QED BY <2>1, <2>2, <4>2 DEF KeepsOrRecreates
    <3>5. CASE res.opened /\ fileMode = "Recreate"
      <4>1. hist'[g].openedAs = "Recreate" /\ hist[g].openedAs = "none"
        BY <2>1, <2>3, <3>1, <3>3, <3>5 DEF History, FlushExtends
      <4> QED BY <2>2, <4>1 DEF KeepsOrRecreates
    <3> QED BY <3>1, <3>4, <3>5 DEF FlushExtends
  <2> QED BY <2>4, <2>5
<1> QED BY <1>3, <1>4

LEMMA StepKeeps ==
  ASSUME ~Backup, TypeInv, PlaceInv, [Next]_vars, NEW g \in Files
  PROVE  KeepsOrRecreates(g) /\ Placed(g)'
<1>1. CASE UNCHANGED vars \/ \E v \in ConfigValues : Configure(v)
  BY <1>1, UntouchedKeeps DEF vars, Configure
<1>2. CASE \E f \in Files, m \in FileModes : File(f, m)
  BY <1>2, FileKeeps
<1>3. ASSUME NEW f \in Files, NEW n \in Names, NEW row \in SavedRows,
             SaveText(f, n, row) \/ SaveRoot(f, n, row)
      PROVE  KeepsOrRecreates(g) /\ Placed(g)'
  BY <1>3, TextKeeps, RootKeeps
<1>4. CASE CloseAll \/ \E f \in Files : Close(f)
  <2>1. PICK S \in SUBSET Files, T \in SUBSET Files, left \in {Absent, Null} : \E broken :
          /\ S \subseteq T /\ \A f \in S : IsLive(f)
          /\ \A f \in T \ S : ~IsLive(f)
          /\ CloseFiles(S, T, left, broken)
    BY <1>4, ClosingIs
  <2> QED BY <2>1, ClosedKeeps
<1> QED BY <1>1, <1>2, <1>3, <1>4 DEF Next

\* A row disappears from a file only in the step that opens it in the mode
\* Recreate for a new writer, whatever flushes, closes, merges and changes of
\* the mode come in between.
THEOREM OnlyRecreatingForgets == Spec => OnlyARecreatingOpenForgets
<1> DEFINE Keeps ==
             ~Backup =>
               \A f \in Files :
                 \/ \A n \in Names :
                      IsPrefix(ContentOf(disk[f])[n].rows, ContentOf(disk'[f])[n].rows)
                 \/ /\ hist'[f].openedAs = "Recreate"
                    /\ hist[f].openedAs = "none" \/ ~IsLive(f)
<1>1. CASE Backup
  <2>1. [Next]_vars => [Keeps]_vars
    BY <1>1
  <2> QED BY <2>1, PTL DEF Spec, OnlyARecreatingOpenForgets
<1>2. CASE ~Backup
  <2>1. Init => PlaceInv
    BY DEF Init, PlaceInv, Placed, IsLive
  <2>2. TypeInv /\ PlaceInv /\ [Next]_vars => PlaceInv'
    BY <1>2, StepKeeps DEF PlaceInv
  <2>3. TypeInv /\ PlaceInv /\ [Next]_vars => [Keeps]_vars
    BY <1>2, StepKeeps DEF KeepsOrRecreates, Extends
  <2> QED BY <2>1, <2>2, <2>3, InitType, NextType, PTL DEF Spec, OnlyARecreatingOpenForgets
<1> QED BY <1>1, <1>2

\* dataharvester_merge leaves one cycle of each tuple.
LEMMA MergedCycles ==
  ASSUME NEW file \in Contents \cup {NoFile}, NEW n \in Names
  PROVE  ContentOf(Merged(file))[n].cycles <= 1
<1>1. CASE file = NoFile
  BY <1>1 DEF Merged, ContentOf, EmptyFile
<1>2. CASE file # NoFile
  <2>1. file \in Contents /\ Merged(file) \in Contents
    <3>1. Merged(file) \in Contents \cup {NoFile}
      BY MergedRows
    <3>2. ASSUME ~(\A m \in Names : file[m].cycles < 2) PROVE Merged(file) \in Contents
      <4> DEFINE new == [m \in Names |->
                           [file[m] EXCEPT !.cycles = IF @ > 1 THEN 1 ELSE @]]
      <4>1. Merged(file) = new
        BY <1>2, <3>2 DEF Merged
      <4>2. \A m \in Names : new[m] \in [rows : Seq(Nat), cycles : Nat]
        BY <1>2 DEF Contents
      <4> QED BY <4>1, <4>2 DEF Contents
    <3> QED BY <1>2, <3>2 DEF Merged
  <2>2. \A m \in Names : file[m] \in [rows : Seq(Nat), cycles : Nat]
    BY <2>1 DEF Contents
  <2>3. Merged(file)[n].cycles <= 1
    BY <1>2, <2>2 DEF Merged
  <2> QED BY <2>1, <2>3, MarkersAssumption DEF ContentOf
<1> QED BY <1>1, <1>2

\* A writer leaves the map only where it is destroyed.
LEMMA GoneIsClosed ==
  ASSUME TypeInv, [Next]_vars, NEW f \in RootFiles, IsLive(f),
         writers'[f] \in {Absent, Null}
  PROVE  \E broken \in BrokenMerges : disk'[f] = Destroyed(f, f \notin broken).file
<1>1. f \in Files /\ writers[f] \notin {Absent, Null}
  BY DEF Files, IsLive
<1>2. writers'[f] # writers[f]
  BY <1>1
<1>3. ASSUME NEW g \in Files, NEW m \in FileModes, File(g, m) PROVE FALSE
  <2>1. PICK at \in {"nowhere", "file"} :
          writers' = writers \/ writers' = [writers EXCEPT ![g] = NewWriter(at)]
    BY <1>3 DEF File
  <2>2. NewWriter(at) \notin {Absent, Null} /\ writers \in [Files -> Writer \cup {Absent, Null}]
    BY NewWriterType, MarkersAssumption DEF TypeInv, TypeOK
  <2> QED BY <1>1, <2>1, <2>2
<1>4. ASSUME NEW g \in Files, NEW n \in Names, NEW row \in SavedRows,
             SaveText(g, n, row) \/ SaveRoot(g, n, row)
      PROVE  FALSE
  <2>1. CASE SaveText(g, n, row)
    BY <1>2, <2>1 DEF SaveText
  <2>2. CASE SaveRoot(g, n, row)
    <3> DEFINE w1  == Adding(writers[g], n, row, saved + 1)
               res == SaveResult(g, w1)
    <3>1. SavesRoot(g, n, row, res)
      BY <2>2, SaveRootIs
    <3>2. res.w \in Writer
      BY <3>1, SaveResultType DEF SavesRoot
    <3> HIDE DEF res
    <3>3. writers' = [writers EXCEPT ![g] = res.w]
      BY <3>1 DEF SavesRoot
    <3> QED BY <1>1, <3>2, <3>3, MarkersAssumption DEF TypeInv, TypeOK
  <2> QED BY <1>4, <2>1, <2>2
<1>5. CASE CloseAll \/ \E g \in Files : Close(g)
  <2>1. PICK S \in SUBSET Files, T \in SUBSET Files, left \in {Absent, Null} : \E broken :
          /\ S \subseteq T /\ \A g \in S : IsLive(g)
          /\ \A g \in T \ S : ~IsLive(g)
          /\ CloseFiles(S, T, left, broken) /\ broken \in BrokenMerges
    BY <1>5, ClosingIs
  <2>2. PICK broken \in BrokenMerges : CloseFiles(S, T, left, broken)
    BY <2>1
  <2>3. Closes(S, T, left, broken)
    BY <2>1, <2>2, ClosedFiles
  <2>4. f \in S
    BY <1>1, <1>2, <2>1, <2>3 DEF Closes
  <2> QED BY <2>2, <2>3, <2>4 DEF Closes
<1>6. UNCHANGED vars \/ (\E v \in ConfigValues : Configure(v)) => FALSE
  BY <1>2 DEF vars, Configure
<1> QED BY <1>3, <1>4, <1>5, <1>6 DEF Next

\* When no merge fails, a root file whose writer has flushed is left with one
\* cycle for each tuple by the call that closes it.
THEOREM ClosedFilesAreMerged == Spec => FlushedFilesAreMerged
<1> DEFINE Merging ==
             (Merge /\ ~MergeMayFail /\ ~Backup) =>
               \A f \in RootFiles :
                 (IsLive(f) /\ writers[f].flushed /\ writers'[f] \in {Absent, Null})
                   => \A n \in Names : ContentOf(disk'[f])[n].cycles <= 1
<1>1. TypeInv /\ [Next]_vars => [Merging]_vars
  <2> SUFFICES ASSUME TypeInv, [Next]_vars, Merge, ~MergeMayFail, NEW f \in RootFiles,
                      IsLive(f), writers[f].flushed, writers'[f] \in {Absent, Null},
                      NEW n \in Names
               PROVE  ContentOf(disk'[f])[n].cycles <= 1
    OBVIOUS
  <2> DEFINE res == Flush(writers[f], disk[f], backup[f])
  <2>1. disk'[f] = Destroyed(f, TRUE).file
    BY GoneIsClosed DEF BrokenMerges
  <2>2. disk'[f] = Merged(res.file)
    BY <2>1, FacadeAssumption DEF Destroyed, Merges
  <2>3. Flushed(writers[f], res)
    BY LiveType, FlushType DEF TypeInv, TypeOK, Files
  <2> HIDE DEF res
  <2>4. res.file \in Contents \cup {NoFile}
    BY <2>3 DEF Flushed
  <2> QED BY <2>2, <2>4, MergedCycles
<1> QED BY <1>1, InitType, NextType, PTL DEF Spec, FlushedFilesAreMerged
=============================================================================
