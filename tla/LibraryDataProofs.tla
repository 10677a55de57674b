-------------------------- MODULE LibraryDataProofs -------------------------
(***************************************************************************)
(* Proofs about the statements of the library and the lists of them that   *)
(* commands are: what the programs consist of, that every statement takes  *)
(* a library to a library, and what it does to the counts of listened time.*)
(***************************************************************************)
EXTENDS LibraryCommands, FoldProofs

-----------------------------------------------------------------------------
(* Commands and their statements.                                          *)

\* The statements of a transaction other than delete_track's.
InsertOfTracks == [do : {"InsertTracks"}, names : Seq(STRING)]
InsertOfSources == [do : {"InsertSources"}, pairs : Seq(Nat \X STRING)]
Assignment == [do : {"AssignTag"}, pairs : Seq(Int \X Int)]
SourceEdit == [do : {"AddTrackSource", "RemoveTrackSource"}, track : Int, url : STRING]
Credit == [do : {"AddToTotal", "AddToDay"}, track : Int, n : Int]
Edit == InsertOfTracks \cup InsertOfSources \cup Assignment \cup SourceEdit
Write == Edit \cup Credit

\* Cutting a sequence up yields sequences of the same elements.
LEMMA ChunksAreSeqs ==
  ASSUME NEW T, NEW s \in Seq(T)
  PROVE  Chunks(s) \in Seq(Seq(T))
<1> DEFINE n == (Len(s) + BatchSize - 1) \div BatchSize
           from(k) == (k - 1) * BatchSize
           size(k) == IF Len(s) - from(k) < BatchSize THEN Len(s) - from(k) ELSE BatchSize
           chunk(k) == [i \in 1 .. size(k) |-> s[from(k) + i]]
<1>1. BatchSize \in Nat /\ BatchSize > 0
  BY BatchAssumption
<1>2. n \in Nat
  <2>1. Len(s) + BatchSize - 1 \in Nat
    BY <1>1
  <2>2. QED BY <1>1, <2>1, Quotient
<1>3. ASSUME NEW k \in 1 .. n PROVE chunk(k) \in Seq(T)
  <2>1. from(k) \in Nat /\ from(k) <= Len(s)
    BY <1>1, PieceBegins
  <2> HIDE DEF from
  <2>2. size(k) \in Nat /\ from(k) + size(k) <= Len(s)
    BY <1>1, <2>1
  <2> HIDE DEF size
  <2>3. \A i \in 1 .. size(k) : s[from(k) + i] \in T
    BY <2>1, <2>2
  <2>4. QED BY <2>2, <2>3
<1>4. Chunks(s) = [k \in 1 .. n |-> chunk(k)]
  BY DEF Chunks
<1> HIDE DEF n, chunk
<1>5. QED BY <1>2, <1>3, <1>4

LEMMA DeleteProgram ==
  ASSUME NEW cmd, cmd.do = "DeleteTrack"
  PROVE  /\ InTransaction(cmd) /\ cmd.do \notin LogsInside
         /\ Len(Program(cmd)) = 7
         /\ \A i \in 1 .. 5 : Program(cmd)[i] = [do |-> "Read", table |-> Owned[i], track |-> cmd.track]
         /\ Program(cmd)[6] = [do |-> "Archive", track |-> cmd.track]
         /\ Program(cmd)[7] = [do |-> "DeleteTrackRow", track |-> cmd.track]
<1> DEFINE reads == [i \in 1 .. 5 |-> [do |-> "Read", table |-> Owned[i], track |-> cmd.track]]
           writes == <<[do |-> "Archive", track |-> cmd.track], [do |-> "DeleteTrackRow", track |-> cmd.track]>>
<1>1. DOMAIN Owned = 1 .. 5
  BY DEF Owned
<1>2. Program(cmd) = reads \o writes
  BY <1>1 DEF Program, DeleteTrack
<1> DEFINE T == {reads[i] : i \in 1 .. 5} \cup {writes[1], writes[2]}
<1>3. reads \in Seq(T) /\ Len(reads) = 5
  OBVIOUS
<1>4. writes \in Seq(T) /\ Len(writes) = 2
  OBVIOUS
<1>5. InTransaction(cmd) /\ cmd.do \notin LogsInside
  BY DEF InTransaction, LogsInside
<1>6. \A i \in 1 .. 5 : reads[i] = [do |-> "Read", table |-> Owned[i], track |-> cmd.track]
  OBVIOUS
<1>7. writes[1] = [do |-> "Archive", track |-> cmd.track] /\ writes[2] = [do |-> "DeleteTrackRow", track |-> cmd.track]
  OBVIOUS
<1> DEFINE all == reads \o writes
<1> HIDE DEF reads, writes, T
<1>8. /\ Len(all) = Len(reads) + Len(writes)
      /\ \A i \in 1 .. Len(reads) + Len(writes) : all[i] = IF i <= Len(reads) THEN reads[i] ELSE writes[i - Len(reads)]
  BY <1>3, <1>4, ConcatIndex, Zenon
<1>9. Program(cmd) = all
  BY <1>2
<1> HIDE DEF all
<1>10. QED BY <1>3, <1>4, <1>5, <1>6, <1>7, <1>8, <1>9

LEMMA PagesProgram ==
  ASSUME NEW cmd, cmd.do = "GetTracksWithSources"
  PROVE  /\ ~InTransaction(cmd) /\ Len(Program(cmd)) = 2
         /\ Program(cmd)[1] = [do |-> "GetTracks", filter |-> cmd.filter, cursor |-> cmd.cursor, limit |-> cmd.limit]
         /\ Program(cmd)[2] = [do |-> "SourcesOfShown"]
BY DEF Program, GetTracksWithSources, InTransaction, LogsInside

LEMMA SingleProgram ==
  ASSUME NEW cmd, ~InTransaction(cmd), cmd.do # "GetTracksWithSources"
  PROVE  Program(cmd) = <<cmd>>
BY DEF Program, InTransaction, LogsInside

LEMMA MapSeq ==
  ASSUME NEW T, NEW U, NEW s \in Seq(T), NEW t, t = [k \in DOMAIN s |-> t[k]],
         \A k \in DOMAIN s : t[k] \in U
  PROVE  t \in Seq(U) /\ Len(t) = Len(s)
OBVIOUS

LEMMA SourcePairsType ==
  ASSUME NEW cmd, cmd.urls \in Seq(Seq(STRING))
  PROVE  SourcePairs(cmd) \in Seq(Nat \X STRING)
<1> DEFINE ss == [k \in DOMAIN cmd.urls |-> [i \in DOMAIN cmd.urls[k] |-> <<k, cmd.urls[k][i]>>]]
<1>1. ASSUME NEW k \in DOMAIN cmd.urls PROVE ss[k] \in Seq(Nat \X STRING)
  <2>1. cmd.urls[k] \in Seq(STRING) /\ k \in Nat
    OBVIOUS
  <2>2. ss[k] = [i \in DOMAIN cmd.urls[k] |-> <<k, cmd.urls[k][i]>>]
    OBVIOUS
  <2>3. \A i \in DOMAIN cmd.urls[k] : <<k, cmd.urls[k][i]>> \in Nat \X STRING
    BY <2>1
  <2>4. QED BY <2>1, <2>2, <2>3
<1>2. ss = [k \in DOMAIN cmd.urls |-> ss[k]]
  OBVIOUS
<1>3. SourcePairs(cmd) = FlattenSeq(ss)
  BY DEF SourcePairs
<1> HIDE DEF ss
<1>4. ss \in Seq(Seq(Nat \X STRING))
  BY <1>1, <1>2, MapSeq
<1>5. QED BY <1>3, <1>4, FlattenElements

LEMMA EachAloneType ==
  ASSUME NEW T, NEW s \in Seq(T) PROVE <<s>> \in Seq(Seq(T)) /\ EachAlone(s) \in Seq(Seq(T))
<1>1. \A i \in DOMAIN s : EachAlone(s)[i] = <<s[i]>> /\ s[i] \in T
  BY DEF EachAlone
<1>2. \A x \in T : <<x>> \in Seq(T)
  OBVIOUS
<1>3. \A i \in DOMAIN s : EachAlone(s)[i] \in Seq(T)
  BY <1>1, <1>2, Zenon
<1>4. EachAlone(s) = [i \in DOMAIN s |-> EachAlone(s)[i]]
  BY DEF EachAlone
<1>5. EachAlone(s) \in Seq(Seq(T))
  BY <1>3, <1>4, MapSeq
<1>6. QED BY <1>5

\* The transactions that edit the library: what their statements are.
LEMMA WriterPrograms ==
  ASSUME NEW cmd, IsCommand(cmd), InTransaction(cmd), cmd.do \notin {"DeleteTrack", "AddListenedSeconds"}
  PROVE  Program(cmd) \in Seq(Edit)
<1>1. ASSUME NEW b \in Seq(Seq(STRING)) PROVE InsertBatches(b) \in Seq(Edit)
  <2>1. InsertBatches(b) = [k \in DOMAIN b |-> InsertBatches(b)[k]]
    BY DEF InsertBatches
  <2>2. \A k \in DOMAIN b : InsertBatches(b)[k] = [do |-> "InsertTracks", names |-> b[k]] /\ b[k] \in Seq(STRING)
    BY DEF InsertBatches
  <2>3. \A x \in Seq(STRING) : [do |-> "InsertTracks", names |-> x] \in Edit
    BY DEF Edit, InsertOfTracks
  <2>4. \A k \in DOMAIN b : InsertBatches(b)[k] \in Edit
    BY <2>2, <2>3, Zenon
  <2>5. QED BY <2>1, <2>4, MapSeq
<1>2. ASSUME NEW b \in Seq(Seq(Nat \X STRING)) PROVE InsertSources(b) \in Seq(Edit)
  <2>1. InsertSources(b) = [k \in DOMAIN b |-> InsertSources(b)[k]]
    BY DEF InsertSources
  <2>2. \A k \in DOMAIN b : InsertSources(b)[k] = [do |-> "InsertSources", pairs |-> b[k]] /\ b[k] \in Seq(Nat \X STRING)
    BY DEF InsertSources
  <2>3. \A x \in Seq(Nat \X STRING) : [do |-> "InsertSources", pairs |-> x] \in Edit
    BY DEF Edit, InsertOfSources
  <2>4. \A k \in DOMAIN b : InsertSources(b)[k] \in Edit
    BY <2>2, <2>3, Zenon
  <2>5. QED BY <2>1, <2>4, MapSeq
<1>3. CASE cmd.do \in {"AddTrack", "AddTracks"}
  <2>1. cmd.names \in Seq(STRING) /\ SourcePairs(cmd) \in Seq(Nat \X STRING)
    BY <1>3, SourcePairsType DEF IsCommand, OfOneTrack
  <2>2. <<cmd.names>> \in Seq(Seq(STRING)) /\ EachAlone(SourcePairs(cmd)) \in Seq(Seq(Nat \X STRING))
    BY <2>1, EachAloneType
  <2>3. Chunks(cmd.names) \in Seq(Seq(STRING)) /\ Chunks(SourcePairs(cmd)) \in Seq(Seq(Nat \X STRING))
    BY <2>1, ChunksAreSeqs
  <2>4. Program(cmd) = AddTrack(cmd) \/ Program(cmd) = AddTracks(cmd)
    BY <1>3 DEF Program
  <2>5. AddTrack(cmd) \in Seq(Edit)
    <3>1. InsertBatches(<<cmd.names>>) \in Seq(Edit) /\ InsertSources(EachAlone(SourcePairs(cmd))) \in Seq(Edit)
      BY <1>1, <1>2, <2>2
    <3>2. QED BY <3>1, ConcatIndex, Zenon DEF AddTrack
  <2>6. AddTracks(cmd) \in Seq(Edit)
    <3>1. InsertBatches(Chunks(cmd.names)) \in Seq(Edit) /\ InsertSources(Chunks(SourcePairs(cmd))) \in Seq(Edit)
      BY <1>1, <1>2, <2>3
    <3>2. QED BY <3>1, ConcatIndex, Zenon DEF AddTracks
  <2>7. QED BY <2>4, <2>5, <2>6
<1>4. CASE cmd.do = "AssignTags"
  <2>1. cmd.pairs \in Seq(Int \X Int)
    BY <1>4 DEF IsCommand, OfOneTrack
  <2> DEFINE chunks == Chunks(cmd.pairs)
  <2>2. chunks \in Seq(Seq(Int \X Int))
    BY <2>1, ChunksAreSeqs
  <2>3. Program(cmd) = [k \in DOMAIN chunks |-> [do |-> "AssignTag", pairs |-> chunks[k]]]
    BY <1>4 DEF Program, AssignTagsInChunks
  <2> HIDE DEF chunks
  <2>4. \A k \in DOMAIN chunks : chunks[k] \in Seq(Int \X Int)
    BY <2>2
  <2>5. Program(cmd) = [k \in DOMAIN chunks |-> Program(cmd)[k]]
    BY <2>3
  <2>6. \A k \in DOMAIN chunks : Program(cmd)[k] \in Edit
    BY <2>3, <2>4 DEF Edit, Assignment
  <2>7. Program(cmd) \in Seq(Edit)
    BY <2>2, <2>5, <2>6, MapSeq
  <2>8. QED BY <2>7
<1>5. CASE cmd.do = "EditTrackSource"
  <2>1. cmd.track \in Int /\ cmd.url \in STRING /\ cmd.newUrl \in STRING
    BY <1>5 DEF IsCommand, OfOneTrack
  <2>2. Program(cmd) = EditTrackSource(cmd)
    BY <1>5 DEF Program
  <2>3. EditTrackSource(cmd) \in Seq(Edit)
    BY <2>1 DEF EditTrackSource, Edit, SourceEdit
  <2>4. QED BY <2>2, <2>3
<1>6. QED BY <1>3, <1>4, <1>5 DEF InTransaction, LogsInside

LEMMA CreditProgram ==
  ASSUME NEW cmd, cmd.do = "AddListenedSeconds"
  PROVE  /\ Len(Program(cmd)) = 2
         /\ Program(cmd)[1] = [do |-> "AddToTotal", track |-> cmd.track, n |-> cmd.n]
         /\ Program(cmd)[2] = [do |-> "AddToDay", track |-> cmd.track, n |-> cmd.n]
BY DEF Program, AddListenedSeconds

LEMMA ReadsChangeNothing ==
  ASSUME NEW st, NEW d, NEW ids, NEW read, ReadsOnly(st)
  PROVE  Execute(st, d, ids, read).db = d
BY DEF Execute, GetTracks, When, Fail, Done

LEMMA WritesAreNoReads ==
  ASSUME NEW st \in Write PROVE ~ReadsOnly(st)
BY DEF Write, Edit, InsertOfTracks, InsertOfSources, Assignment, SourceEdit, Credit, ReadsOnly, Reads

-----------------------------------------------------------------------------
(* A library, table by table.                                              *)

TrackRow == [name : STRING, listened : Int]
TracksFit(track, n) ==
  /\ DOMAIN track \subseteq 1 .. n - 1
  /\ track \in [DOMAIN track -> TrackRow]
  /\ \A o, p \in DOMAIN track : track[o].name = track[p].name => o = p
TagsFit(tag, n) ==
  /\ DOMAIN tag \subseteq 1 .. n - 1
  /\ tag \in [DOMAIN tag -> STRING]
  /\ \A o, p \in DOMAIN tag : tag[o] = tag[p] => o = p
RowFits(r, tracks, tags, t) ==
  /\ r = Row(r.track, r.of, r.n) /\ r.n \in Int
  /\ r.track \in tracks /\ (t = "assignments" => r.of \in tags)
  /\ t \notin {"meta", "daily"} => r.n = 0
RowsFit(R, tracks, tags, t) ==
  /\ IsFiniteSet(R)
  /\ \A r \in R : RowFits(r, tracks, tags, t)
  /\ \A r, q \in R : SameKey(r, q) => r = q
NumbersFit(R, n) == \A r \in R : r.of \in 1 .. n - 1
NextFits(next) == next \in [NumberedTables \cup {"track", "tag"} -> Nat \ {0}]
IsDb(d) == d = [track |-> d.track, tag |-> d.tag, removed |-> d.removed, rows |-> d.rows, next |-> d.next]

LibraryFits(d) ==
  /\ NextFits(d.next)
  /\ TracksFit(d.track, d.next.track)
  /\ TagsFit(d.tag, d.next.tag)
  /\ DOMAIN d.rows = Tables
  /\ \A t \in Tables : RowsFit(d.rows[t], DOMAIN d.track, DOMAIN d.tag, t)
  /\ \A t \in NumberedTables : NumbersFit(d.rows[t], d.next[t])
  /\ d.removed \in Seq(ToSet(d.removed))

LEMMA LibraryParts == ASSUME NEW d PROVE IsLibrary(d) <=> IsDb(d) /\ LibraryFits(d)
<1>1. \A t \in Tables :
        RowsFit(d.rows[t], DOMAIN d.track, DOMAIN d.tag, t)
        <=> /\ IsFiniteSet(d.rows[t])
            /\ \A r \in d.rows[t] : r = Row(r.track, r.of, r.n) /\ r.n \in Int /\ Resolves(d, t, r)
            /\ t \notin {"meta", "daily"} => \A r \in d.rows[t] : r.n = 0
            /\ \A r, q \in d.rows[t] : SameKey(r, q) => r = q
  BY Zenon DEF RowsFit, RowFits, Resolves
<1>2. QED BY <1>1, Zenon DEF IsLibrary, IsDb, LibraryFits, NextFits, TracksFit, TrackRow, TagsFit, NumbersFit

DbFields == {"track", "tag", "removed", "rows", "next"}

\* What d has, e has too; the ids that were drawn stay drawn.
Keeps(d, e) ==
  DOMAIN d.track \subseteq DOMAIN e.track /\ d.next.track <= e.next.track /\ e.removed = d.removed

\* Nothing was listened to between d and e.
SameTime(d, e) ==
  \A id \in DOMAIN e.track :
    \/ /\ id \in DOMAIN d.track /\ e.track[id].listened = d.track[id].listened
       /\ RowsOf(e, "daily", id) = RowsOf(d, "daily", id)
    \/ e.track[id].listened = 0 /\ RowsOf(e, "daily", id) = {}

LEMMA SameTotals ==
  ASSUME NEW d, NEW e, SameTime(d, e), TotalsAgree(d)
  PROVE  TotalsAgree(e)
<1>1. \A x, id : DailyTotal(x, id) = Total(RowsOf(x, "daily", id))
  BY DEF DailyTotal, Total
<1>2. ASSUME NEW id \in DOMAIN e.track PROVE e.track[id].listened = DailyTotal(e, id)
  BY <1>1, TotalOfNone DEF SameTime, TotalsAgree
<1>3. QED BY <1>2 DEF TotalsAgree

LEMMA RowsFitMore ==
  ASSUME NEW R, NEW A, NEW B, NEW t, RowsFit(R, A, B, t), NEW A2, NEW B2, A \subseteq A2, B \subseteq B2
  PROVE  RowsFit(R, A2, B2, t)
BY DEF RowsFit, RowFits

\* A subset of a table's rows fits where all they refer to is still there.
LEMMA RowsFitLess ==
  ASSUME NEW R, NEW A, NEW B, NEW t, RowsFit(R, A, B, t), NEW S \in SUBSET R, NEW A2, NEW B2,
         \A r \in S : r.track \in A2 /\ (t = "assignments" => r.of \in B2)
  PROVE  RowsFit(S, A2, B2, t)
<1>1. IsFiniteSet(S)
  BY FS_Subset DEF RowsFit
<1>2. QED BY <1>1 DEF RowsFit, RowFits

LEMMA RowsReplaced ==
  ASSUME NEW d, IsLibrary(d), NEW t \in Tables, NEW R, RowsFit(R, DOMAIN d.track, DOMAIN d.tag, t),
         t \in NumberedTables => NumbersFit(R, d.next[t])
  PROVE  LET e == [d EXCEPT !.rows[t] = R]
         IN IsLibrary(e) /\ Keeps(d, e) /\ e.track = d.track /\ (t # "daily" => SameTime(d, e))
<1> DEFINE e == [d EXCEPT !.rows[t] = R]
           rows == [d.rows EXCEPT ![t] = R]
<1>1. IsDb(d) /\ LibraryFits(d)
  BY LibraryParts
<1>2. IsDb(e) /\ e.track = d.track /\ e.tag = d.tag /\ e.removed = d.removed /\ e.next = d.next /\ e.rows = rows
  BY <1>1 DEF IsDb
<1> HIDE DEF e
<1>3. DOMAIN rows = Tables /\ \A u \in Tables : rows[u] = IF u = t THEN R ELSE d.rows[u]
  BY <1>1 DEF LibraryFits
<1> HIDE DEF rows
<1>4. \A u \in Tables : RowsFit(e.rows[u], DOMAIN e.track, DOMAIN e.tag, u)
  BY <1>1, <1>2, <1>3, Zenon DEF LibraryFits
<1>5. \A u \in NumberedTables : NumbersFit(e.rows[u], e.next[u])
  <2>1. \A u \in NumberedTables : u \in Tables
    BY DEF Tables
  <2>2. QED BY <1>1, <1>2, <1>3, <2>1, Zenon DEF LibraryFits
<1>6. LibraryFits(e)
  BY <1>1, <1>2, <1>3, <1>4, <1>5, Zenon DEF LibraryFits
<1>7. IsLibrary(e)
  BY <1>2, <1>6, LibraryParts
<1>8. Keeps(d, e)
  BY <1>1, <1>2 DEF Keeps, LibraryFits, NextFits
<1>9. ASSUME t # "daily" PROVE SameTime(d, e)
  <2>1. e.rows["daily"] = d.rows["daily"]
    BY <1>2, <1>3, <1>9 DEF Tables, UniqueTables
  <2>2. QED BY <1>2, <2>1 DEF SameTime, RowsOf
<1>10. QED BY <1>2, <1>7, <1>8, <1>9 DEF e

LEMMA ListIsFinite ==
  ASSUME NEW new, NEW k \in Nat, DOMAIN new = 1 .. k, new = [i \in 1 .. k |-> new[i]]
  PROVE  IsFiniteSet(ToSet(new))
<1>1. new \in Surjection(1 .. k, ToSet(new))
  BY DEF Surjection, ToSet
<1>2. IsFiniteSet(1 .. k)
  BY FS_Interval
<1>3. QED BY <1>1, <1>2, FS_Surjection

-----------------------------------------------------------------------------
(* Every statement takes a library to a library.                           *)

\* When the row is there, or the name is taken, nothing happens.
LEMMA Same == ASSUME NEW d, IsLibrary(d) PROVE Keeps(d, d) /\ SameTime(d, d)
<1>1. d.next.track \in Nat
  BY LibraryParts DEF LibraryFits, NextFits
<1>2. QED BY <1>1 DEF Keeps, SameTime

LEMMA EmptyLibrary == IsLibrary(EmptyDb) /\ TotalsAgree(EmptyDb)
<1> DEFINE e == EmptyDb
<1>1. /\ IsDb(e) /\ e.track = << >> /\ e.tag = << >> /\ e.removed = << >>
      /\ e.rows = [t \in Tables |-> {}]
      /\ e.next = [t \in NumberedTables \cup {"track", "tag"} |-> 1]
  BY DEF EmptyDb, IsDb
<1> HIDE DEF e
<1>2. NextFits(e.next) /\ TracksFit(e.track, e.next.track) /\ TagsFit(e.tag, e.next.tag)
  BY <1>1 DEF NextFits, TracksFit, TagsFit
<1>3. DOMAIN e.rows = Tables /\ (\A t \in Tables : RowsFit(e.rows[t], DOMAIN e.track, DOMAIN e.tag, t))
  BY <1>1, FS_EmptySet DEF RowsFit
<1>4. \A t \in NumberedTables : NumbersFit(e.rows[t], e.next[t])
  BY <1>1 DEF NumbersFit, Tables
<1>5. e.removed \in Seq(ToSet(e.removed))
  BY <1>1
<1>6. IsLibrary(e)
  BY <1>1, <1>2, <1>3, <1>4, <1>5, LibraryParts DEF LibraryFits
<1>7. TotalsAgree(e)
  BY <1>1 DEF TotalsAgree
<1>8. QED BY <1>6, <1>7 DEF e

LEMMA DbIsRecord == ASSUME NEW d PROVE IsDb(d) <=> DOMAIN d = DbFields /\ d = [f \in DbFields |-> d[f]]
<1>1. IsDb(d) => DOMAIN d = DbFields /\ d = [f \in DbFields |-> d[f]]
  BY DEF IsDb, DbFields
<1>2. DOMAIN d = DbFields /\ d = [f \in DbFields |-> d[f]] => IsDb(d)
  BY DEF IsDb, DbFields
<1>3. QED BY <1>1, <1>2

LEMMA TracksReplaced ==
  ASSUME NEW d, IsDb(d), NEW track, NEW n
  PROVE  LET e == [d EXCEPT !.track = track, !.next.track = n]
         IN /\ IsDb(e) /\ e.track = track /\ e.tag = d.tag /\ e.removed = d.removed
            /\ e.rows = d.rows /\ e.next = [d.next EXCEPT !.track = n]
<1> DEFINE e == [d EXCEPT !.track = track, !.next.track = n]
<1>1. DOMAIN d = DbFields
  BY DbIsRecord
<1>2. DOMAIN e = DbFields /\ e = [f \in DbFields |-> e[f]]
  BY <1>1
<1>3. /\ e.track = track /\ e.tag = d.tag /\ e.removed = d.removed
      /\ e.rows = d.rows /\ e.next = [d.next EXCEPT !.track = n]
  BY <1>1 DEF DbFields
<1> HIDE DEF e
<1>4. IsDb(e)
  BY <1>2, DbIsRecord
<1>5. QED BY <1>3, <1>4 DEF e

LEMMA InsertTracksKeeps ==
  ASSUME NEW d, IsLibrary(d), NEW names \in Seq(STRING)
  PROVE  LET e == InsertTracks(d, names).db IN IsLibrary(e) /\ Keeps(d, e) /\ SameTime(d, e)
<1> DEFINE first == d.next.track
           new == first .. first + Len(names) - 1
           track == [id \in DOMAIN d.track \cup new |->
                       IF id \in new THEN [name |-> names[id - first + 1], listened |-> 0] ELSE d.track[id]]
           n == first + Len(names)
           next == [d.next EXCEPT !.track = n]
           e == [d EXCEPT !.track = track, !.next.track = n]
           ok == InsertTracks(d, names).ok
<1>1. IsDb(d) /\ LibraryFits(d)
  BY LibraryParts
<1>2. first \in Nat /\ first > 0 /\ Len(names) \in Nat
  BY <1>1 DEF LibraryFits, NextFits
<1>3. CASE ~ok
  <2>1. InsertTracks(d, names).db = d
    BY <1>3 DEF InsertTracks, When, Done, Fail
  <2>2. QED BY <2>1, Same
<1>4. CASE ok
  <2>1. InsertTracks(d, names).db = e
    BY <1>4 DEF InsertTracks, When, Done, Fail
  <2>2. /\ \A i \in DOMAIN names : ~NameTaken(d, names[i], 0)
        /\ \A i, j \in DOMAIN names : names[i] = names[j] => i = j
    BY <1>4 DEF InsertTracks, When, Done, Fail
  <2>3. IsDb(e) /\ e.track = track /\ e.tag = d.tag /\ e.removed = d.removed /\ e.next = next /\ e.rows = d.rows
    <3> HIDE DEF track, n
    <3>1. \A x, y : LET f == [d EXCEPT !.track = x, !.next.track = y]
                    IN /\ IsDb(f) /\ f.track = x /\ f.tag = d.tag /\ f.removed = d.removed
                       /\ f.rows = d.rows /\ f.next = [d.next EXCEPT !.track = y]
      BY <1>1, TracksReplaced
    <3>2. QED BY <3>1
  <2> HIDE DEF e
  <2>4. next.track = first + Len(names) /\ NextFits(next) /\ \A t \in NumberedTables \cup {"tag"} : next[t] = d.next[t]
    BY <1>1, <1>2 DEF LibraryFits, NextFits, NumberedTables
  <2> HIDE DEF next
  <2>5. DOMAIN d.track \subseteq 1 .. first - 1
    BY <1>1 DEF LibraryFits, TracksFit
  <2>6. DOMAIN track = DOMAIN d.track \cup new
    OBVIOUS
  <2>7. \A id \in DOMAIN d.track : track[id] = d.track[id] /\ id \notin new
    BY <1>2, <2>5
  <2>8. \A id \in new : /\ track[id] = [name |-> names[id - first + 1], listened |-> 0]
                        /\ track[id].name = names[id - first + 1] /\ track[id].listened = 0
                        /\ id - first + 1 \in DOMAIN names /\ id \notin DOMAIN d.track
    BY <1>2, <2>5
  <2>9. \A id \in DOMAIN track : track[id] \in TrackRow
    <3>1. \A id \in DOMAIN d.track : d.track[id] \in TrackRow
      BY <1>1 DEF LibraryFits, TracksFit
    <3>2. \A i \in DOMAIN names : names[i] \in STRING
      OBVIOUS
    <3>3. \A id \in new : track[id] \in TrackRow
      <4>1. \A x \in STRING : [name |-> x, listened |-> 0] \in TrackRow
        BY DEF TrackRow
      <4> HIDE DEF track, new, first
      <4>2. QED BY <2>8, <3>2, <4>1, Zenon
    <3>4. QED BY <2>6, <2>7, <3>1, <3>3
  <2>10. \A o \in new, p \in DOMAIN d.track : track[o].name # track[p].name
    <3>1. \A p \in DOMAIN d.track : p # 0
      BY <2>5
    <3> SUFFICES ASSUME NEW o \in new, NEW p \in DOMAIN d.track PROVE track[o].name # track[p].name
      OBVIOUS
    <3> HIDE DEF track, new, first, ok
    <3>2. o - first + 1 \in DOMAIN names /\ track[o].name = names[o - first + 1] /\ track[p] = d.track[p]
      BY <2>7, <2>8
    <3>3. ~NameTaken(d, names[o - first + 1], 0)
      BY <2>2, <3>2
    <3>4. QED BY <3>1, <3>2, <3>3 DEF NameTaken
  <2>11. \A o, p \in new : track[o].name = track[p].name => o = p
    BY <1>2, <2>2, <2>8
  <2>12. \A o, p \in DOMAIN d.track : d.track[o].name = d.track[p].name => o = p
    BY <1>1 DEF LibraryFits, TracksFit
  <2>13. track = [id \in DOMAIN track |-> track[id]]
    OBVIOUS
  <2>14. new \subseteq 1 .. first + Len(names) - 1 /\ 1 .. first - 1 \subseteq 1 .. first + Len(names) - 1
    BY <1>2
  <2> HIDE DEF track, new
  <2>15. TracksFit(track, next.track)
    <3>1. DOMAIN track \subseteq 1 .. next.track - 1
      <4>1. next.track - 1 = first + Len(names) - 1
        BY <1>2, <2>4
      <4>2. QED BY <2>5, <2>6, <2>14, <4>1
    <3>2. \A o, p \in DOMAIN track : track[o].name = track[p].name => o = p
      BY <2>6, <2>7, <2>10, <2>11, <2>12
    <3>3. QED BY <2>9, <2>13, <3>1, <3>2 DEF TracksFit
  <2>16. \A t \in Tables : RowsFit(e.rows[t], DOMAIN e.track, DOMAIN e.tag, t)
    BY <1>1, <2>3, <2>6, RowsFitMore DEF LibraryFits
  <2>17. LibraryFits(e)
    BY <1>1, <2>3, <2>4, <2>15, <2>16 DEF LibraryFits
  <2>18. Keeps(d, e)
    BY <1>2, <2>3, <2>4, <2>6 DEF Keeps
  <2>19. SameTime(d, e)
    <3>1. \A id : RowsOf(e, "daily", id) = RowsOf(d, "daily", id)
      BY <2>3 DEF RowsOf
    <3>2. \A r \in d.rows["daily"] : r.track \in DOMAIN d.track
      BY <1>1 DEF LibraryFits, RowsFit, RowFits, Tables, UniqueTables
    <3>3. \A id \in new : RowsOf(d, "daily", id) = {}
      <4>1. \A id \in new : id \notin DOMAIN d.track
        BY <2>8
      <4>2. QED BY <3>2, <4>1 DEF RowsOf
    <3>4. \A id \in new : track[id].listened = 0
      BY <2>8, Zenon
    <3>5. QED BY <2>3, <2>6, <2>7, <3>1, <3>3, <3>4 DEF SameTime
  <2>20. QED BY <2>1, <2>3, <2>17, <2>18, <2>19, LibraryParts
<1>5. QED BY <1>3, <1>4

LEMMA TracksRewritten ==
  ASSUME NEW d, IsLibrary(d), NEW track, DOMAIN track = DOMAIN d.track, TracksFit(track, d.next.track)
  PROVE  LET e == [d EXCEPT !.track = track]
         IN IsLibrary(e) /\ Keeps(d, e) /\ e.track = track /\ e.rows = d.rows
<1> DEFINE e == [d EXCEPT !.track = track]
<1>1. IsDb(d) /\ LibraryFits(d)
  BY LibraryParts
<1>2. IsDb(e) /\ e.track = track /\ e.tag = d.tag /\ e.removed = d.removed /\ e.next = d.next /\ e.rows = d.rows
  BY <1>1 DEF IsDb
<1> HIDE DEF e
<1>3. LibraryFits(e)
  BY <1>1, <1>2 DEF LibraryFits
<1>4. Keeps(d, e)
  BY <1>1, <1>2 DEF Keeps, LibraryFits, NextFits
<1>5. QED BY <1>2, <1>3, <1>4, LibraryParts DEF e

LEMMA UpdateTrackKeeps ==
  ASSUME NEW d, IsLibrary(d), NEW id, NEW name \in STRING
  PROVE  LET e == UpdateTrack(d, id, name).db IN IsLibrary(e) /\ Keeps(d, e) /\ SameTime(d, e)
<1> DEFINE track == [o \in DOMAIN d.track |-> IF o = id THEN [d.track[o] EXCEPT !.name = name] ELSE d.track[o]]
           e == [d EXCEPT !.track = track]
           ok == id \notin DOMAIN d.track \/ ~NameTaken(d, name, id)
<1>1. TracksFit(d.track, d.next.track)
  BY LibraryParts DEF LibraryFits
<1>2. CASE ~ok
  <2>1. UpdateTrack(d, id, name).db = d
    BY <1>2 DEF UpdateTrack, When, Done, Fail
  <2>2. QED BY <2>1, Same
<1>3. CASE ok
  <2>1. UpdateTrack(d, id, name).db = e
    BY <1>3 DEF UpdateTrack, When, Done, Fail
  <2>2. \A o \in DOMAIN d.track : d.track[o] \in TrackRow
    BY <1>1 DEF TracksFit
  <2>3. \A x \in TrackRow : LET y == [x EXCEPT !.name = name]
                            IN y \in TrackRow /\ y.name = name /\ y.listened = x.listened
    BY DEF TrackRow
  <2>4. \A o \in DOMAIN d.track :
          /\ track[o] \in TrackRow /\ track[o].listened = d.track[o].listened
          /\ track[o].name = IF o = id THEN name ELSE d.track[o].name
    BY <2>2, <2>3
  <2>5. DOMAIN track = DOMAIN d.track /\ track = [o \in DOMAIN track |-> track[o]]
    OBVIOUS
  <2> HIDE DEF track
  <2>6. \A o, p \in DOMAIN track : track[o].name = track[p].name => o = p
    <3>1. \A o \in DOMAIN d.track : o # id /\ id \in DOMAIN d.track => d.track[o].name # name
      BY <1>3 DEF NameTaken
    <3>2. \A o, p \in DOMAIN d.track : d.track[o].name = d.track[p].name => o = p
      BY <1>1 DEF TracksFit
    <3>3. QED BY <2>4, <2>5, <3>1, <3>2
  <2>7. TracksFit(track, d.next.track)
    BY <1>1, <2>4, <2>5, <2>6 DEF TracksFit
  <2>8. IsLibrary(e) /\ Keeps(d, e) /\ e.track = track /\ e.rows = d.rows
    BY <2>5, <2>7, TracksRewritten
  <2> HIDE DEF e
  <2>9. SameTime(d, e)
    BY <2>4, <2>5, <2>8 DEF SameTime, RowsOf
  <2>10. QED BY <2>1, <2>8, <2>9
<1>4. QED BY <1>2, <1>3

\* The total runs ahead of the daily counts by what it was raised by.
TotalsAhead(d, id, n) ==
  \A o \in DOMAIN d.track : d.track[o].listened = DailyTotal(d, o) + (IF o = id THEN n ELSE 0)

LEMMA AddToTotalKeeps ==
  ASSUME NEW d, IsLibrary(d), NEW id, NEW n \in Int
  PROVE  LET e == AddToTotal(d, id, n).db
         IN IsLibrary(e) /\ Keeps(d, e) /\ (TotalsAgree(d) => TotalsAhead(e, id, n))
<1> DEFINE track == [o \in DOMAIN d.track |->
                       IF o = id THEN [d.track[o] EXCEPT !.listened = d.track[o].listened + n] ELSE d.track[o]]
           e == [d EXCEPT !.track = track]
<1>1. TracksFit(d.track, d.next.track)
  BY LibraryParts DEF LibraryFits
<1>2. AddToTotal(d, id, n).db = e
  BY DEF AddToTotal, Done
<1>3. \A o \in DOMAIN d.track : d.track[o] \in TrackRow
  BY <1>1 DEF TracksFit
<1>4. \A x \in TrackRow : LET y == [x EXCEPT !.listened = x.listened + n]
                          IN y \in TrackRow /\ y.name = x.name /\ y.listened = x.listened + n /\ x.listened \in Int
  BY DEF TrackRow
<1>5. \A o \in DOMAIN d.track :
        /\ track[o] \in TrackRow /\ track[o].name = d.track[o].name
        /\ track[o].listened = d.track[o].listened + (IF o = id THEN n ELSE 0)
  BY <1>3, <1>4
<1>6. DOMAIN track = DOMAIN d.track /\ track = [o \in DOMAIN track |-> track[o]]
  OBVIOUS
<1> HIDE DEF track
<1>7. TracksFit(track, d.next.track)
  BY <1>1, <1>5, <1>6 DEF TracksFit
<1>8. IsLibrary(e) /\ Keeps(d, e) /\ e.track = track /\ e.rows = d.rows
  BY <1>6, <1>7, TracksRewritten
<1> HIDE DEF e
<1>9. ASSUME TotalsAgree(d) PROVE TotalsAhead(e, id, n)
  <2>1. \A o : DailyTotal(e, o) = DailyTotal(d, o)
    BY <1>8 DEF DailyTotal, RowsOf
  <2>2. QED BY <1>5, <1>6, <1>8, <1>9, <2>1 DEF TotalsAgree, TotalsAhead
<1>10. QED BY <1>2, <1>8, <1>9

\* Removing a track removes what refers to it, so that no row is left behind.
LEMMA DeleteTrackRowKeeps ==
  ASSUME NEW d, IsLibrary(d), NEW id
  PROVE  LET e == DeleteTrackRow(d, id).db
         IN /\ IsLibrary(e) /\ SameTime(d, e) /\ DOMAIN e.track = DOMAIN d.track \ {id}
            /\ e.next = d.next /\ e.removed = d.removed
<1> DEFINE track == [o \in DOMAIN d.track \ {id} |-> d.track[o]]
           rows == [t \in Tables |-> d.rows[t] \ RowsOf(d, t, id)]
           e == [d EXCEPT !.track = track, !.rows = rows]
<1>1. IsDb(d) /\ LibraryFits(d)
  BY LibraryParts
<1>2. DeleteTrackRow(d, id).db = e
  BY DEF DeleteTrackRow, Done
<1>3. IsDb(e) /\ e.track = track /\ e.tag = d.tag /\ e.removed = d.removed /\ e.next = d.next /\ e.rows = rows
  <2> HIDE DEF track, rows
  <2>1. DOMAIN d = DbFields
    BY <1>1, DbIsRecord
  <2>2. DOMAIN e = DbFields /\ e = [f \in DbFields |-> e[f]]
    BY <2>1
  <2>3. e.track = track /\ e.tag = d.tag /\ e.removed = d.removed /\ e.next = d.next /\ e.rows = rows
    BY <2>1 DEF DbFields
  <2> HIDE DEF e
  <2>4. QED BY <2>2, <2>3, DbIsRecord
<1> HIDE DEF e
<1>4. TracksFit(track, d.next.track)
  BY <1>1 DEF LibraryFits, TracksFit
<1>5. DOMAIN rows = Tables /\ \A t \in Tables : rows[t] = {r \in d.rows[t] : r.track # id}
  BY DEF RowsOf
<1>6. DOMAIN track = DOMAIN d.track \ {id} /\ \A o \in DOMAIN track : track[o] = d.track[o]
  OBVIOUS
<1> HIDE DEF track, rows
<1>7. ASSUME NEW t \in Tables PROVE RowsFit(rows[t], DOMAIN track, DOMAIN d.tag, t)
  <2>1. RowsFit(d.rows[t], DOMAIN d.track, DOMAIN d.tag, t)
    BY <1>1 DEF LibraryFits
  <2>2. \A r \in rows[t] : r.track \in DOMAIN track /\ (t = "assignments" => r.of \in DOMAIN d.tag)
    BY <1>5, <1>6, <2>1 DEF RowsFit, RowFits
  <2>3. rows[t] \in SUBSET d.rows[t]
    BY <1>5
  <2>4. QED BY <2>1, <2>2, <2>3, RowsFitLess
<1>8. \A t \in NumberedTables : NumbersFit(rows[t], d.next[t])
  BY <1>1, <1>5 DEF LibraryFits, NumbersFit, Tables
<1>9. LibraryFits(e)
  BY <1>1, <1>3, <1>4, <1>5, <1>7, <1>8 DEF LibraryFits
<1>10. SameTime(d, e)
  <2>1. "daily" \in Tables
    BY DEF Tables, UniqueTables
  <2>2. \A o : o # id => RowsOf(e, "daily", o) = RowsOf(d, "daily", o)
    BY <1>3, <1>5, <2>1 DEF RowsOf
  <2>3. QED BY <1>3, <1>6, <2>2 DEF SameTime
<1>11. QED BY <1>2, <1>3, <1>6, <1>9, <1>10, LibraryParts

LEMMA TagsReplaced ==
  ASSUME NEW d, IsLibrary(d), NEW tag, NEW n \in Nat, d.next.tag <= n, TagsFit(tag, n),
         NEW R, RowsFit(R, DOMAIN d.track, DOMAIN tag, "assignments"),
         NEW e, IsDb(e), e.track = d.track, e.tag = tag, e.removed = d.removed,
         DOMAIN e.rows = Tables, \A t \in Tables : e.rows[t] = IF t = "assignments" THEN R ELSE d.rows[t],
         e.next = [d.next EXCEPT !["tag"] = n]
  PROVE  IsLibrary(e) /\ Keeps(d, e) /\ SameTime(d, e)
<1>1. LibraryFits(d)
  BY LibraryParts
<1>2. DOMAIN e.rows = Tables /\ \A t \in Tables : e.rows[t] = IF t = "assignments" THEN R ELSE d.rows[t]
  OBVIOUS
<1>3. /\ NextFits(e.next) /\ e.next.tag = n /\ e.next.track = d.next.track
      /\ \A t \in NumberedTables : e.next[t] = d.next[t]
  BY <1>1 DEF LibraryFits, NextFits, NumberedTables
<1>4. ASSUME NEW t \in Tables PROVE RowsFit(e.rows[t], DOMAIN e.track, DOMAIN e.tag, t)
  <2>1. t # "assignments" => RowsFit(d.rows[t], DOMAIN d.track, DOMAIN tag, t)
    BY <1>1 DEF LibraryFits, RowsFit, RowFits
  <2>2. QED BY <1>2, <2>1
<1>5. \A t \in NumberedTables : NumbersFit(e.rows[t], e.next[t])
  BY <1>1, <1>2, <1>3 DEF LibraryFits, Tables, NumberedTables
<1>6. LibraryFits(e)
  BY <1>1, <1>2, <1>3, <1>4, <1>5 DEF LibraryFits
<1>7. Keeps(d, e)
  BY <1>1, <1>3 DEF LibraryFits, NextFits, Keeps
<1>8. e.rows["daily"] = d.rows["daily"]
  BY <1>2 DEF Tables, UniqueTables
<1>9. SameTime(d, e)
  BY <1>8 DEF SameTime, RowsOf
<1>10. QED BY <1>6, <1>7, <1>9, LibraryParts

LEMMA AddTagKeeps ==
  ASSUME NEW d, IsLibrary(d), NEW name \in STRING
  PROVE  LET e == AddTag(d, name).db IN IsLibrary(e) /\ Keeps(d, e) /\ SameTime(d, e)
<1> DEFINE id == d.next.tag
           tag == [o \in DOMAIN d.tag \cup {id} |-> IF o = id THEN name ELSE d.tag[o]]
           m == id + 1
           e == [d EXCEPT !.tag = tag, !.next.tag = m]
           ok == ~TagNameTaken(d, name, 0)
<1>1. IsDb(d) /\ LibraryFits(d)
  BY LibraryParts
<1>2. CASE ~ok
  <2>1. AddTag(d, name).db = d
    BY <1>2 DEF AddTag, When, Done, Fail
  <2>2. QED BY <2>1, Same
<1>3. CASE ok
  <2>1. AddTag(d, name).db = e
    BY <1>3 DEF AddTag, When, Done, Fail
  <2>2. id \in Nat /\ id > 0 /\ m \in Nat /\ id <= m
    BY <1>1 DEF LibraryFits, NextFits
  <2>3. DOMAIN d.tag \subseteq 1 .. id - 1 /\ d.tag \in [DOMAIN d.tag -> STRING]
        /\ \A o, p \in DOMAIN d.tag : d.tag[o] = d.tag[p] => o = p
    BY <1>1 DEF LibraryFits, TagsFit
  <2>4. \A o \in DOMAIN d.tag : d.tag[o] # name
    BY <1>3, <2>2, <2>3 DEF TagNameTaken
  <2>5. TagsFit(tag, m)
    <3>1. DOMAIN tag \subseteq 1 .. m - 1
      BY <2>2, <2>3
    <3>2. \A o \in DOMAIN d.tag : o # id
      BY <2>2, <2>3
    <3>3. \A o, p \in DOMAIN tag : tag[o] = tag[p] => o = p
      BY <2>3, <2>4, <3>2
    <3>4. QED BY <2>3, <3>1, <3>3 DEF TagsFit
  <2>6. DOMAIN tag = DOMAIN d.tag \cup {id}
    OBVIOUS
  <2>7. DOMAIN d.rows = Tables
        /\ \A t \in Tables : d.rows[t] = IF t = "assignments" THEN d.rows["assignments"] ELSE d.rows[t]
    BY <1>1 DEF LibraryFits
  <2> HIDE DEF tag, m
  <2>8. IsDb(e) /\ e.track = d.track /\ e.tag = tag /\ e.removed = d.removed /\ e.next = [d.next EXCEPT !["tag"] = m] /\ e.rows = d.rows
    <3>1. DOMAIN d = DbFields
      BY <1>1, DbIsRecord
    <3>2. DOMAIN e = DbFields /\ e = [f \in DbFields |-> e[f]]
      BY <3>1
    <3>3. e.track = d.track /\ e.tag = tag /\ e.removed = d.removed /\ e.next = [d.next EXCEPT !["tag"] = m] /\ e.rows = d.rows
      BY <3>1 DEF DbFields
    <3> HIDE DEF e
    <3>4. QED BY <3>2, <3>3, DbIsRecord
  <2>9. RowsFit(d.rows["assignments"], DOMAIN d.track, DOMAIN tag, "assignments")
    <3>1. "assignments" \in Tables
      BY DEF Tables, UniqueTables
    <3>2. QED BY <1>1, <2>6, <3>1, RowsFitMore DEF LibraryFits
  <2> HIDE DEF e, id
  <2>10. QED BY <2>1, <2>2, <2>5, <2>7, <2>8, <2>9, TagsReplaced DEF id
<1>4. QED BY <1>2, <1>3

LEMMA EditTagKeeps ==
  ASSUME NEW d, IsLibrary(d), NEW id, NEW name \in STRING
  PROVE  LET e == EditTag(d, id, name).db IN IsLibrary(e) /\ Keeps(d, e) /\ SameTime(d, e)
<1> DEFINE tag == [o \in DOMAIN d.tag |-> IF o = id THEN name ELSE d.tag[o]]
           e == [d EXCEPT !.tag = tag]
           ok == id \notin DOMAIN d.tag \/ ~TagNameTaken(d, name, id)
<1>1. IsDb(d) /\ LibraryFits(d)
  BY LibraryParts
<1>2. CASE ~ok
  <2>1. EditTag(d, id, name).db = d
    BY <1>2 DEF EditTag, When, Done, Fail
  <2>2. QED BY <2>1, Same
<1>3. CASE ok
  <2>1. EditTag(d, id, name).db = e
    BY <1>3 DEF EditTag, When, Done, Fail
  <2>2. DOMAIN d.tag \subseteq 1 .. d.next.tag - 1 /\ d.tag \in [DOMAIN d.tag -> STRING]
        /\ \A o, p \in DOMAIN d.tag : d.tag[o] = d.tag[p] => o = p
    BY <1>1 DEF LibraryFits, TagsFit
  <2>3. \A o \in DOMAIN d.tag : o # id /\ id \in DOMAIN d.tag => d.tag[o] # name
    BY <1>3 DEF TagNameTaken
  <2>4. \A o, p \in DOMAIN tag : tag[o] = tag[p] => o = p
    BY <2>2, <2>3
  <2>5. TagsFit(tag, d.next.tag)
    BY <2>2, <2>4 DEF TagsFit
  <2>6. DOMAIN tag = DOMAIN d.tag
    OBVIOUS
  <2> HIDE DEF tag
  <2>7. IsDb(e) /\ e.track = d.track /\ e.tag = tag /\ e.removed = d.removed /\ e.next = d.next /\ e.rows = d.rows
    BY <1>1 DEF IsDb
  <2>8. RowsFit(d.rows["assignments"], DOMAIN d.track, DOMAIN tag, "assignments")
    <3>1. "assignments" \in Tables
      BY DEF Tables, UniqueTables
    <3>2. QED BY <1>1, <2>6, <3>1 DEF LibraryFits
  <2>9. d.next.tag \in Nat /\ d.next.tag <= d.next.tag /\ e.next = [d.next EXCEPT !["tag"] = d.next.tag]
    BY <1>1, <2>7 DEF LibraryFits, NextFits
  <2>10. DOMAIN e.rows = Tables
         /\ \A t \in Tables : e.rows[t] = IF t = "assignments" THEN d.rows["assignments"] ELSE d.rows[t]
    BY <1>1, <2>7 DEF LibraryFits
  <2> HIDE DEF e
  <2>11. QED BY <2>1, <2>5, <2>7, <2>8, <2>9, <2>10, TagsReplaced
<1>4. QED BY <1>2, <1>3

\* Removing a tag takes it off every track.
LEMMA DeleteTagKeeps ==
  ASSUME NEW d, IsLibrary(d), NEW id
  PROVE  LET e == DeleteTag(d, id).db IN IsLibrary(e) /\ Keeps(d, e) /\ SameTime(d, e)
<1> DEFINE tag == [o \in DOMAIN d.tag \ {id} |-> d.tag[o]]
           R == {r \in d.rows["assignments"] : r.of # id}
           e == [d EXCEPT !.tag = tag, !.rows["assignments"] = R]
<1>1. IsDb(d) /\ LibraryFits(d)
  BY LibraryParts
<1>2. DeleteTag(d, id).db = e
  BY DEF DeleteTag, Done
<1>3. DOMAIN d.tag \subseteq 1 .. d.next.tag - 1 /\ d.tag \in [DOMAIN d.tag -> STRING]
      /\ \A o, p \in DOMAIN d.tag : d.tag[o] = d.tag[p] => o = p
  BY <1>1 DEF LibraryFits, TagsFit
<1>4. TagsFit(tag, d.next.tag) /\ DOMAIN tag = DOMAIN d.tag \ {id}
  BY <1>3 DEF TagsFit
<1>5. R \in SUBSET d.rows["assignments"] /\ \A r \in R : r.of # id
  OBVIOUS
<1> HIDE DEF tag, R
<1>6. IsDb(e) /\ e.track = d.track /\ e.tag = tag /\ e.removed = d.removed /\ e.next = d.next
      /\ e.rows = [d.rows EXCEPT !["assignments"] = R]
  <2>1. DOMAIN d = DbFields
    BY <1>1, DbIsRecord
  <2>2. DOMAIN e = DbFields /\ e = [f \in DbFields |-> e[f]]
    BY <2>1
  <2>3. e.track = d.track /\ e.tag = tag /\ e.removed = d.removed /\ e.next = d.next
        /\ e.rows = [d.rows EXCEPT !["assignments"] = R]
    BY <2>1 DEF DbFields
  <2> HIDE DEF e
  <2>4. QED BY <2>2, <2>3, DbIsRecord
<1>7. RowsFit(R, DOMAIN d.track, DOMAIN tag, "assignments")
  <2>1. RowsFit(d.rows["assignments"], DOMAIN d.track, DOMAIN d.tag, "assignments")
    <3>1. "assignments" \in Tables
      BY DEF Tables, UniqueTables
    <3>2. QED BY <1>1, <3>1 DEF LibraryFits
  <2>2. \A r \in R : r.track \in DOMAIN d.track /\ r.of \in DOMAIN tag
    BY <1>4, <1>5, <2>1 DEF RowsFit, RowFits
  <2>3. QED BY <1>5, <2>1, <2>2, RowsFitLess
<1>8. d.next.tag \in Nat /\ d.next.tag <= d.next.tag /\ e.next = [d.next EXCEPT !["tag"] = d.next.tag]
  BY <1>1, <1>6 DEF LibraryFits, NextFits
<1>9. DOMAIN e.rows = Tables /\ \A t \in Tables : e.rows[t] = IF t = "assignments" THEN R ELSE d.rows[t]
  BY <1>1, <1>6 DEF LibraryFits
<1> HIDE DEF e
<1>10. QED BY <1>2, <1>4, <1>6, <1>7, <1>8, <1>9, TagsReplaced

-----------------------------------------------------------------------------
(* The tables that refer to a track.                                       *)

LEMMA DeleteRowsKeeps ==
  ASSUME NEW d, IsLibrary(d), NEW t \in Tables \ {"daily"}, NEW R \in SUBSET d.rows[t]
  PROVE  LET e == [d EXCEPT !.rows[t] = R] IN IsLibrary(e) /\ Keeps(d, e) /\ SameTime(d, e)
<1>1. LibraryFits(d)
  BY LibraryParts
<1>2. RowsFit(d.rows[t], DOMAIN d.track, DOMAIN d.tag, t)
  BY <1>1 DEF LibraryFits
<1>3. RowsFit(R, DOMAIN d.track, DOMAIN d.tag, t)
  <2>1. \A r \in R : r.track \in DOMAIN d.track /\ (t = "assignments" => r.of \in DOMAIN d.tag)
    BY <1>2 DEF RowsFit, RowFits
  <2>2. QED BY <1>2, <2>1, RowsFitLess
<1>4. t \in NumberedTables => NumbersFit(R, d.next[t])
  BY <1>1 DEF LibraryFits, NumbersFit
<1>5. QED BY <1>3, <1>4, RowsReplaced

LEMMA RemovingRows ==
  ASSUME NEW d, IsLibrary(d), NEW id, NEW of
  PROVE  /\ \A t \in Tables \ {"daily"} :
              LET e == DeleteRow(d, t, id, of).db IN IsLibrary(e) /\ Keeps(d, e) /\ SameTime(d, e)
         /\ LET e == DeleteMeta(d, of).db IN IsLibrary(e) /\ Keeps(d, e) /\ SameTime(d, e)
<1>1. ASSUME NEW t \in Tables \ {"daily"}
      PROVE  LET e == DeleteRow(d, t, id, of).db IN IsLibrary(e) /\ Keeps(d, e) /\ SameTime(d, e)
  <2> DEFINE R == {r \in d.rows[t] : ~(r.track = id /\ r.of = of)}
  <2>1. DeleteRow(d, t, id, of).db = [d EXCEPT !.rows[t] = R]
    BY DEF DeleteRow, Done
  <2>2. R \in SUBSET d.rows[t]
    OBVIOUS
  <2> HIDE DEF R
  <2>3. QED BY <2>1, <2>2, DeleteRowsKeeps
<1>2. LET e == DeleteMeta(d, of).db IN IsLibrary(e) /\ Keeps(d, e) /\ SameTime(d, e)
  <2> DEFINE R == {r \in d.rows["meta"] : r.of # of}
  <2>1. DeleteMeta(d, of).db = [d EXCEPT !.rows["meta"] = R]
    BY DEF DeleteMeta, Done
  <2>2. R \in SUBSET d.rows["meta"] /\ "meta" \in Tables \ {"daily"}
    BY DEF Tables, NumberedTables
  <2> HIDE DEF R
  <2>3. QED BY <2>1, <2>2, DeleteRowsKeeps
<1>3. QED BY <1>1, <1>2

\* A list of rows without a value, as they are inserted.
IsRowList(new) ==
  /\ \E k \in Nat : DOMAIN new = 1 .. k /\ new = [i \in 1 .. k |-> new[i]]
  /\ \A i \in DOMAIN new : new[i] = Row(new[i].track, new[i].of, new[i].n) /\ new[i].n = 0

LEMMA InsertRowsKeeps ==
  ASSUME NEW d, IsLibrary(d), NEW new, IsRowList(new)
  PROVE  LET e == InsertRows(d, "sources", new).db IN IsLibrary(e) /\ Keeps(d, e) /\ SameTime(d, e)
<1> DEFINE R == d.rows["sources"] \cup ToSet(new)
           e == [d EXCEPT !.rows["sources"] = R]
           ok == InsertRows(d, "sources", new).ok
<1>1. CASE ~ok
  <2>1. InsertRows(d, "sources", new).db = d
    BY <1>1 DEF InsertRows, When, Done, Fail
  <2>2. QED BY <2>1, Same
<1>2. CASE ok
  <2>1. InsertRows(d, "sources", new).db = e
    BY <1>2 DEF InsertRows, When, Done, Fail
  <2>2. /\ \A i \in DOMAIN new : Resolves(d, "sources", new[i]) /\ ~Clashes(d, "sources", new[i])
        /\ \A i, j \in DOMAIN new : SameKey(new[i], new[j]) => i = j
    BY <1>2 DEF InsertRows, When, Done, Fail
  <2>3. RowsFit(d.rows["sources"], DOMAIN d.track, DOMAIN d.tag, "sources")
    BY LibraryParts DEF LibraryFits, Tables, UniqueTables
  <2>4. IsFiniteSet(R)
    BY <2>3, ListIsFinite, FS_Union DEF IsRowList, RowsFit
  <2>5. \A r \in ToSet(new) : RowFits(r, DOMAIN d.track, DOMAIN d.tag, "sources")
    BY <2>2 DEF ToSet, IsRowList, RowFits, Resolves
  <2>6. \A r, q \in R : SameKey(r, q) => r = q
    <3>1. \A r, q \in ToSet(new) : SameKey(r, q) => r = q
      BY <2>2 DEF ToSet
    <3>2. \A r \in ToSet(new), q \in d.rows["sources"] : ~SameKey(r, q) /\ ~SameKey(q, r)
      BY <2>2 DEF ToSet, Clashes, SameKey
    <3>3. \A r, q \in d.rows["sources"] : SameKey(r, q) => r = q
      BY <2>3 DEF RowsFit
    <3>4. QED BY <3>1, <3>2, <3>3
  <2>7. RowsFit(R, DOMAIN d.track, DOMAIN d.tag, "sources")
    BY <2>3, <2>4, <2>5, <2>6 DEF RowsFit
  <2>8. "sources" \in Tables /\ "sources" \notin NumberedTables
    BY DEF Tables, UniqueTables, NumberedTables
  <2> HIDE DEF R
  <2>9. QED BY <2>1, <2>7, <2>8, RowsReplaced
<1>3. QED BY <1>1, <1>2

LEMMA AssignTagsKeeps ==
  ASSUME NEW d, IsLibrary(d), NEW new, IsRowList(new)
  PROVE  LET e == AssignTags(d, new).db IN IsLibrary(e) /\ Keeps(d, e) /\ SameTime(d, e)
<1> DEFINE R == d.rows["assignments"] \cup ToSet(new)
           e == [d EXCEPT !.rows["assignments"] = R]
           ok == AssignTags(d, new).ok
<1>1. CASE ~ok
  <2>1. AssignTags(d, new).db = d
    BY <1>1 DEF AssignTags, When, Done, Fail
  <2>2. QED BY <2>1, Same
<1>2. CASE ok
  <2>1. AssignTags(d, new).db = e
    BY <1>2 DEF AssignTags, When, Done, Fail
  <2>2. \A i \in DOMAIN new : Resolves(d, "assignments", new[i])
    BY <1>2 DEF AssignTags, When, Done, Fail
  <2>3. RowsFit(d.rows["assignments"], DOMAIN d.track, DOMAIN d.tag, "assignments")
    BY LibraryParts DEF LibraryFits, Tables, UniqueTables
  <2>4. IsFiniteSet(R)
    BY <2>3, ListIsFinite, FS_Union DEF IsRowList, RowsFit
  <2>5. \A r \in R : RowFits(r, DOMAIN d.track, DOMAIN d.tag, "assignments") /\ r.n = 0 /\ r = Row(r.track, r.of, r.n)
    <3>1. \A r \in ToSet(new) : RowFits(r, DOMAIN d.track, DOMAIN d.tag, "assignments") /\ r.n = 0
      BY <2>2 DEF ToSet, IsRowList, RowFits, Resolves
    <3>2. QED BY <2>3, <3>1 DEF RowsFit, RowFits
  <2>6. \A r, q \in R : SameKey(r, q) => r = q
    BY <2>5 DEF SameKey
  <2>7. RowsFit(R, DOMAIN d.track, DOMAIN d.tag, "assignments")
    BY <2>4, <2>5, <2>6 DEF RowsFit
  <2>8. "assignments" \in Tables /\ "assignments" \notin NumberedTables
    BY DEF Tables, UniqueTables, NumberedTables
  <2> HIDE DEF R
  <2>9. QED BY <2>1, <2>7, <2>8, RowsReplaced
<1>3. QED BY <1>1, <1>2

LEMMA UpdateMetaKeeps ==
  ASSUME NEW d, IsLibrary(d), NEW of, NEW n \in Int
  PROVE  LET e == UpdateMeta(d, of, n).db IN IsLibrary(e) /\ Keeps(d, e) /\ SameTime(d, e)
<1> DEFINE M == d.rows["meta"]
           g == [r \in M |-> IF r.of = of THEN [r EXCEPT !.n = n] ELSE r]
           R == {IF r.of = of THEN [r EXCEPT !.n = n] ELSE r : r \in M}
           e == [d EXCEPT !.rows["meta"] = R]
<1>1. UpdateMeta(d, of, n).db = e
  BY DEF UpdateMeta, Done
<1>2. RowsFit(M, DOMAIN d.track, DOMAIN d.tag, "meta") /\ NumbersFit(M, d.next["meta"])
  BY LibraryParts DEF LibraryFits, Tables, NumberedTables
<1>3. \A r \in M : r = [track |-> r.track, of |-> r.of, n |-> r.n] /\ r.n \in Int /\ r.track \in DOMAIN d.track
  BY <1>2 DEF RowsFit, RowFits, Row
<1>4. \A a, b, c : LET r == [track |-> a, of |-> b, n |-> c]
                   IN [r EXCEPT !.n = n] = [track |-> a, of |-> b, n |-> n]
  OBVIOUS
<1>5. \A r \in M : g[r] = IF r.of = of THEN [track |-> r.track, of |-> r.of, n |-> n] ELSE r
  BY <1>3, <1>4
<1>6. R = {g[r] : r \in M} /\ DOMAIN g = M /\ g = [r \in M |-> g[r]]
  OBVIOUS
<1> HIDE DEF g, R
<1>7. \A r \in M : RowFits(g[r], DOMAIN d.track, DOMAIN d.tag, "meta") /\ g[r].track = r.track /\ g[r].of = r.of
  <2> SUFFICES ASSUME NEW r \in M
               PROVE  RowFits(g[r], DOMAIN d.track, DOMAIN d.tag, "meta") /\ g[r].track = r.track /\ g[r].of = r.of
    OBVIOUS
  <2>1. CASE r.of = of
    <3>1. g[r] = [track |-> r.track, of |-> r.of, n |-> n]
      BY <1>5, <2>1
    <3>2. QED BY <1>3, <3>1 DEF RowFits, Row
  <2>2. CASE r.of # of
    <3>1. g[r] = r
      BY <1>5, <2>2
    <3>2. QED BY <1>2, <3>1 DEF RowsFit
  <2>3. QED BY <2>1, <2>2
<1>8. IsFiniteSet(R)
  <2>1. g \in Surjection(M, R)
    BY <1>6 DEF Surjection
  <2>2. QED BY <1>2, <2>1, FS_Surjection DEF RowsFit
<1>9. \A r, q \in R : SameKey(r, q) => r = q
  BY <1>2, <1>6, <1>7 DEF RowsFit, SameKey
<1>10. RowsFit(R, DOMAIN d.track, DOMAIN d.tag, "meta")
  BY <1>6, <1>7, <1>8, <1>9 DEF RowsFit
<1>11. NumbersFit(R, d.next["meta"])
  BY <1>2, <1>6, <1>7 DEF NumbersFit
<1>12. "meta" \in Tables
  BY DEF Tables, NumberedTables
<1>13. QED BY <1>1, <1>10, <1>11, <1>12, RowsReplaced

LEMMA InsertNumberedKeeps ==
  ASSUME NEW d, IsLibrary(d), NEW t \in NumberedTables, NEW id, NEW n \in Int, t # "meta" => n = 0
  PROVE  LET e == InsertNumbered(d, t, id, n).db IN IsLibrary(e) /\ Keeps(d, e) /\ SameTime(d, e)
<1> DEFINE k == d.next[t]
           m == k + 1
           x == Row(id, k, n)
           R == d.rows[t] \cup {x}
           e == [d EXCEPT !.rows[t] = R, !.next[t] = m]
           ok == id \in DOMAIN d.track
<1>1. IsDb(d) /\ LibraryFits(d) /\ t \in Tables
  BY LibraryParts DEF Tables
<1>2. CASE ~ok
  <2>1. InsertNumbered(d, t, id, n).db = d
    BY <1>2 DEF InsertNumbered, When, Done, Fail
  <2>2. QED BY <2>1, Same
<1>3. CASE ok
  <2>1. InsertNumbered(d, t, id, n).db = e
    BY <1>3 DEF InsertNumbered, When, Done, Fail
  <2>2. RowsFit(d.rows[t], DOMAIN d.track, DOMAIN d.tag, t) /\ NumbersFit(d.rows[t], k)
    BY <1>1 DEF LibraryFits
  <2>3. k \in Nat /\ k > 0 /\ m \in Nat /\ m > 0 /\ m = k + 1
    BY <1>1 DEF LibraryFits, NextFits
  <2>4. x = Row(x.track, x.of, x.n) /\ x.n = n /\ x.track = id /\ x.of = k
    BY DEF Row
  <2>5. t # "assignments" /\ t # "daily"
    BY DEF NumberedTables
  <2> HIDE DEF x, k, m
  <2>6. RowsFit(R, DOMAIN d.track, DOMAIN d.tag, t)
    <3>1. IsFiniteSet(R)
      BY <2>2, FS_AddElement DEF RowsFit
    <3>2. RowFits(x, DOMAIN d.track, DOMAIN d.tag, t)
      BY <1>3, <2>4, <2>5 DEF RowFits
    <3>3. \A q \in d.rows[t] : ~SameKey(x, q) /\ ~SameKey(q, x)
      BY <2>2, <2>3, <2>4 DEF NumbersFit, SameKey
    <3>4. QED BY <2>2, <3>1, <3>2, <3>3 DEF RowsFit
  <2>7. NumbersFit(R, m)
    BY <2>2, <2>3, <2>4 DEF NumbersFit
  <2> HIDE DEF R
  <2> DEFINE rows == [d.rows EXCEPT ![t] = R]
             next == [d.next EXCEPT ![t] = m]
  <2>8. IsDb(e) /\ e.track = d.track /\ e.tag = d.tag /\ e.removed = d.removed /\ e.next = next /\ e.rows = rows
    <3>1. DOMAIN d = DbFields
      BY <1>1, DbIsRecord
    <3>2. DOMAIN e = DbFields /\ e = [f \in DbFields |-> e[f]]
      BY <3>1
    <3>3. e.track = d.track /\ e.tag = d.tag /\ e.removed = d.removed /\ e.next = next /\ e.rows = rows
      BY <3>1 DEF DbFields
    <3> HIDE DEF e, next, rows
    <3>4. QED BY <3>2, <3>3, DbIsRecord
  <2>9. DOMAIN rows = Tables /\ \A u \in Tables : rows[u] = IF u = t THEN R ELSE d.rows[u]
    BY <1>1 DEF LibraryFits
  <2>10. NextFits(next) /\ next.track = d.next.track /\ next.tag = d.next.tag
         /\ \A u \in NumberedTables : next[u] = IF u = t THEN m ELSE d.next[u]
    BY <1>1, <2>3 DEF LibraryFits, NextFits, NumberedTables
  <2> HIDE DEF e, rows, next
  <2>11. \A u \in Tables : RowsFit(e.rows[u], DOMAIN e.track, DOMAIN e.tag, u)
    BY <1>1, <2>6, <2>8, <2>9 DEF LibraryFits
  <2>12. \A u \in NumberedTables : NumbersFit(e.rows[u], e.next[u])
    BY <1>1, <2>7, <2>8, <2>9, <2>10 DEF LibraryFits, Tables
  <2>13. LibraryFits(e)
    BY <1>1, <2>8, <2>9, <2>10, <2>11, <2>12 DEF LibraryFits
  <2>14. Keeps(d, e)
    BY <1>1, <2>8, <2>10 DEF LibraryFits, NextFits, Keeps
  <2>15. e.rows["daily"] = d.rows["daily"]
    BY <2>5, <2>8, <2>9 DEF Tables, UniqueTables
  <2>16. SameTime(d, e)
    BY <2>8, <2>15 DEF SameTime, RowsOf
  <2>17. QED BY <2>1, <2>8, <2>13, <2>14, <2>16, LibraryParts
<1>4. QED BY <1>2, <1>3

\* The daily count catches up with the total.
LEMMA AddToDayKeeps ==
  ASSUME NEW d, IsLibrary(d), NEW id, NEW day, NEW n \in Int
  PROVE  LET e == AddToDay(d, id, day, n).db
         IN /\ IsLibrary(e) /\ Keeps(d, e)
            /\ AddToDay(d, id, day, n).ok => (TotalsAhead(d, id, n) => TotalsAgree(e))
<1> DEFINE D == d.rows["daily"]
           old == {r \in D : r.track = id /\ r.of = day}
           v == IF old = {} THEN 0 ELSE (CHOOSE r \in old : TRUE).n
           m == n + v
           x == Row(id, day, m)
           R == (D \ old) \cup {x}
           e == [d EXCEPT !.rows["daily"] = R]
           ok == id \in DOMAIN d.track
<1>1. RowsFit(D, DOMAIN d.track, DOMAIN d.tag, "daily")
  BY LibraryParts DEF LibraryFits, Tables, UniqueTables
<1>2. CASE ~ok
  <2>1. AddToDay(d, id, day, n).db = d /\ ~AddToDay(d, id, day, n).ok
    BY <1>2 DEF AddToDay, When, Done, Fail
  <2>2. QED BY <2>1, Same
<1>3. CASE ok
  <2>1. AddToDay(d, id, day, n).db = e
    BY <1>3 DEF AddToDay, When, Done, Fail
  <2>2. ASSUME old # {} PROVE \E q \in D : q.track = id /\ q.of = day /\ old = {q} /\ v = q.n
    <3>1. (CHOOSE r \in old : TRUE) \in old
      BY <2>2
    <3> DEFINE q == CHOOSE r \in old : TRUE
    <3>2. v = q.n
      BY <2>2
    <3> HIDE DEF q
    <3>3. q \in D /\ q.track = id /\ q.of = day
      BY <3>1 DEF q
    <3>4. old = {q}
      BY <1>1, <3>3 DEF RowsFit, SameKey
    <3>5. QED BY <3>2, <3>3, <3>4
  <2>3. old = {} => v = 0
    OBVIOUS
  <2>4. \A r \in D \ old : ~(r.track = id /\ r.of = day)
    OBVIOUS
  <2>5. old \subseteq {r \in D : r.track = id}
    OBVIOUS
  <2>6. x = Row(x.track, x.of, x.n) /\ x.n = m /\ x.track = id /\ x.of = day
    BY DEF Row
  <2> HIDE DEF old, v, x
  <2>7. v \in Int /\ m \in Int
    BY <1>1, <2>2, <2>3 DEF RowsFit, RowFits
  <2>8. RowsFit(R, DOMAIN d.track, DOMAIN d.tag, "daily")
    <3>1. IsFiniteSet(D \ old)
      BY <1>1, FS_Subset DEF RowsFit
    <3>2. IsFiniteSet(R)
      BY <3>1, FS_AddElement
    <3>3. RowFits(x, DOMAIN d.track, DOMAIN d.tag, "daily")
      BY <1>3, <2>6, <2>7 DEF RowFits
    <3>4. \A q \in D \ old : ~SameKey(x, q) /\ ~SameKey(q, x)
      BY <2>4, <2>6 DEF SameKey
    <3>5. QED BY <1>1, <3>2, <3>3, <3>4 DEF RowsFit
  <2>9. "daily" \in Tables /\ "daily" \notin NumberedTables
    BY DEF Tables, UniqueTables, NumberedTables
  <2>10. IsLibrary(e) /\ Keeps(d, e) /\ e.track = d.track
    <3> HIDE DEF R
    <3>1. QED BY <2>8, <2>9, RowsReplaced
  <2>11. e.rows["daily"] = R
    BY <2>9, LibraryParts DEF IsDb, LibraryFits
  <2> DEFINE S == RowsOf(d, "daily", id)
  <2>12. Summable(S) /\ Summable(S \ old)
    <3>1. IsFiniteSet(S) /\ IsFiniteSet(S \ old)
      BY <1>1, FS_Subset DEF RowsFit, RowsOf
    <3>2. \A r \in S : r.n \in Int
      BY <1>1 DEF RowsFit, RowFits, RowsOf
    <3>3. QED BY <3>1, <3>2 DEF Summable
  <2>13. Total(S) = v + Total(S \ old)
    <3>1. CASE old = {}
      <4>1. S \ old = S /\ Total(S) \in Int
        BY <2>12, <3>1, TotalIsNumber
      <4>2. QED BY <2>3, <3>1, <4>1
    <3>2. CASE old # {}
      <4>1. PICK q \in D : q.track = id /\ q.of = day /\ old = {q} /\ v = q.n
        BY <2>2, <3>2
      <4>2. q \in S
        BY <4>1 DEF RowsOf
      <4>3. Total(S) = q.n + Total(S \ {q})
        BY <2>12, <4>2, TotalWithout
      <4>4. QED BY <4>1, <4>3
    <3>3. QED BY <3>1, <3>2
  <2>14. Total((S \ old) \cup {x}) = m + Total(S \ old)
    <3>1. x \notin S \ old
      BY <2>4, <2>6 DEF RowsOf
    <3>2. QED BY <2>6, <2>7, <2>12, <3>1, TotalWith
  <2>15. RowsOf(e, "daily", id) = (S \ old) \cup {x}
    <3> HIDE DEF e
    <3>1. QED BY <2>6, <2>11 DEF RowsOf
  <2>16. \A o : o # id => RowsOf(e, "daily", o) = RowsOf(d, "daily", o)
    <3> HIDE DEF e
    <3>1. QED BY <2>5, <2>6, <2>11 DEF RowsOf
  <2>17. \A f, o : DailyTotal(f, o) = Total(RowsOf(f, "daily", o))
    BY DEF DailyTotal, Total
  <2>18. ASSUME TotalsAhead(d, id, n) PROVE TotalsAgree(e)
    <3> HIDE DEF e, m, S
    <3>1. DailyTotal(e, id) = n + DailyTotal(d, id)
      <4>1. Total(S \ old) \in Int /\ m = n + v
        BY <2>12, TotalIsNumber DEF m
      <4>2. DailyTotal(e, id) = m + Total(S \ old) /\ DailyTotal(d, id) = Total(S)
        BY <2>14, <2>15, <2>17 DEF S
      <4>3. QED BY <2>7, <2>13, <4>1, <4>2
    <3>2. \A o : o # id => DailyTotal(e, o) = DailyTotal(d, o)
      BY <2>16, <2>17
    <3>3. \A o \in DOMAIN d.track : DailyTotal(d, o) \in Int
      <4>1. \A o : Summable(RowsOf(d, "daily", o))
        <5>1. \A o : RowsOf(d, "daily", o) \in SUBSET D
          BY DEF RowsOf
        <5>2. \A o : IsFiniteSet(RowsOf(d, "daily", o))
          BY <1>1, <5>1, FS_Subset DEF RowsFit
        <5>3. QED BY <1>1, <5>1, <5>2 DEF RowsFit, RowFits, Summable
      <4>2. QED BY <2>17, <4>1, TotalIsNumber
    <3>4. QED BY <2>10, <2>18, <3>1, <3>2, <3>3 DEF TotalsAhead, TotalsAgree
  <2>19. QED BY <2>1, <2>10, <2>18
<1>4. QED BY <1>2, <1>3

LEMMA ArchiveKeeps ==
  ASSUME NEW d, IsLibrary(d), NEW read
  PROVE  LET e == Archive(d, read).db
         IN /\ IsLibrary(e) /\ SameTime(d, e) /\ e.track = d.track /\ e.next = d.next
            /\ e.removed = Append(d.removed, read)
<1> DEFINE removed == Append(d.removed, read)
           e == [d EXCEPT !.removed = removed]
<1>1. IsDb(d) /\ LibraryFits(d)
  BY LibraryParts
<1>2. Archive(d, read).db = e
  BY DEF Archive, Done
<1>3. removed \in Seq(ToSet(removed))
  <2> DEFINE T == ToSet(d.removed) \cup {read}
  <2>1. d.removed \in Seq(ToSet(d.removed))
    BY <1>1 DEF LibraryFits
  <2>2. d.removed \in Seq(T)
    BY <2>1
  <2>3. removed \in Seq(T) /\ removed = [i \in 1 .. Len(removed) |-> removed[i]] /\ Len(removed) \in Nat
    BY <2>2
  <2> HIDE DEF removed
  <2>4. \A i \in 1 .. Len(removed) : removed[i] \in ToSet(removed)
    BY <2>3 DEF ToSet
  <2>5. QED BY <2>3, <2>4
<1> HIDE DEF removed
<1>4. IsDb(e) /\ e.track = d.track /\ e.tag = d.tag /\ e.removed = removed /\ e.next = d.next /\ e.rows = d.rows
  BY <1>1 DEF IsDb
<1> HIDE DEF e
<1>5. LibraryFits(e)
  BY <1>1, <1>3, <1>4 DEF LibraryFits
<1>6. SameTime(d, e)
  BY <1>4 DEF SameTime, RowsOf
<1>7. QED BY <1>2, <1>4, <1>5, <1>6, LibraryParts DEF removed

-----------------------------------------------------------------------------
(* Every statement that writes.                                            *)

\* The statements that are commands of their own.
Single ==
  [do : {"AddListen"}, track : Int] \cup [do : {"UpdateTrack"}, track : Int, name : STRING]
  \cup [do : {"AddMeta"}, track : Int, n : Int] \cup [do : {"UpdateMeta"}, id : Int, n : Int]
  \cup [do : {"DeleteMeta"}, id : Int] \cup [do : {"AddTag"}, name : STRING]
  \cup [do : {"EditTag"}, tag : Int, name : STRING] \cup [do : {"DeleteTag"}, tag : Int]
  \cup [do : {"RemoveTag"}, track : Int, tag : Int] \cup Assignment \cup SourceEdit

LEMMA SinglesAre ==
  ASSUME NEW cmd, IsCommand(cmd), ~InTransaction(cmd), ~ReadsOnly(cmd),
         cmd.do \notin {"GetTracksWithSources", "ResetDatabase"}
  PROVE  cmd \in Single
BY DEF IsCommand, OfOneTrack, InTransaction, LogsInside, ReadsOnly, Reads, Single, Assignment, SourceEdit

LEMMA PairsAreRows ==
  ASSUME NEW T, NEW pairs \in Seq(T), NEW new,
         new = [i \in DOMAIN pairs |-> new[i]], \A i \in DOMAIN pairs : \E a, b : new[i] = Row(a, b, 0)
  PROVE  IsRowList(new)
<1>1. Len(pairs) \in Nat /\ DOMAIN pairs = 1 .. Len(pairs)
  OBVIOUS
<1>2. \A a, b : LET r == Row(a, b, 0) IN r = Row(r.track, r.of, r.n) /\ r.n = 0
  BY DEF Row
<1>3. DOMAIN new = DOMAIN pairs
  OBVIOUS
<1>4. \A i \in DOMAIN new : new[i] = Row(new[i].track, new[i].of, new[i].n) /\ new[i].n = 0
  BY <1>2, <1>3
<1>5. QED BY <1>1, <1>3, <1>4 DEF IsRowList

\* Every statement that writes, but the last two of delete_track, takes a library
\* to a library: it keeps the constraints of the tables, draws ids upwards, and
\* changes no count of listened time unless it is one of add_listened_seconds
\* (the statements of SqliteRepository, sqlite.rs).
THEOREM WritesKeep ==
  ASSUME NEW d, IsLibrary(d), NEW st \in Write \cup Single, NEW ids, NEW read
  PROVE  LET e == Change(st, d, ids, read).db
         IN IsLibrary(e) /\ Keeps(d, e) /\ (st \notin Credit => SameTime(d, e))
<1> DEFINE Good(e) == IsLibrary(e) /\ Keeps(d, e) /\ SameTime(d, e)
           e == Change(st, d, ids, read).db
<1>1. CASE st \in InsertOfTracks
  <2>1. st.names \in Seq(STRING) /\ e = InsertTracks(d, st.names).db
    BY <1>1 DEF InsertOfTracks, Change
  <2>2. QED BY <2>1, InsertTracksKeeps
<1>2. CASE st \in InsertOfSources
  <2> DEFINE new == [i \in DOMAIN st.pairs |-> Row(ids[st.pairs[i][1]], st.pairs[i][2], 0)]
  <2>1. st.pairs \in Seq(Nat \X STRING) /\ e = InsertRows(d, "sources", new).db
    BY <1>2 DEF InsertOfSources, Change
  <2>2. new = [i \in DOMAIN st.pairs |-> new[i]] /\ \A i \in DOMAIN st.pairs : \E a, b : new[i] = Row(a, b, 0)
    OBVIOUS
  <2> HIDE DEF new
  <2>3. IsRowList(new)
    BY <2>1, <2>2, PairsAreRows
  <2>4. QED BY <2>1, <2>3, InsertRowsKeeps
<1>3. CASE st \in Assignment
  <2> DEFINE new == [i \in DOMAIN st.pairs |-> Row(st.pairs[i][1], st.pairs[i][2], 0)]
  <2>1. st.pairs \in Seq(Int \X Int) /\ e = AssignTags(d, new).db
    BY <1>3 DEF Assignment, Change
  <2>2. new = [i \in DOMAIN st.pairs |-> new[i]] /\ \A i \in DOMAIN st.pairs : \E a, b : new[i] = Row(a, b, 0)
    OBVIOUS
  <2> HIDE DEF new
  <2>3. IsRowList(new)
    BY <2>1, <2>2, PairsAreRows
  <2>4. QED BY <2>1, <2>3, AssignTagsKeeps
<1>4. CASE st \in SourceEdit
  <2>1. \/ e = InsertRows(d, "sources", <<Row(st.track, st.url, 0)>>).db
        \/ e = DeleteRow(d, "sources", st.track, st.url).db
    BY <1>4 DEF SourceEdit, Change, AddTrackSource, RemoveTrackSource
  <2>2. IsRowList(<<Row(st.track, st.url, 0)>>)
    <3> DEFINE new == <<Row(st.track, st.url, 0)>>
               pairs == <<0>>
    <3>1. pairs \in Seq(Nat) /\ DOMAIN pairs = {1} /\ new = [i \in DOMAIN pairs |-> new[i]] /\ new[1] = Row(st.track, st.url, 0)
      OBVIOUS
    <3> HIDE DEF new, pairs
    <3>2. IsRowList(new)
      BY <3>1, PairsAreRows
    <3>3. QED BY <3>2 DEF new
  <2>3. "sources" \in Tables \ {"daily"}
    BY DEF Tables, UniqueTables
  <2>4. QED BY <2>1, <2>2, <2>3, InsertRowsKeeps, RemovingRows
<1>5. CASE st \in Credit
  <2>1. st.n \in Int /\ (e = AddToTotal(d, st.track, st.n).db \/ e = AddToDay(d, st.track, Today, st.n).db)
    BY <1>5 DEF Credit, Change
  <2>2. QED BY <1>5, <2>1, AddToTotalKeeps, AddToDayKeeps
<1>6. CASE st.do = "AddListen"
  <2>1. e = InsertNumbered(d, "listens", st.track, 0).db /\ "listens" \in NumberedTables
    BY <1>6 DEF Change, AddListen, NumberedTables
  <2>2. QED BY <2>1, InsertNumberedKeeps
<1>7. CASE st \in [do : {"UpdateTrack"}, track : Int, name : STRING]
  <2>1. st.name \in STRING /\ e = UpdateTrack(d, st.track, st.name).db
    BY <1>7 DEF Change
  <2>2. QED BY <2>1, UpdateTrackKeeps
<1>8. CASE st \in [do : {"AddMeta"}, track : Int, n : Int]
  <2>1. st.n \in Int /\ e = InsertNumbered(d, "meta", st.track, st.n).db /\ "meta" \in NumberedTables
    BY <1>8 DEF Change, NumberedTables
  <2>2. QED BY <2>1, InsertNumberedKeeps
<1>9. CASE st \in [do : {"UpdateMeta"}, id : Int, n : Int]
  <2>1. st.n \in Int /\ e = UpdateMeta(d, st.id, st.n).db
    BY <1>9 DEF Change
  <2>2. QED BY <2>1, UpdateMetaKeeps
<1>10. CASE st \in [do : {"DeleteMeta"}, id : Int]
  <2>1. e = DeleteMeta(d, st.id).db
    BY <1>10 DEF Change
  <2>2. QED BY <2>1, RemovingRows
<1>11. CASE st \in [do : {"AddTag"}, name : STRING]
  <2>1. st.name \in STRING /\ e = AddTag(d, st.name).db
    BY <1>11 DEF Change
  <2>2. QED BY <2>1, AddTagKeeps
<1>12. CASE st \in [do : {"EditTag"}, tag : Int, name : STRING]
  <2>1. st.name \in STRING /\ e = EditTag(d, st.tag, st.name).db
    BY <1>12 DEF Change
  <2>2. QED BY <2>1, EditTagKeeps
<1>13. CASE st \in [do : {"DeleteTag"}, tag : Int]
  <2>1. e = DeleteTag(d, st.tag).db
    BY <1>13 DEF Change
  <2>2. QED BY <2>1, DeleteTagKeeps
<1>14. CASE st \in [do : {"RemoveTag"}, track : Int, tag : Int]
  <2>1. e = DeleteRow(d, "assignments", st.track, st.tag).db /\ "assignments" \in Tables \ {"daily"}
    BY <1>14 DEF Change, Tables, UniqueTables
  <2>2. QED BY <2>1, RemovingRows
<1>15. QED BY <1>1, <1>2, <1>3, <1>4, <1>5, <1>6, <1>7, <1>8, <1>9, <1>10, <1>11, <1>12, <1>13, <1>14
       DEF Write, Edit, Single

\* A credit raises the total and then the count of the day by the same number.
LEMMA CreditsCount ==
  ASSUME NEW d, IsLibrary(d), NEW st \in Credit, NEW ids, NEW read
  PROVE  LET out == Change(st, d, ids, read)
         IN /\ st.do = "AddToTotal" => (TotalsAgree(d) => TotalsAhead(out.db, st.track, st.n))
            /\ st.do = "AddToDay" /\ out.ok => (TotalsAhead(d, st.track, st.n) => TotalsAgree(out.db))
<1>1. st.n \in Int
  BY DEF Credit
<1>2. st.do = "AddToTotal" => Change(st, d, ids, read) = AddToTotal(d, st.track, st.n)
  BY DEF Change
<1>3. st.do = "AddToDay" => Change(st, d, ids, read) = AddToDay(d, st.track, Today, st.n)
  BY DEF Change
<1>4. QED BY <1>1, <1>2, <1>3, AddToTotalKeeps, AddToDayKeeps

-----------------------------------------------------------------------------
(* Pages.                                                                  *)

Place(S, id) == Cardinality({o \in S : o < id})
Window(S, cursor, n) ==
  {id \in S : Place(S, id) + n >= Place(S, cursor) /\ Place(S, id) < Place(S, cursor) + n}

\* The n members of S below a cursor and the n from it on are those whose
\* places in S are less than n away from the cursor's.
LEMMA PageOfSet ==
  ASSUME NEW S \in SUBSET Int, IsFiniteSet(S), NEW cursor \in Int, NEW n \in Nat \ {0}
  PROVE  Below(S, cursor, n) \cup From(S, cursor, n) = Window(S, cursor, n)
<1> DEFINE Up(id) == {o \in S : o < id}
           Rank(id) == Cardinality(Up(id))
           B == {i \in S : i < cursor}
           A == {i \in S : i >= cursor}
           Over1(i) == {j \in B : j > i}
           Under(i) == {j \in A : j < i}
<1>1. \A T \in SUBSET S : IsFiniteSet(T) /\ Cardinality(T) \in Nat
  BY FS_Subset, FS_CardinalityType
<1>2. \A i \in Int : Rank(i) \in Nat
  BY <1>1
<1>3. ASSUME NEW i \in B PROVE Rank(cursor) = Rank(i) + 1 + Cardinality(Over1(i))
  <2>1. Up(i) \cap {i} = {} /\ Up(i) \in SUBSET S /\ {i} \in SUBSET S /\ Over1(i) \in SUBSET S
    BY <1>3
  <2>2. /\ B = (Up(i) \cup {i}) \cup Over1(i)
        /\ (Up(i) \cup {i}) \cap Over1(i) = {}
        /\ Up(i) \cup {i} \in SUBSET S
    <3>1. i \in S /\ i < cursor /\ i \in Int
      BY <1>3
    <3>2. \A o \in S : o < cursor <=> o < i \/ o = i \/ (o < cursor /\ o > i)
      BY <3>1
    <3>3. B = (Up(i) \cup {i}) \cup Over1(i)
      BY <3>1, <3>2, Zenon
    <3>4. ASSUME NEW o \in (Up(i) \cup {i}) \cap Over1(i) PROVE FALSE
      BY <3>1, <3>4
    <3>5. QED BY <3>1, <3>3, <3>4, Zenon
  <2>3. Up(cursor) = B
    OBVIOUS
  <2> HIDE DEF Up, Over1, B
  <2>4. Cardinality(Up(i) \cup {i}) = Cardinality(Up(i)) + 1
    BY <1>1, <2>1, FS_AddElement
  <2>5. Cardinality(B) = Cardinality(Up(i) \cup {i}) + Cardinality(Over1(i))
    <3>1. Cardinality(B) = Cardinality(Up(i) \cup {i}) + Cardinality(Over1(i)) - Cardinality((Up(i) \cup {i}) \cap Over1(i))
      BY <1>1, <2>1, <2>2, FS_Union, Zenon
    <3>2. Cardinality((Up(i) \cup {i}) \cap Over1(i)) = 0
      BY <2>2, FS_EmptySet
    <3>3. QED BY <1>1, <2>1, <2>2, <3>1, <3>2
  <2>6. QED BY <2>3, <2>4, <2>5
<1>4. ASSUME NEW i \in A PROVE Rank(i) = Rank(cursor) + Cardinality(Under(i))
  <2>1. /\ Up(i) = Up(cursor) \cup Under(i) /\ Up(cursor) \cap Under(i) = {}
        /\ Up(cursor) \in SUBSET S /\ Under(i) \in SUBSET S
    <3>1. i \in S /\ i >= cursor /\ i \in Int
      BY <1>4
    <3>2. \A o \in S : o < i <=> o < cursor \/ (o >= cursor /\ o < i)
      BY <3>1
    <3>3. Up(i) = Up(cursor) \cup Under(i)
      BY <3>2, Zenon
    <3>4. ASSUME NEW o \in Up(cursor) \cap Under(i) PROVE FALSE
      BY <3>4
    <3>5. QED BY <3>3, <3>4, Zenon
  <2> HIDE DEF Up, Under, A
  <2>2. Cardinality(Up(i)) = Cardinality(Up(cursor)) + Cardinality(Under(i)) - Cardinality(Up(cursor) \cap Under(i))
    BY <1>1, <2>1, FS_Union, Zenon
  <2>3. Cardinality(Up(cursor) \cap Under(i)) = 0
    BY <2>1, FS_EmptySet
  <2>4. QED BY <1>1, <2>1, <2>2, <2>3
<1>5. \A i \in B : Cardinality(Over1(i)) \in Nat
  BY <1>1
<1>6. \A i \in A : Cardinality(Under(i)) \in Nat
  BY <1>1
<1>7. Below(S, cursor, n) = {i \in B : Cardinality(Over1(i)) < n} /\ From(S, cursor, n) = {i \in A : Cardinality(Under(i)) < n}
  <2>1. \A k : Within(k, n) <=> k < n
    BY DEF Within
  <2>2. QED BY <2>1, Zenon DEF Below, From
<1>8. S = A \cup B /\ B \subseteq Int /\ A \subseteq Int
  <2>1. \A i \in S : i < cursor \/ i >= cursor
    OBVIOUS
  <2>2. S = A \cup B
    BY <2>1, Zenon
  <2>3. QED BY <2>2
<1> HIDE DEF Rank, Over1, Under, Up, A, B
<1>9. \A i \in B : Cardinality(Over1(i)) < n <=> Rank(i) + n >= Rank(cursor) /\ Rank(i) < Rank(cursor) + n
  BY <1>2, <1>3, <1>5, <1>8
<1>10. \A i \in A : Cardinality(Under(i)) < n <=> Rank(i) + n >= Rank(cursor) /\ Rank(i) < Rank(cursor) + n
  BY <1>2, <1>4, <1>6, <1>8
<1>11. Below(S, cursor, n) \cup From(S, cursor, n) = {id \in S : Rank(id) + n >= Rank(cursor) /\ Rank(id) < Rank(cursor) + n}
  BY <1>7, <1>8, <1>9, <1>10, Zenon
<1>12. QED BY <1>11 DEF Rank, Up, Window, Place

\* So are the tracks of a page among those that match its filter: oPrior and
\* oAfter together cut a window around the cursor (get_tracks_filtered).
THEOREM PageOfLibrary ==
  ASSUME NEW d, IsLibrary(d), NEW f, NEW cursor \in Int, NEW n \in Nat \ {0}
  PROVE  Page(d, f, cursor, n) = Window(Matching(d, f), cursor, n)
<1> DEFINE S == Matching(d, f)
<1>1. DOMAIN d.track \subseteq 1 .. d.next.track - 1 /\ d.next.track \in Nat
  BY LibraryParts DEF LibraryFits, NextFits, TracksFit
<1>2. S \subseteq 1 .. d.next.track - 1
  BY <1>1 DEF Matching
<1>3. IsFiniteSet(1 .. d.next.track - 1)
  BY <1>1, FS_Interval
<1>4. IsFiniteSet(S)
  BY <1>2, <1>3, FS_Subset
<1>5. Page(d, f, cursor, n) = Below(S, cursor, n) \cup From(S, cursor, n)
  BY DEF Page
<1>6. S \in SUBSET Int
  <2> HIDE DEF S
  <2>1. QED BY <1>2
<1> HIDE DEF S
<1>7. QED BY <1>4, <1>5, <1>6, PageOfSet DEF S

-----------------------------------------------------------------------------
(* Commands alone, statement by statement.                                 *)

RunStart(d, before) == [ok |-> TRUE, db |-> d, ids |-> << >>, read |-> before]
RunBody(list, d, before, f, k) == IF k = 0 THEN RunStart(d, before) ELSE RunNext(f[k - 1], list[k])

\* The states after each statement of a list follow from one another.
LEMMA RunSteps ==
  ASSUME NEW list, Len(list) \in Nat, NEW d, NEW before
  PROVE  /\ Run(list, d, before)[0] = RunStart(d, before)
         /\ \A k \in 1 .. Len(list) : Run(list, d, before)[k] = RunNext(Run(list, d, before)[k - 1], list[k])
<1> DEFINE Runs(f, n) == f = [k \in 0 .. n |-> RunBody(list, d, before, f, k)]
           K == {n \in Nat : \E f : Runs(f, n)}
<1>1. 0 \in K
  <2> DEFINE f == [k \in {0} |-> RunStart(d, before)]
  <2>1. 0 .. 0 = {0}
    OBVIOUS
  <2>2. f = [k \in {0} |-> RunBody(list, d, before, f, k)]
    BY DEF RunBody
  <2>3. QED BY <2>1, <2>2
<1>2. ASSUME NEW n \in Nat, n \in K PROVE n + 1 \in K
  <2>1. PICK f : Runs(f, n)
    BY <1>2
  <2> DEFINE next == RunNext(f[n], list[n + 1])
             g == [k \in 0 .. n + 1 |-> IF k <= n THEN f[k] ELSE next]
  <2>2. \A k \in 0 .. n : g[k] = f[k] /\ f[k] = RunBody(list, d, before, f, k)
    BY <2>1
  <2>3. g[n + 1] = next
    OBVIOUS
  <2>4. g = [k \in 0 .. n + 1 |-> g[k]]
    OBVIOUS
  <2> HIDE DEF g
  <2>5. \A k \in 0 .. n : RunBody(list, d, before, f, k) = RunBody(list, d, before, g, k)
    BY <2>2 DEF RunBody
  <2>6. RunBody(list, d, before, g, n + 1) = next
    <3>1. n + 1 # 0 /\ (n + 1) - 1 = n /\ n \in 0 .. n
      OBVIOUS
    <3>2. g[n] = f[n]
      BY <2>2, <3>1
    <3>3. QED BY <3>1, <3>2 DEF RunBody
  <2>7. \A k \in 0 .. n + 1 : g[k] = RunBody(list, d, before, g, k)
    BY <2>2, <2>3, <2>5, <2>6
  <2>8. Runs(g, n + 1)
    BY <2>4, <2>7, Zenon
  <2> HIDE DEF Runs
  <2>9. QED BY <2>8
<1>3. Nat \subseteq K
  <2> HIDE DEF K
  <2>1. QED BY <1>1, <1>2, Induction
<1>4. \E f : Runs(f, Len(list))
  BY <1>3
<1> DEFINE r == Run(list, d, before)
<1>5. r = CHOOSE f : Runs(f, Len(list))
  BY DEF Run, RunBody, RunStart
<1> HIDE DEF r
<1>6. Runs(r, Len(list))
  <2> HIDE DEF Runs
  <2>1. QED BY <1>4, <1>5
<1>7. \A k \in 0 .. Len(list) : r[k] = RunBody(list, d, before, r, k)
  BY <1>6
<1>8. QED BY <1>7 DEF r, RunBody

-----------------------------------------------------------------------------
(* What add_track and add_tracks make of a library.                        *)

\* The pieces b are the sequence s, cut at the places off.
Cut(off, b, s) ==
  /\ off[0] = 0 /\ off[Len(b)] = Len(s)
  /\ \A k \in 1 .. Len(b) :
       /\ off[k] \in Nat /\ off[k] <= Len(s) /\ off[k - 1] \in Nat /\ off[k - 1] <= off[k]
       /\ b[k] = [i \in 1 .. off[k] - off[k - 1] |-> s[off[k - 1] + i]]
IsCut(b, s) == \E off : Cut(off, b, s)

LEMMA SimpleCuts ==
  ASSUME NEW T, NEW s \in Seq(T)
  PROVE  IsCut(<<s>>, s) /\ IsCut(EachAlone(s), s)
<1>1. Len(s) \in Nat /\ s = [i \in 1 .. Len(s) |-> s[i]]
  OBVIOUS
<1>2. IsCut(<<s>>, s)
  <2> DEFINE off == [k \in {0, 1} |-> IF k = 0 THEN 0 ELSE Len(s)]
             b == <<s>>
  <2>1. off[0] = 0 /\ off[1] = Len(s)
    OBVIOUS
  <2>2. Len(b) = 1 /\ b[1] = s
    OBVIOUS
  <2> HIDE DEF off, b
  <2>3. s = [i \in 1 .. Len(s) - 0 |-> s[0 + i]]
    BY <1>1
  <2>4. Cut(off, b, s)
    BY <1>1, <2>1, <2>2, <2>3 DEF Cut
  <2>5. QED BY <2>4 DEF IsCut, b
<1>3. IsCut(EachAlone(s), s)
  <2> DEFINE off == [k \in Nat |-> k]
             b == EachAlone(s)
  <2>1. Len(b) = Len(s) /\ \A k \in 1 .. Len(s) : b[k] = <<s[k]>>
    BY <1>1 DEF EachAlone
  <2> HIDE DEF b
  <2>2. ASSUME NEW k \in 1 .. Len(b)
        PROVE  /\ off[k] \in Nat /\ off[k] <= Len(s) /\ off[k - 1] \in Nat /\ off[k - 1] <= off[k]
               /\ b[k] = [i \in 1 .. off[k] - off[k - 1] |-> s[off[k - 1] + i]]
    <3>1. off[k] = k /\ off[k - 1] = k - 1 /\ k - (k - 1) = 1
      BY <1>1, <2>1
    <3>2. <<s[k]>> = [i \in 1 .. 1 |-> s[k - 1 + i]]
      BY <1>1, <2>1
    <3>3. k \in Nat /\ k - 1 \in Nat /\ k <= Len(s) /\ b[k] = <<s[k]>>
      BY <1>1, <2>1
    <3> HIDE DEF off
    <3>4. b[k] = [i \in 1 .. off[k] - off[k - 1] |-> s[off[k - 1] + i]]
      BY <3>1, <3>2, <3>3
    <3>5. QED BY <3>1, <3>3, <3>4
  <2>3. off[0] = 0 /\ off[Len(b)] = Len(s)
    BY <1>1, <2>1
  <2> HIDE DEF off
  <2>4. Cut(off, b, s)
    BY <2>2, <2>3 DEF Cut
  <2>5. QED BY <2>4 DEF IsCut, b
<1>4. QED BY <1>2, <1>3

LEMMA ChunksAreCut ==
  ASSUME NEW T, NEW s \in Seq(T)
  PROVE  IsCut(Chunks(s), s)
<1> DEFINE n == (Len(s) + BatchSize - 1) \div BatchSize
           off == [k \in Nat |-> IF k * BatchSize < Len(s) THEN k * BatchSize ELSE Len(s)]
           b == Chunks(s)
           from(k) == (k - 1) * BatchSize
           size(k) == IF Len(s) - from(k) < BatchSize THEN Len(s) - from(k) ELSE BatchSize
<1>1. BatchSize \in Nat /\ BatchSize > 0 /\ Len(s) \in Nat
  BY BatchAssumption
<1>2. n \in Nat
  <2>1. Len(s) + BatchSize - 1 \in Nat
    BY <1>1
  <2>2. QED BY <1>1, <2>1, Quotient
<1>3. n * BatchSize >= Len(s)
  BY <1>1, LastPieceEnds
<1>4. \A k \in 1 .. n : from(k) \in Nat /\ from(k) <= Len(s)
  BY <1>1, PieceBegins
<1>5. b = [k \in 1 .. n |-> [i \in 1 .. size(k) |-> s[from(k) + i]]]
  BY DEF Chunks
<1>6. Len(b) = n
  <2> HIDE DEF n, b, size
  <2>1. QED BY <1>2, <1>5
<1>7. ASSUME NEW k \in 1 .. n
      PROVE  /\ off[k] \in Nat /\ off[k] <= Len(s) /\ off[k - 1] \in Nat /\ off[k - 1] <= off[k]
             /\ b[k] = [i \in 1 .. off[k] - off[k - 1] |-> s[off[k - 1] + i]]
  <2>1. k \in Nat /\ k - 1 \in Nat
    BY <1>2
  <2>2. k * BatchSize \in Nat /\ from(k) \in Nat /\ from(k) <= Len(s)
    BY <1>1, <1>4, <2>1, Product
  <2>3. k * BatchSize = from(k) + BatchSize
    <3>1. from(k) = k * BatchSize - 1 * BatchSize
      BY <1>1, <2>1, Distribute
    <3>2. 1 * BatchSize = BatchSize
      BY <1>1
    <3>3. QED BY <1>1, <2>2, <3>1, <3>2
  <2>4. off[k] = IF k * BatchSize < Len(s) THEN k * BatchSize ELSE Len(s)
    BY <2>1
  <2>5. off[k - 1] = IF from(k) < Len(s) THEN from(k) ELSE Len(s)
    BY <2>1
  <2>6. b[k] = [i \in 1 .. size(k) |-> s[from(k) + i]]
    <3> HIDE DEF b, n, size, from
    <3>1. QED BY <1>5
  <2> HIDE DEF off, b, from
  <2>7. /\ off[k - 1] = from(k) /\ off[k] - off[k - 1] = size(k)
        /\ off[k] \in Nat /\ off[k] <= Len(s) /\ off[k - 1] <= off[k]
    <3> DEFINE x == k * BatchSize
    <3> HIDE DEF x
    <3>1. x = from(k) + BatchSize /\ off[k] = IF x < Len(s) THEN x ELSE Len(s)
      BY <2>3, <2>4 DEF x
    <3>2. QED BY <1>1, <2>2, <2>5, <3>1
  <2> HIDE DEF size
  <2>8. QED BY <2>2, <2>6, <2>7
<1>8. off[0] = 0 /\ off[n] = Len(s)
  <2>1. 0 * BatchSize = 0 /\ n * BatchSize \in Nat
    BY <1>1, <1>2, Product
  <2> HIDE DEF n
  <2>2. off[0] = (IF 0 < Len(s) THEN 0 ELSE Len(s)) /\ off[n] = IF n * BatchSize < Len(s) THEN n * BatchSize ELSE Len(s)
    BY <1>2, <2>1
  <2> HIDE DEF off
  <2>3. QED BY <1>1, <1>3, <2>1, <2>2
<1> HIDE DEF off, n, b
<1>9. Cut(off, b, s)
  BY <1>6, <1>7, <1>8 DEF Cut
<1>10. QED BY <1>9 DEF IsCut, b

\* The first j of the names are in, and their ids are known.
Named(d, names, j, x) ==
  /\ IsLibrary(x.db) /\ x.db.next.track = d.next.track + j /\ x.db.rows = d.rows
  /\ x.ids = [i \in 1 .. j |-> d.next.track + i - 1]
  /\ \A i \in 1 .. j :
       LET id == d.next.track + i - 1
       IN id \in DOMAIN x.db.track /\ x.db.track[id].name = names[i]

\* A list that goes on has not failed before.
LEMMA GoesOn ==
  ASSUME NEW x, NEW st, RunNext(x, st).ok
  PROVE  LET out == Execute(st, x.db, x.ids, x.read)
             y == RunNext(x, st)
         IN /\ x.ok /\ out.ok /\ y.db = out.db /\ y.ids = IdsAfter(st, out.db, x.ids)
            /\ y.read = ReadAfter(st, x.db, x.read)
<1> DEFINE out == Execute(st, x.db, x.ids, x.read)
           y == [ok |-> out.ok, db |-> out.db, ids |-> IdsAfter(st, out.db, x.ids), read |-> ReadAfter(st, x.db, x.read)]
<1>1. x.ok
  BY DEF RunNext
<1>2. RunNext(x, st) = y
  BY <1>1 DEF RunNext
<1>3. y.ok = out.ok /\ y.db = out.db /\ y.ids = IdsAfter(st, out.db, x.ids) /\ y.read = ReadAfter(st, x.db, x.read)
  OBVIOUS
<1> HIDE DEF y, out
<1>4. QED BY <1>1, <1>2, <1>3 DEF out

LEMMA NamesInserted ==
  ASSUME NEW d, IsLibrary(d), NEW names \in Seq(STRING), NEW j \in Nat, NEW m \in Nat, j + m <= Len(names),
         NEW part, part = [i \in 1 .. m |-> names[j + i]], NEW x, Named(d, names, j, x),
         NEW st, st = [do |-> "InsertTracks", names |-> part], RunNext(x, st).ok
  PROVE  Named(d, names, j + m, RunNext(x, st))
<1> DEFINE first == d.next.track
           new == first + j .. first + j + m - 1
           e == x.db
           track == [id \in DOMAIN e.track \cup new |->
                       IF id \in new THEN [name |-> part[id - (first + j) + 1], listened |-> 0] ELSE e.track[id]]
           y == RunNext(x, st)
           n == first + j + m
<1>1. first \in Nat /\ first > 0 /\ IsDb(e) /\ NextFits(e.next) /\ DOMAIN e.track \subseteq 1 .. first + j - 1
  <2>1. IsDb(e) /\ LibraryFits(e) /\ LibraryFits(d) /\ e.next.track = first + j
    BY LibraryParts DEF Named
  <2>2. first \in Nat /\ first > 0
    BY <2>1 DEF LibraryFits, NextFits
  <2>3. NextFits(e.next) /\ DOMAIN e.track \subseteq 1 .. e.next.track - 1
    BY <2>1 DEF LibraryFits, TracksFit
  <2>4. QED BY <2>1, <2>2, <2>3
<1>2. part \in Seq(STRING) /\ Len(part) = m /\ DOMAIN part = 1 .. m
  <2>1. \A i \in 1 .. m : names[j + i] \in STRING
    OBVIOUS
  <2>2. QED BY <2>1
<1>3. st.do = "InsertTracks" /\ st.names = part
  OBVIOUS
<1>4. Execute(st, e, x.ids, x.read) = InsertTracks(e, part)
  BY <1>3 DEF Execute, ReadsOnly, Reads, Change
<1>5. /\ InsertTracks(e, part).ok /\ y.db = InsertTracks(e, part).db
      /\ y.ids = x.ids \o BatchIds(y.db, part)
  <2>1. LET out == Execute(st, x.db, x.ids, x.read)
        IN out.ok /\ y.db = out.db /\ y.ids = IdsAfter(st, out.db, x.ids)
    BY GoesOn
  <2> HIDE DEF y
  <2>2. QED BY <1>3, <1>4, <2>1 DEF IdsAfter
<1>6. y.db = [e EXCEPT !.track = track, !.next.track = n]
  <2>1. e.next.track = first + j
    BY DEF Named
  <2>2. InsertTracks(e, part).db = [e EXCEPT !.track = track, !.next.track = n]
    BY <1>2, <1>5, <2>1 DEF InsertTracks, When, Done, Fail
  <2> HIDE DEF y
  <2>3. QED BY <1>5, <2>2
<1>7. y.db.track = track /\ y.db.rows = e.rows /\ y.db.next = [e.next EXCEPT !.track = n]
  <2> HIDE DEF track, n, y, e
  <2>1. DOMAIN e = DbFields
    BY <1>1, DbIsRecord
  <2> DEFINE f == y.db
  <2>2. f = [e EXCEPT !.track = track, !.next.track = n]
    BY <1>6
  <2> HIDE DEF f
  <2>3. f.track = track /\ f.rows = e.rows /\ f.next = [e.next EXCEPT !.track = n]
    BY <2>1, <2>2 DEF DbFields
  <2>4. QED BY <2>3 DEF f
<1> HIDE DEF y
<1>8. y.db.next.track = first + (j + m)
  BY <1>1, <1>7 DEF NextFits
<1>9. IsLibrary(y.db)
  <2>1. IsLibrary(e)
    BY DEF Named
  <2>2. QED BY <1>2, <1>5, <2>1, InsertTracksKeeps
<1>10. y.ids = [i \in 1 .. j + m |-> first + i - 1]
  <2> DEFINE more == [i \in 1 .. m |-> first + j + i - 1]
  <2>1. BatchIds(y.db, part) = more
    <3>1. BatchIds(y.db, part) = [k \in 1 .. m |-> (first + (j + m)) - 1 - (m - k)]
      BY <1>2, <1>8 DEF BatchIds
    <3>2. \A k \in 1 .. m : (first + (j + m)) - 1 - (m - k) = first + j + k - 1
      BY <1>1
    <3>3. QED BY <3>1, <3>2
  <2>2. x.ids = [i \in 1 .. j |-> first + i - 1]
    BY DEF Named
  <2>3. x.ids \in Seq(Int) /\ Len(x.ids) = j /\ more \in Seq(Int) /\ Len(more) = m
    BY <1>1, <2>2
  <2> DEFINE all == x.ids \o more
  <2>4. /\ all \in Seq(Int) /\ Len(all) = j + m
        /\ \A i \in 1 .. j + m : all[i] = IF i <= j THEN x.ids[i] ELSE more[i - j]
    <3> DEFINE old == x.ids
    <3> HIDE DEF more, old
    <3>1. old \in Seq(Int) /\ Len(old) = j /\ more \in Seq(Int) /\ Len(more) = m
      BY <2>3 DEF old
    <3>2. /\ old \o more \in Seq(Int) /\ Len(old \o more) = Len(old) + Len(more)
          /\ \A i \in 1 .. Len(old) + Len(more) :
               (old \o more)[i] = IF i <= Len(old) THEN old[i] ELSE more[i - Len(old)]
      BY <3>1, ConcatIndex
    <3>3. all = old \o more
      BY DEF old
    <3> HIDE DEF all
    <3>4. QED BY <3>1, <3>2, <3>3 DEF old
  <2>5. \A i \in 1 .. j + m : all[i] = first + i - 1
    <3> SUFFICES ASSUME NEW i \in 1 .. j + m PROVE all[i] = first + i - 1
      OBVIOUS
    <3>1. CASE i <= j
      <4>1. i \in 1 .. j /\ all[i] = x.ids[i]
        BY <2>4, <3>1
      <4> HIDE DEF all
      <4>2. QED BY <2>2, <4>1
    <3>2. CASE ~(i <= j)
      <4>1. i - j \in 1 .. m /\ all[i] = more[i - j]
        BY <2>4, <3>2
      <4>2. more[i - j] = first + j + (i - j) - 1
        BY <4>1
      <4> HIDE DEF all, more
      <4>3. QED BY <1>1, <4>1, <4>2
    <3>3. QED BY <3>1, <3>2
  <2>6. all = [i \in 1 .. j + m |-> all[i]]
    <3> HIDE DEF all
    <3>1. QED BY <2>4
  <2> HIDE DEF all
  <2>7. all = [i \in 1 .. j + m |-> first + i - 1]
    BY <2>5, <2>6
  <2>8. QED BY <1>5, <2>1, <2>7 DEF all
<1>11. ASSUME NEW i \in 1 .. j + m
       PROVE  first + i - 1 \in DOMAIN y.db.track /\ y.db.track[first + i - 1].name = names[i]
  <2> DEFINE id == first + i - 1
  <2>1. DOMAIN track = DOMAIN e.track \cup new
    OBVIOUS
  <2>2. CASE i <= j
    <3>1. id \in DOMAIN e.track /\ e.track[id].name = names[i]
      BY <2>2 DEF Named
    <3>2. id \notin new
      BY <1>1, <2>2
    <3>3. track[id] = e.track[id]
      BY <3>1, <3>2
    <3> HIDE DEF track, id
    <3>4. QED BY <1>7, <2>1, <3>1, <3>3 DEF id
  <2>3. CASE ~(i <= j)
    <3>1. id \in new /\ id - (first + j) + 1 = i - j /\ i - j \in 1 .. m
      BY <1>1, <2>3
    <3>2. track[id] = [name |-> part[i - j], listened |-> 0]
      BY <3>1
    <3>3. part[i - j] = names[j + (i - j)] /\ j + (i - j) = i
      BY <3>1
    <3> DEFINE row == [name |-> part[i - j], listened |-> 0]
    <3>4. track[id].name = names[i]
      <4>1. track[id] = row
        BY <3>2
      <4>2. row.name = part[i - j]
        OBVIOUS
      <4> HIDE DEF track, id, row
      <4>3. QED BY <3>3, <4>1, <4>2
    <3> HIDE DEF track, id
    <3>5. QED BY <1>7, <2>1, <3>1, <3>4 DEF id
  <2>4. QED BY <2>2, <2>3
<1>12. y.db.rows = d.rows
  BY <1>7 DEF Named
<1>13. QED BY <1>8, <1>9, <1>10, <1>11, <1>12 DEF Named, y

\* All names are in, and the first j of the sources.
Sourced(d, names, pairs, j, x) ==
  /\ IsLibrary(x.db)
  /\ x.ids = [i \in 1 .. Len(names) |-> d.next.track + i - 1]
  /\ \A i \in 1 .. Len(names) :
       LET id == d.next.track + i - 1
       IN id \in DOMAIN x.db.track /\ x.db.track[id].name = names[i]
  /\ x.db.rows["sources"] = d.rows["sources"] \cup {Row(x.ids[pairs[i][1]], pairs[i][2], 0) : i \in 1 .. j}

LEMMA PairsInserted ==
  ASSUME NEW d, NEW names, NEW pairs \in Seq(Nat \X STRING), NEW j \in Nat, NEW m \in Nat, j + m <= Len(pairs),
         NEW part, part = [i \in 1 .. m |-> pairs[j + i]], NEW x, Sourced(d, names, pairs, j, x),
         NEW st, st = [do |-> "InsertSources", pairs |-> part], RunNext(x, st).ok
  PROVE  Sourced(d, names, pairs, j + m, RunNext(x, st))
<1> DEFINE e == x.db
           y == RunNext(x, st)
           row(p) == Row(x.ids[p[1]], p[2], 0)
           new == [i \in DOMAIN part |-> row(part[i])]
           R == e.rows["sources"] \cup ToSet(new)
<1>1. IsLibrary(e) /\ DOMAIN e = DbFields /\ DOMAIN e.rows = Tables
  <2>1. IsLibrary(e)
    BY DEF Sourced
  <2>2. QED BY <2>1, LibraryParts, DbIsRecord DEF LibraryFits
<1>2. part \in Seq(Nat \X STRING) /\ Len(part) = m /\ DOMAIN part = 1 .. m
  <2>1. \A i \in 1 .. m : pairs[j + i] \in Nat \X STRING
    OBVIOUS
  <2>2. QED BY <2>1
<1>3. st.do = "InsertSources" /\ st.pairs = part
  OBVIOUS
<1>4. Execute(st, e, x.ids, x.read) = InsertRows(e, "sources", new)
  BY <1>3 DEF Execute, ReadsOnly, Reads, Change
<1>5. InsertRows(e, "sources", new).ok /\ y.db = InsertRows(e, "sources", new).db /\ y.ids = x.ids
  <2>1. LET out == Execute(st, x.db, x.ids, x.read)
        IN out.ok /\ y.db = out.db /\ y.ids = IdsAfter(st, out.db, x.ids)
    BY GoesOn
  <2> HIDE DEF y, new
  <2>2. QED BY <1>3, <1>4, <2>1 DEF IdsAfter
<1>6. y.db = [e EXCEPT !.rows["sources"] = R]
  BY <1>5 DEF InsertRows, When, Done, Fail
<1>7. y.db.track = e.track /\ y.db.rows["sources"] = R
  <2> DEFINE f == y.db
  <2>1. f = [e EXCEPT !.rows["sources"] = R]
    BY <1>6
  <2> HIDE DEF f, R, e
  <2>2. f.track = e.track /\ f.rows["sources"] = R
    BY <1>1, <2>1 DEF DbFields, Tables, UniqueTables
  <2>3. QED BY <2>2 DEF f
<1>8. IsLibrary(y.db)
  <2>1. new = [i \in DOMAIN part |-> new[i]] /\ \A i \in DOMAIN part : \E a, b : new[i] = Row(a, b, 0)
    OBVIOUS
  <2> HIDE DEF new, y
  <2>2. IsRowList(new)
    BY <1>2, <2>1, PairsAreRows
  <2>3. QED BY <1>1, <1>5, <2>2, InsertRowsKeeps
<1>9. R = d.rows["sources"] \cup {row(pairs[i]) : i \in 1 .. j + m}
  <2>1. ToSet(new) = {row(pairs[j + i]) : i \in 1 .. m}
    <3>1. DOMAIN new = 1 .. m /\ \A i \in 1 .. m : new[i] = row(pairs[j + i])
      BY <1>2
    <3> HIDE DEF new, row
    <3>2. QED BY <3>1 DEF ToSet
  <2>2. {row(pairs[i]) : i \in 1 .. j + m} = {row(pairs[i]) : i \in 1 .. j} \cup {row(pairs[j + i]) : i \in 1 .. m}
    <3> HIDE DEF row
    <3>1. \A i \in 1 .. j + m : i \in 1 .. j \/ (i - j \in 1 .. m /\ j + (i - j) = i)
      OBVIOUS
    <3>2. \A i \in 1 .. m : j + i \in 1 .. j + m
      OBVIOUS
    <3>3. \A i \in 1 .. j : i \in 1 .. j + m
      OBVIOUS
    <3>4. QED BY <3>1, <3>2, <3>3
  <2>3. e.rows["sources"] = d.rows["sources"] \cup {row(pairs[i]) : i \in 1 .. j}
    BY DEF Sourced
  <2> HIDE DEF new, row, e
  <2>4. QED BY <2>1, <2>2, <2>3
<1> HIDE DEF y, R
<1>10. y.db.rows["sources"] = d.rows["sources"] \cup {Row(y.ids[pairs[i][1]], pairs[i][2], 0) : i \in 1 .. j + m}
  BY <1>5, <1>7, <1>9
<1>11. y.ids = [i \in 1 .. Len(names) |-> d.next.track + i - 1]
  BY <1>5 DEF Sourced
<1>12. \A i \in 1 .. Len(names) :
         LET id == d.next.track + i - 1
         IN id \in DOMAIN y.db.track /\ y.db.track[id].name = names[i]
  BY <1>7 DEF Sourced
<1>13. QED BY <1>8, <1>10, <1>11, <1>12 DEF Sourced, y

\* Both commands are batches of names and then batches of sources.
LEMMA AddPrograms ==
  ASSUME NEW cmd, IsCommand(cmd), cmd.do \in {"AddTrack", "AddTracks"}
  PROVE  \E b \in Seq(Seq(STRING)), c \in Seq(Seq(Nat \X STRING)) :
           /\ IsCut(b, cmd.names) /\ IsCut(c, SourcePairs(cmd))
           /\ Program(cmd) = InsertBatches(b) \o InsertSources(c)
<1>1. cmd.names \in Seq(STRING) /\ SourcePairs(cmd) \in Seq(Nat \X STRING)
  BY SourcePairsType DEF IsCommand, OfOneTrack
<1>2. CASE cmd.do = "AddTrack"
  <2>1. Program(cmd) = InsertBatches(<<cmd.names>>) \o InsertSources(EachAlone(SourcePairs(cmd)))
    BY <1>2 DEF Program, AddTrack
  <2>2. <<cmd.names>> \in Seq(Seq(STRING)) /\ EachAlone(SourcePairs(cmd)) \in Seq(Seq(Nat \X STRING))
    BY <1>1, EachAloneType
  <2>3. IsCut(<<cmd.names>>, cmd.names) /\ IsCut(EachAlone(SourcePairs(cmd)), SourcePairs(cmd))
    BY <1>1, SimpleCuts
  <2>4. QED BY <2>1, <2>2, <2>3
<1>3. CASE cmd.do = "AddTracks"
  <2>1. Program(cmd) = InsertBatches(Chunks(cmd.names)) \o InsertSources(Chunks(SourcePairs(cmd)))
    BY <1>3 DEF Program, AddTracks
  <2>2. Chunks(cmd.names) \in Seq(Seq(STRING)) /\ Chunks(SourcePairs(cmd)) \in Seq(Seq(Nat \X STRING))
    BY <1>1, ChunksAreSeqs
  <2>3. IsCut(Chunks(cmd.names), cmd.names) /\ IsCut(Chunks(SourcePairs(cmd)), SourcePairs(cmd))
    BY <1>1, ChunksAreCut
  <2>4. QED BY <2>1, <2>2, <2>3
<1>4. QED BY <1>2, <1>3

Inserts(list, b, c) ==
  /\ Len(list) = Len(b) + Len(c)
  /\ \A k \in 1 .. Len(b) : list[k] = [do |-> "InsertTracks", names |-> b[k]]
  /\ \A k \in 1 .. Len(c) : list[Len(b) + k] = [do |-> "InsertSources", pairs |-> c[k]]

LEMMA BatchesInOrder ==
  ASSUME NEW b \in Seq(Seq(STRING)), NEW c \in Seq(Seq(Nat \X STRING)), NEW list,
         list = InsertBatches(b) \o InsertSources(c)
  PROVE  Inserts(list, b, c)
<1> DEFINE p == InsertBatches(b)
           q == InsertSources(c)
           T == {p[k] : k \in DOMAIN b} \cup {q[k] : k \in DOMAIN c}
<1>1. \A k \in 1 .. Len(b) : p[k] = [do |-> "InsertTracks", names |-> b[k]]
  BY DEF InsertBatches
<1>2. \A k \in 1 .. Len(c) : q[k] = [do |-> "InsertSources", pairs |-> c[k]]
  BY DEF InsertSources
<1>3. (\A k \in DOMAIN b : p[k] \in T) /\ (\A k \in DOMAIN c : q[k] \in T)
  OBVIOUS
<1> HIDE DEF p, q, T
<1>4. p \in Seq(T) /\ Len(p) = Len(b) /\ q \in Seq(T) /\ Len(q) = Len(c)
  <2>1. p = [k \in DOMAIN b |-> p[k]] /\ q = [k \in DOMAIN c |-> q[k]]
    BY DEF p, q, InsertBatches, InsertSources
  <2>2. DOMAIN b = 1 .. Len(b) /\ Len(b) \in Nat /\ DOMAIN c = 1 .. Len(c) /\ Len(c) \in Nat
    OBVIOUS
  <2>3. p \in Seq(T) /\ Len(p) = Len(b)
    BY <1>3, <2>1, <2>2
  <2>4. q \in Seq(T) /\ Len(q) = Len(c)
    BY <1>3, <2>1, <2>2
  <2>5. QED BY <2>3, <2>4
<1>5. list = p \o q
  BY DEF p, q
<1>6. /\ Len(list) = Len(p) + Len(q)
      /\ \A i \in 1 .. Len(p) + Len(q) : list[i] = IF i <= Len(p) THEN p[i] ELSE q[i - Len(p)]
  <2> DEFINE all == p \o q
  <2>1. /\ Len(all) = Len(p) + Len(q)
        /\ \A i \in 1 .. Len(p) + Len(q) : all[i] = IF i <= Len(p) THEN p[i] ELSE q[i - Len(p)]
    BY <1>4, ConcatIndex
  <2>2. list = all
    BY <1>5
  <2> HIDE DEF all
  <2>3. QED BY <2>1, <2>2
<1>7. Len(b) \in Nat /\ Len(c) \in Nat
  OBVIOUS
<1>8. ASSUME NEW k \in 1 .. Len(b) PROVE list[k] = p[k]
  BY <1>4, <1>6, <1>7
<1>9. ASSUME NEW k \in 1 .. Len(c) PROVE list[Len(b) + k] = q[k]
  <2>1. Len(b) + k \in 1 .. Len(p) + Len(q) /\ ~(Len(b) + k <= Len(p)) /\ Len(b) + k - Len(p) = k
    BY <1>4, <1>7
  <2>2. QED BY <1>6, <2>1
<1>10. QED BY <1>1, <1>2, <1>4, <1>6, <1>8, <1>9 DEF Inserts

\* One piece, and one statement.
LEMMA PieceAt ==
  ASSUME NEW off, NEW b, NEW s, Cut(off, b, s), Len(b) \in Nat, NEW k \in Nat, k < Len(b), NEW m, m = k + 1
  PROVE  /\ off[m] \in Nat /\ off[m] <= Len(s) /\ off[k] \in Nat /\ off[k] <= off[m]
         /\ b[m] = [i \in 1 .. off[m] - off[k] |-> s[off[k] + i]]
<1>1. m \in 1 .. Len(b) /\ m - 1 = k
  OBVIOUS
<1>2. /\ off[m] \in Nat /\ off[m] <= Len(s) /\ off[m - 1] \in Nat /\ off[m - 1] <= off[m]
      /\ b[m] = [i \in 1 .. off[m] - off[m - 1] |-> s[off[m - 1] + i]]
  BY <1>1, Zenon DEF Cut
<1>3. QED BY <1>1, <1>2

LEMMA Pieces ==
  ASSUME NEW off, NEW b, NEW s, Cut(off, b, s), NEW n \in Nat, Len(b) = n
  PROVE  \A k \in Nat : k < n =>
           /\ off[k + 1] \in Nat /\ off[k + 1] <= Len(s) /\ off[k] \in Nat /\ off[k] <= off[k + 1]
           /\ b[k + 1] = [i \in 1 .. off[k + 1] - off[k] |-> s[off[k] + i]]
  BY PieceAt

Stepwise(n, l, list, r) ==
  /\ \A k \in Nat : k < n => r[k + 1] = RunNext(r[k], list[k + 1])
  /\ \A k \in Nat : k < l => r[n + k + 1] = RunNext(r[n + k], list[n + k + 1])

LEMMA RunParts ==
  ASSUME NEW list, NEW d, NEW before, NEW n \in Nat, NEW l \in Nat, Len(list) = n + l,
         NEW r, r = Run(list, d, before)
  PROVE  Stepwise(n, l, list, r)
<1>1. \A i \in 1 .. Len(list) : r[i] = RunNext(r[i - 1], list[i])
  <2>1. Len(list) \in Nat
    OBVIOUS
  <2>2. QED BY <2>1, RunSteps
<1>2. ASSUME NEW k \in Nat, k < n PROVE r[k + 1] = RunNext(r[k], list[k + 1])
  <2>1. k + 1 \in 1 .. Len(list) /\ (k + 1) - 1 = k
    BY <1>2
  <2>2. QED BY <1>1, <2>1
<1>3. ASSUME NEW k \in Nat, k < l PROVE r[n + k + 1] = RunNext(r[n + k], list[n + k + 1])
  <2>1. n + k + 1 \in 1 .. Len(list) /\ (n + k + 1) - 1 = n + k
    BY <1>3
  <2>2. QED BY <1>1, <2>1
<1>4. QED BY <1>2, <1>3 DEF Stepwise

\* The statements that insert names, and those that insert sources.
LEMMA AllNamed ==
  ASSUME NEW d, IsLibrary(d), NEW names \in Seq(STRING), NEW b, NEW off, Cut(off, b, names),
         NEW n \in Nat, Len(b) = n, NEW r, r[0] = RunStart(d, << >>),
         \A k \in Nat : k < n => r[k + 1] = RunNext(r[k], [do |-> "InsertTracks", names |-> b[k + 1]])
  PROVE  \A k \in Nat : k <= n /\ r[k].ok => Named(d, names, off[k], r[k])
<1> DEFINE K == {k \in Nat : k <= n /\ r[k].ok => Named(d, names, off[k], r[k])}
<1>1. 0 \in K
  <2>1. r[0].db = d /\ r[0].ids = << >>
    BY DEF RunStart
  <2>2. d.next.track \in Nat
    BY LibraryParts DEF LibraryFits, NextFits
  <2>3. Named(d, names, 0, r[0])
    BY <2>1, <2>2 DEF Named
  <2>4. off[0] = 0
    BY DEF Cut
  <2>5. QED BY <2>3, <2>4
<1>2. ASSUME NEW k \in Nat, k \in K PROVE k + 1 \in K
  <2> DEFINE i == k + 1
             st == [do |-> "InsertTracks", names |-> b[i]]
             m == off[i] - off[k]
  <2> SUFFICES ASSUME i <= n, r[i].ok PROVE Named(d, names, off[i], r[i])
    OBVIOUS
  <2>1. i \in Nat /\ k < n /\ k <= n /\ i = k + 1
    OBVIOUS
  <2>2. r[i] = RunNext(r[k], st)
    BY <2>1
  <2> HIDE DEF st, i
  <2>3. r[k].ok
    BY <2>2, GoesOn
  <2>4. Named(d, names, off[k], r[k])
    BY <1>2, <2>1, <2>3
  <2>5. /\ off[i] \in Nat /\ off[i] <= Len(names) /\ off[k] \in Nat /\ off[k] <= off[i]
        /\ b[i] = [q \in 1 .. m |-> names[off[k] + q]]
    BY <2>1, PieceAt
  <2>6. m \in Nat /\ off[k] + m = off[i]
    BY <2>5
  <2> HIDE DEF m
  <2>7. RunNext(r[k], st).ok /\ off[k] + m <= Len(names)
    BY <2>2, <2>5, <2>6
  <2>8. Named(d, names, off[k] + m, RunNext(r[k], st))
    BY <2>4, <2>5, <2>6, <2>7, NamesInserted DEF st
  <2>9. QED BY <2>2, <2>6, <2>8
<1> HIDE DEF K
<1>3. Nat \subseteq K
  BY <1>1, <1>2, Induction
<1>4. QED BY <1>3 DEF K

LEMMA AllSourced ==
  ASSUME NEW d, NEW names, NEW pairs \in Seq(Nat \X STRING), NEW c, NEW off, Cut(off, c, pairs),
         NEW n \in Nat, Len(c) = n, NEW r, r[0].ok => Named(d, names, Len(names), r[0]),
         \A k \in Nat : k < n => r[k + 1] = RunNext(r[k], [do |-> "InsertSources", pairs |-> c[k + 1]])
  PROVE  \A k \in Nat : k <= n /\ r[k].ok => Sourced(d, names, pairs, off[k], r[k])
<1> DEFINE K == {k \in Nat : k <= n /\ r[k].ok => Sourced(d, names, pairs, off[k], r[k])}
<1>0. \A k \in Nat : k < n =>
        /\ off[k + 1] \in Nat /\ off[k + 1] <= Len(pairs) /\ off[k] \in Nat /\ off[k] <= off[k + 1]
        /\ c[k + 1] = [q \in 1 .. off[k + 1] - off[k] |-> pairs[off[k] + q]]
  BY Pieces
<1>1. 0 \in K
  <2>1. {Row(r[0].ids[pairs[i][1]], pairs[i][2], 0) : i \in 1 .. 0} = {}
    OBVIOUS
  <2>2. r[0].ok => Sourced(d, names, pairs, 0, r[0])
    BY <2>1 DEF Named, Sourced
  <2>3. off[0] = 0
    BY DEF Cut
  <2>4. QED BY <2>2, <2>3
<1>2. ASSUME NEW k \in Nat, k \in K PROVE k + 1 \in K
  <2> DEFINE i == k + 1
             st == [do |-> "InsertSources", pairs |-> c[i]]
             m == off[i] - off[k]
  <2> SUFFICES ASSUME i <= n, r[i].ok PROVE Sourced(d, names, pairs, off[i], r[i])
    OBVIOUS
  <2>1. i \in Nat /\ k < n /\ k <= n /\ i = k + 1
    OBVIOUS
  <2>2. r[i] = RunNext(r[k], st)
    BY <2>1
  <2> HIDE DEF st, i
  <2>3. r[k].ok
    BY <2>2, GoesOn
  <2>4. Sourced(d, names, pairs, off[k], r[k])
    BY <1>2, <2>1, <2>3
  <2>5. /\ off[i] \in Nat /\ off[i] <= Len(pairs) /\ off[k] \in Nat /\ off[k] <= off[i]
        /\ c[i] = [q \in 1 .. m |-> pairs[off[k] + q]]
    <3>1. /\ off[k + 1] \in Nat /\ off[k + 1] <= Len(pairs) /\ off[k] \in Nat /\ off[k] <= off[k + 1]
          /\ c[k + 1] = [q \in 1 .. off[k + 1] - off[k] |-> pairs[off[k] + q]]
      BY <1>0, <2>1, Zenon
    <3>2. QED BY <2>1, <3>1
  <2>6. m \in Nat /\ off[k] + m = off[i]
    BY <2>5
  <2> HIDE DEF m
  <2>7. RunNext(r[k], st).ok /\ off[k] + m <= Len(pairs)
    BY <2>2, <2>5, <2>6
  <2>8. Sourced(d, names, pairs, off[k] + m, RunNext(r[k], st))
    BY <2>4, <2>5, <2>6, <2>7, PairsInserted DEF st
  <2>9. QED BY <2>2, <2>6, <2>8
<1> HIDE DEF K
<1>3. Nat \subseteq K
  BY <1>1, <1>2, Induction
<1>4. QED BY <1>3 DEF K

LEMMA BatchesRun ==
  ASSUME NEW d, IsLibrary(d), NEW names \in Seq(STRING), NEW pairs \in Seq(Nat \X STRING),
         NEW b, NEW c, IsCut(b, names), IsCut(c, pairs), Len(b) \in Nat, Len(c) \in Nat,
         NEW list, Inserts(list, b, c), Run(list, d, << >>)[Len(list)].ok
  PROVE  Sourced(d, names, pairs, Len(pairs), Run(list, d, << >>)[Len(list)])
<1> DEFINE r == Run(list, d, << >>)
           n == Len(b)
           l == Len(c)
           z == [k \in 0 .. l |-> r[n + k]]
<1>0. /\ \A k \in Nat : k < n => r[k + 1] = RunNext(r[k], list[k + 1])
      /\ \A k \in Nat : k < l => r[n + k + 1] = RunNext(r[n + k], list[n + k + 1])
  <2>1. Len(list) = Len(b) + Len(c)
    BY DEF Inserts
  <2>2. Stepwise(n, l, list, r)
    BY <2>1, RunParts
  <2>3. QED BY <2>2 DEF Stepwise
<1>1. r[0] = RunStart(d, << >>)
  <2>1. Len(list) \in Nat
    BY DEF Inserts
  <2>2. QED BY <2>1, RunSteps
<1>2. ASSUME NEW k \in Nat, k < n
      PROVE  r[k + 1] = RunNext(r[k], [do |-> "InsertTracks", names |-> b[k + 1]])
  <2> DEFINE m == k + 1
             st == [do |-> "InsertTracks", names |-> b[m]]
  <2>1. m \in 1 .. n /\ m = k + 1 /\ k < Len(list) /\ Len(list) \in Nat
    BY <1>2 DEF Inserts
  <2>2. list[m] = st
    BY <2>1 DEF Inserts
  <2>3. r[m] = RunNext(r[k], list[m])
    BY <1>0, <1>2, Zenon
  <2> HIDE DEF st
  <2>4. r[m] = RunNext(r[k], st)
    BY <2>2, <2>3
  <2>5. QED BY <2>4 DEF m, st
<1>3. ASSUME NEW k \in Nat, k < l
      PROVE  z[k + 1] = RunNext(z[k], [do |-> "InsertSources", pairs |-> c[k + 1]])
  <2> DEFINE i == k + 1
             j == n + k
             m == n + i
             st == [do |-> "InsertSources", pairs |-> c[i]]
  <2>1. i \in 1 .. l /\ j \in Nat /\ m = j + 1 /\ j < Len(list) /\ Len(list) \in Nat /\ k \in 0 .. l /\ i \in 0 .. l
    BY <1>3 DEF Inserts
  <2>2. list[m] = st
    BY <2>1 DEF Inserts
  <2>3. z[k] = r[j] /\ z[i] = r[m]
    BY <2>1
  <2>4. n + k + 1 = m
    BY <2>1
  <2>5. r[n + k + 1] = RunNext(r[n + k], list[n + k + 1])
    BY <1>0, <1>3, Zenon
  <2> HIDE DEF i, m, st, z, j
  <2>6. r[m] = RunNext(r[j], st)
    BY <2>2, <2>4, <2>5 DEF j
  <2>7. QED BY <2>3, <2>6 DEF i, st
<1>4. PICK off : Cut(off, b, names)
  BY DEF IsCut
<1>5. PICK cut : Cut(cut, c, pairs)
  BY DEF IsCut
<1>6. z[0] = r[n] /\ z[l] = r[Len(list)]
  BY DEF Inserts
<1> HIDE DEF r, z
<1>7. r[n].ok => Named(d, names, Len(names), r[n])
  <2>1. \A k \in Nat : k <= n /\ r[k].ok => Named(d, names, off[k], r[k])
    BY <1>1, <1>2, <1>4, AllNamed
  <2>2. off[n] = Len(names)
    BY <1>4 DEF Cut
  <2>3. n \in Nat /\ n <= n
    OBVIOUS
  <2>4. r[n].ok => Named(d, names, off[n], r[n])
    BY <2>1, <2>3
  <2>5. QED BY <2>2, <2>4
<1>8. \A k \in Nat : k <= l /\ z[k].ok => Sourced(d, names, pairs, cut[k], z[k])
  <2>1. z[0].ok => Named(d, names, Len(names), z[0])
    BY <1>6, <1>7
  <2>2. \A k \in Nat : k < l => z[k + 1] = RunNext(z[k], [do |-> "InsertSources", pairs |-> c[k + 1]])
    BY <1>3
  <2>3. Cut(cut, c, pairs)
    BY <1>5
  <2>4. QED BY <2>1, <2>2, <2>3, AllSourced
<1>9. cut[l] = Len(pairs)
  BY <1>5 DEF Cut
<1>10. z[l].ok
  BY <1>6 DEF r
<1>11. Sourced(d, names, pairs, cut[l], z[l])
  <2>1. l \in Nat /\ l <= l
    OBVIOUS
  <2>2. QED BY <1>8, <1>10, <2>1
<1>12. Sourced(d, names, pairs, Len(pairs), r[Len(list)])
  BY <1>6, <1>9, <1>11
<1>13. QED BY <1>12 DEF r

\* Every source is paired with the place of its track.
LEMMA PairsNameTheTracks ==
  ASSUME NEW cmd, cmd.urls \in Seq(Seq(STRING))
  PROVE  \A k, u : <<k, u>> \in ToSet(SourcePairs(cmd)) <=> k \in DOMAIN cmd.urls /\ u \in ToSet(cmd.urls[k])
<1> DEFINE urls == cmd.urls
           ss == [k \in DOMAIN urls |-> [i \in DOMAIN urls[k] |-> <<k, urls[k][i]>>]]
<1>1. ASSUME NEW k \in DOMAIN urls
      PROVE  ss[k] \in Seq(Nat \X STRING) /\ ToSet(ss[k]) = {<<k, u>> : u \in ToSet(urls[k])}
  <2>1. urls[k] \in Seq(STRING) /\ k \in Nat
    OBVIOUS
  <2>2. ss[k] = [i \in DOMAIN urls[k] |-> <<k, urls[k][i]>>]
    OBVIOUS
  <2> HIDE DEF urls, ss
  <2>3. \A i \in DOMAIN urls[k] : <<k, urls[k][i]>> \in Nat \X STRING
    BY <2>1
  <2>4. ss[k] \in Seq(Nat \X STRING)
    BY <2>1, <2>2, <2>3
  <2>5. ToSet(ss[k]) = {<<k, urls[k][i]>> : i \in DOMAIN urls[k]}
    BY <2>2, Zenon DEF ToSet
  <2>6. {<<k, urls[k][i]>> : i \in DOMAIN urls[k]} = {<<k, u>> : u \in ToSet(urls[k])}
    BY DEF ToSet
  <2>7. QED BY <2>4, <2>5, <2>6
<1>2. Len(ss) = Len(urls) /\ DOMAIN ss = DOMAIN urls /\ ss = [k \in DOMAIN urls |-> ss[k]]
  OBVIOUS
<1>3. SourcePairs(cmd) = FlattenSeq(ss)
  BY DEF SourcePairs
<1> HIDE DEF ss
<1>4. ss \in Seq(Seq(Nat \X STRING))
  BY <1>1, <1>2, MapSeq
<1>5. ToSet(SourcePairs(cmd)) = Parts(ss, Len(ss))
  BY <1>3, <1>4, FlattenElements
<1>6. DOMAIN urls = 1 .. Len(urls)
  OBVIOUS
<1> HIDE DEF urls
<1>7. \A p : p \in ToSet(SourcePairs(cmd)) <=> \E j \in DOMAIN urls : p \in ToSet(ss[j])
  BY <1>2, <1>5, <1>6 DEF Parts
<1>8. ASSUME NEW k, NEW u
      PROVE  <<k, u>> \in ToSet(SourcePairs(cmd)) <=> k \in DOMAIN urls /\ u \in ToSet(urls[k])
  <2>1. ASSUME NEW j \in DOMAIN urls PROVE <<k, u>> \in ToSet(ss[j]) <=> k = j /\ u \in ToSet(urls[j])
    BY <1>1
  <2>2. QED BY <1>7, <2>1
<1>9. QED BY <1>8 DEF urls

\* The ids name what cmd adds to d: new tracks, in its order and with its sources.
TracksAdded(d, cmd, ids, e) ==
  /\ Len(ids) = Len(cmd.names)
  /\ \A i \in DOMAIN ids :
       /\ ids[i] \notin DOMAIN d.track
       /\ e.track[ids[i]].name = cmd.names[i]
       /\ {r.of : r \in RowsOf(e, "sources", ids[i])} = ToSet(cmd.urls[i])

\* add_track and add_tracks (dispatch.rs, sqlite.rs): however the names and
\* the sources were batched, the statements that succeed leave a library where
\* the ids they answer with are new, the track of each id bears the name that
\* was given in its place, and its sources are those that were given with it,
\* and no other row of the library.
THEOREM AddedTracks ==
  ASSUME NEW d, IsLibrary(d), NEW cmd, IsCommand(cmd), cmd.do \in {"AddTrack", "AddTracks"},
         NEW x, x = Run(Program(cmd), d, << >>)[Len(Program(cmd))], x.ok
  PROVE  TracksAdded(d, cmd, x.ids, x.db)
<1> DEFINE names == cmd.names
           urls == cmd.urls
           pairs == SourcePairs(cmd)
           first == d.next.track
<1>1. names \in Seq(STRING) /\ urls \in Seq(Seq(STRING)) /\ Len(names) = Len(urls)
  BY DEF IsCommand, OfOneTrack
<1>2. pairs \in Seq(Nat \X STRING)
  BY <1>1, SourcePairsType
<1>3. PICK b \in Seq(Seq(STRING)), c \in Seq(Seq(Nat \X STRING)) :
        /\ IsCut(b, names) /\ IsCut(c, pairs)
        /\ Program(cmd) = InsertBatches(b) \o InsertSources(c)
  BY AddPrograms
<1>4. Inserts(Program(cmd), b, c)
  BY <1>3, BatchesInOrder
<1>5. Len(b) \in Nat /\ Len(c) \in Nat
  BY <1>3
<1> HIDE DEF names, urls, pairs
<1>6. Sourced(d, names, pairs, Len(pairs), x)
  BY <1>1, <1>2, <1>3, <1>4, <1>5, BatchesRun
<1>7. /\ first \in Nat /\ first > 0 /\ DOMAIN d.track \subseteq 1 .. first - 1
      /\ \A r \in d.rows["sources"] : r.track \in DOMAIN d.track
  BY LibraryParts DEF LibraryFits, NextFits, TracksFit, RowsFit, RowFits, Tables, UniqueTables
<1> HIDE DEF first
<1>8. /\ x.ids = [i \in 1 .. Len(names) |-> first + i - 1]
      /\ \A i \in 1 .. Len(names) : x.db.track[first + i - 1].name = names[i]
  BY <1>6 DEF Sourced, first
<1>9. Len(x.ids) = Len(names) /\ DOMAIN x.ids = 1 .. Len(names) /\ Len(names) \in Nat
  BY <1>1, <1>8
<1>10. x.db.rows["sources"] = d.rows["sources"] \cup {Row(x.ids[pairs[i][1]], pairs[i][2], 0) : i \in 1 .. Len(pairs)}
  BY <1>6 DEF Sourced
<1>11. \A k, u : <<k, u>> \in ToSet(pairs) <=> k \in DOMAIN urls /\ u \in ToSet(urls[k])
  BY <1>1, PairsNameTheTracks DEF pairs, urls
<1>12. ASSUME NEW i \in DOMAIN x.ids
       PROVE  {r.of : r \in RowsOf(x.db, "sources", x.ids[i])} = ToSet(urls[i])
  <2>1. /\ i \in 1 .. Len(names) /\ i \in DOMAIN urls /\ i \in Nat /\ x.ids[i] = first + i - 1
        /\ x.ids[i] \notin DOMAIN d.track
    BY <1>1, <1>7, <1>8, <1>9
  <2>2. ASSUME NEW r \in RowsOf(x.db, "sources", x.ids[i]) PROVE r.of \in ToSet(urls[i])
    <3>1. r \in x.db.rows["sources"] /\ r.track = x.ids[i]
      BY DEF RowsOf
    <3>2. r \notin d.rows["sources"]
      BY <1>7, <2>1, <3>1
    <3>3. PICK q \in 1 .. Len(pairs) : r = Row(x.ids[pairs[q][1]], pairs[q][2], 0)
      BY <1>10, <3>1, <3>2
    <3>4. PICK k, u : pairs[q] = <<k, u>> /\ k \in Nat /\ u \in STRING
      BY <1>2
    <3>5. <<k, u>> \in ToSet(pairs)
      BY <1>2, <3>4 DEF ToSet
    <3>6. k \in 1 .. Len(names) /\ u \in ToSet(urls[k])
      BY <1>1, <1>11, <3>5
    <3>7. r.track = x.ids[k] /\ r.of = u
      BY <3>3, <3>4 DEF Row
    <3>8. x.ids[k] = first + k - 1
      BY <1>8, <3>6
    <3>9. k = i
      BY <1>7, <2>1, <3>1, <3>4, <3>7, <3>8
    <3>10. QED BY <3>6, <3>7, <3>9
  <2>3. ASSUME NEW u \in ToSet(urls[i]) PROVE \E r \in RowsOf(x.db, "sources", x.ids[i]) : r.of = u
    <3>1. <<i, u>> \in ToSet(pairs)
      BY <1>11, <2>1
    <3>2. DOMAIN pairs = 1 .. Len(pairs)
      BY <1>2
    <3>3. PICK q \in 1 .. Len(pairs) : pairs[q] = <<i, u>>
      BY <3>1, <3>2, Zenon DEF ToSet
    <3> DEFINE r == Row(x.ids[i], u, 0)
    <3>4. r = Row(x.ids[pairs[q][1]], pairs[q][2], 0)
      BY <3>3
    <3>5. r.track = x.ids[i] /\ r.of = u
      BY DEF Row
    <3> HIDE DEF r
    <3>6. r \in x.db.rows["sources"]
      BY <1>10, <3>4
    <3>7. QED BY <3>5, <3>6 DEF RowsOf
  <2>4. QED BY <2>2, <2>3
<1>13. ASSUME NEW i \in DOMAIN x.ids
       PROVE  x.ids[i] \notin DOMAIN d.track /\ x.db.track[x.ids[i]].name = names[i]
  <2>1. i \in 1 .. Len(names) /\ i \in Nat /\ x.ids[i] = first + i - 1
    BY <1>8, <1>9
  <2>2. x.ids[i] \notin DOMAIN d.track
    BY <1>7, <2>1
  <2>3. x.db.track[first + i - 1].name = names[i]
    BY <1>8, <2>1
  <2>4. QED BY <2>1, <2>2, <2>3
<1>14. QED BY <1>9, <1>12, <1>13 DEF names, urls, TracksAdded
=============================================================================
