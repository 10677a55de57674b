--------------------------- MODULE LibraryCommands --------------------------
(***************************************************************************)
(* The commands of the library (src/src-tauri/src/commands/dispatch.rs) as *)
(* the lists of statements that SqliteRepository runs for them, and what a *)
(* command does when nothing interferes.  A command is a record whose "do" *)
(* names it; its other fields are its arguments.                           *)
(***************************************************************************)
EXTENDS LibraryData

CONSTANTS Today,        \* the date of a credit
          BatchSize     \* rows of one INSERT (166 tracks, 500 pairs)

ASSUME BatchAssumption == BatchSize \in Nat \ {0}

-----------------------------------------------------------------------------
(* The commands and their arguments.  Ids, seconds and limits may be any   *)
(* number, a name or a url any text; criteria are read into a filter.      *)

Filter == [names : SUBSET STRING, anyTag : SUBSET Int, allTags : Seq(Int)]
OfOneTrack ==
  {"GetTrack", "DeleteTrack", "AddListen", "GetListensForTrack", "GetTagsForTrack",
   "GetMetaForTrack", "GetSourcesForTrack"}

IsCommand(cmd) ==
  \/ /\ cmd \in [do : {"AddTrack", "AddTracks"}, names : Seq(STRING), urls : Seq(Seq(STRING))]
     /\ Len(cmd.names) = Len(cmd.urls) /\ (cmd.do = "AddTrack" => Len(cmd.names) = 1)
  \/ cmd \in [do : OfOneTrack, track : Int]
  \/ cmd \in [do : {"UpdateTrack"}, track : Int, name : STRING]
  \/ cmd \in [do : {"GetTracks", "GetTracksFiltered", "GetTracksWithSources"},
               filter : Filter, cursor : Int, limit : Int]
  \/ cmd \in [do : {"AddListenedSeconds", "AddMeta"}, track : Int, n : Int]
  \/ cmd \in [do : {"AddTag"}, name : STRING]
  \/ cmd \in [do : {"EditTag"}, tag : Int, name : STRING]
  \/ cmd \in [do : {"DeleteTag"}, tag : Int]
  \/ cmd \in [do : {"GetTags"}, pattern : SUBSET STRING]
  \/ cmd \in [do : {"AssignTag", "AssignTags"}, pairs : Seq(Int \X Int)]
  \/ cmd \in [do : {"RemoveTag"}, track : Int, tag : Int]
  \/ cmd \in [do : {"UpdateMeta"}, id : Int, n : Int]
  \/ cmd \in [do : {"DeleteMeta"}, id : Int]
  \/ cmd \in [do : {"AddTrackSource", "RemoveTrackSource"}, track : Int, url : STRING]
  \/ cmd \in [do : {"EditTrackSource"}, track : Int, url : STRING, newUrl : STRING]
  \/ cmd = [do |-> "ResetDatabase"]

-----------------------------------------------------------------------------
(* Commands as lists of statements.                                        *)

Chunks(s) ==
  [k \in 1 .. (Len(s) + BatchSize - 1) \div BatchSize |->
     LET from == (k - 1) * BatchSize
     IN [i \in 1 .. (IF Len(s) - from < BatchSize THEN Len(s) - from ELSE BatchSize) |-> s[from + i]]]

\* The sources of the tracks being added: <<which of the new tracks, url>>.
SourcePairs(cmd) ==
  FlattenSeq([k \in DOMAIN cmd.urls |->
                [i \in DOMAIN cmd.urls[k] |-> <<k, cmd.urls[k][i]>>]])

EachAlone(s) == [i \in DOMAIN s |-> <<s[i]>>]
InsertBatches(batches) == [k \in DOMAIN batches |-> [do |-> "InsertTracks", names |-> batches[k]]]
InsertSources(batches) == [k \in DOMAIN batches |-> [do |-> "InsertSources", pairs |-> batches[k]]]

\* add_track names the first source in its error context before it does anything.
Panics(cmd) == cmd.do = "AddTrack" /\ cmd.urls[1] = << >>
AddTrack(cmd) == InsertBatches(<<cmd.names>>) \o InsertSources(EachAlone(SourcePairs(cmd)))
AddTracks(cmd) == InsertBatches(Chunks(cmd.names)) \o InsertSources(Chunks(SourcePairs(cmd)))

AssignTagsInChunks(cmd) ==
  LET chunks == Chunks(cmd.pairs)
  IN [k \in DOMAIN chunks |-> [do |-> "AssignTag", pairs |-> chunks[k]]]

\* Read the track and what it owns, put it on record, remove it.
Owned == <<"track", "sources", "assignments", "meta", "daily">>
DeleteTrackUnread(cmd) ==   \* mutant: the record is made before the daily counts are read
  [i \in 1 .. 4 |-> [do |-> "Read", table |-> Owned[i], track |-> cmd.track]]
  \o <<[do |-> "Archive", track |-> cmd.track], [do |-> "DeleteTrackRow", track |-> cmd.track]>>
DeleteTrack(cmd) ==
  [i \in DOMAIN Owned |-> [do |-> "Read", table |-> Owned[i], track |-> cmd.track]]
  \o <<[do |-> "Archive", track |-> cmd.track], [do |-> "DeleteTrackRow", track |-> cmd.track]>>

EditTrackSource(cmd) ==
  <<[do |-> "RemoveTrackSource", track |-> cmd.track, url |-> cmd.url],
    [do |-> "AddTrackSource", track |-> cmd.track, url |-> cmd.newUrl]>>

AddListenedSeconds(cmd) ==
  <<[do |-> "AddToTotal", track |-> cmd.track, n |-> cmd.n],
    [do |-> "AddToDay", track |-> cmd.track, n |-> cmd.n]>>

\* Two reads, each on a connection of its own.
GetTracksWithSources(cmd) ==
  <<[do |-> "GetTracks", filter |-> cmd.filter, cursor |-> cmd.cursor, limit |-> cmd.limit],
    [do |-> "SourcesOfShown"]>>

\* Every other command is one statement outside a transaction.
Program(cmd) ==
  CASE cmd.do = "AddTrack" -> AddTrack(cmd)
    [] cmd.do = "AddTracks" -> AddTracks(cmd)
    [] cmd.do = "AssignTags" -> AssignTagsInChunks(cmd)
    [] cmd.do = "DeleteTrack" -> DeleteTrack(cmd)
    [] cmd.do = "EditTrackSource" -> EditTrackSource(cmd)
    [] cmd.do = "AddListenedSeconds" -> AddListenedSeconds(cmd)
    [] cmd.do = "GetTracksWithSources" -> GetTracksWithSources(cmd)
    [] OTHER -> <<cmd>>

\* These log a failing statement while their transaction is still open; the
\* other transactions have been dropped when try_log sees the error.
LogsInside == {"AddTracks", "EditTrackSource", "AddListenedSeconds"}
InTransaction(cmd) ==
  cmd.do \in LogsInside \cup {"AddTrack", "AssignTags", "DeleteTrack"}

Reads ==
  {"Read", "GetTrack", "GetTracks", "GetTracksFiltered", "SourcesOfShown", "GetListensForTrack",
   "GetTags", "GetTagsForTrack", "GetMetaForTrack", "GetSourcesForTrack"}
ReadsOnly(st) == st.do \in Reads

\* What a statement does to the database d; ids and read are what the earlier
\* statements of the command returned.
Change(st, d, ids, read) ==
  CASE st.do = "InsertTracks" -> InsertTracks(d, st.names)
    [] st.do = "InsertSources" ->
         InsertRows(d, "sources", [i \in DOMAIN st.pairs |-> Row(ids[st.pairs[i][1]], st.pairs[i][2], 0)])
    [] st.do = "UpdateTrack" -> UpdateTrack(d, st.track, st.name)
    [] st.do = "Archive" -> Archive(d, read)
    [] st.do = "DeleteTrackRow" -> DeleteTrackRow(d, st.track)
    [] st.do = "AssignTag" ->
         AssignTags(d, [i \in DOMAIN st.pairs |-> Row(st.pairs[i][1], st.pairs[i][2], 0)])
    [] st.do = "RemoveTag" -> DeleteRow(d, "assignments", st.track, st.tag)
    [] st.do = "AddTag" -> AddTag(d, st.name)
    [] st.do = "EditTag" -> EditTag(d, st.tag, st.name)
    [] st.do = "DeleteTag" -> DeleteTag(d, st.tag)
    [] st.do = "AddMeta" -> InsertNumbered(d, "meta", st.track, st.n)
    [] st.do = "AddListen" -> AddListen(d, st.track)
    [] st.do = "UpdateMeta" -> UpdateMeta(d, st.id, st.n)
    [] st.do = "DeleteMeta" -> DeleteMeta(d, st.id)
    [] st.do = "AddTrackSource" -> AddTrackSource(d, st.track, st.url)
    [] st.do = "RemoveTrackSource" -> RemoveTrackSource(d, st.track, st.url)
    [] st.do = "AddToTotal" -> AddToTotal(d, st.track, st.n)
    [] st.do = "AddToDay" -> AddToDay(d, st.track, Today, st.n)

\* A read of one track fails when there is none.
Finds(st, d) ==
  st.do = "GetTrack" \/ (st.do = "Read" /\ st.table = "track") => st.track \in DOMAIN d.track
Execute(st, d, ids, read) ==
  IF st.do = "GetTracks" THEN GetTracks(d, st.filter)
  ELSE IF ReadsOnly(st) THEN When(Finds(st, d), d, d)
  ELSE Change(st, d, ids, read)

\* What the command knows after the statement: new ids, rows it read.
IdsAfter(st, d, ids) == IF st.do = "InsertTracks" THEN ids \o BatchIds(d, st.names) ELSE ids
Rows(d, t, id) ==
  IF t = "track" THEN {d.track[o] : o \in {id} \cap DOMAIN d.track} ELSE RowsOf(d, t, id)
Found(st, d, read) ==
  CASE st.do = "Read" -> Rows(d, st.table, st.track)
    [] st.do = "GetTrack" -> Rows(d, "track", st.track)
    [] st.do \in {"GetTracks", "GetTracksFiltered"} -> Page(d, st.filter, st.cursor, st.limit)
    [] st.do = "SourcesOfShown" -> SourcesOfShown(d, read["GetTracks"])
    [] st.do = "GetListensForTrack" -> ListensForTrack(d, st.track)
    [] st.do = "GetTags" -> Tags(d, st.pattern)
    [] st.do = "GetTagsForTrack" -> TagsOf(d, st.track)
    [] st.do = "GetMetaForTrack" -> MetaForTrack(d, st.track)
    [] st.do = "GetSourcesForTrack" -> SourcesForTrack(d, st.track)
ReadAfter(st, d, read) ==
  LET name == IF st.do = "Read" THEN st.table ELSE st.do
  IN IF ~ReadsOnly(st) THEN read
     ELSE [t \in DOMAIN read \cup {name} |-> IF t = name THEN Found(st, d, read) ELSE read[t]]

\* What it answers with: the rows it was asked for.
Shown(cmd, read) ==
  IF ReadsOnly(cmd) THEN read
  ELSE IF cmd.do = "GetTracksWithSources"
    THEN [tracks |-> WithSources(read["GetTracks"],
                                 IF read["GetTracks"] = {} THEN {} ELSE read["SourcesOfShown"])]
    ELSE << >>

\* The command is over: its statements are, or there is no track to show.
Over(cmd, pc, read) ==
  \/ pc > Len(Program(cmd))
  \/ cmd.do = "GetTracksWithSources" /\ pc = 2 /\ read["GetTracks"] = {}

\* A statement after others, none of which has failed.
RunNext(s, st) ==
  LET out == Execute(st, s.db, s.ids, s.read)
  IN IF ~s.ok THEN s
     ELSE [ok |-> out.ok, db |-> out.db,
           ids |-> IdsAfter(st, out.db, s.ids), read |-> ReadAfter(st, s.db, s.read)]

\* A list of statements alone on the database d, after each of them.
Run(list, d, before) ==
  LET after[k \in 0 .. Len(list)] ==
        IF k = 0 THEN [ok |-> TRUE, db |-> d, ids |-> << >>, read |-> before]
                 ELSE RunNext(after[k - 1], list[k])
  IN after

\* A command from beginning to end, or what is left of it when it has read
\* something before.
RunAlone(cmd, d, before) ==
  LET list == IF before = << >> THEN Program(cmd) ELSE Tail(Program(cmd))
  IN Run(list, d, before)[Len(list)]

\* The first read of get_tracks_with_sources.
ReadPage(cmd, d) == ReadAfter(GetTracksWithSources(cmd)[1], d, << >>)
=============================================================================
