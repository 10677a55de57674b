----------------------------- MODULE LibraryData ----------------------------
(***************************************************************************)
(* The library's tables (src/src-tauri/migrations) and the statements      *)
(* SqliteRepository runs on them (src/src-tauri/src/db/sqlite.rs).  A      *)
(* statement takes a database to an outcome: whether it succeeded, and the *)
(* database it leaves.  A statement that fails changes nothing.            *)
(*                                                                         *)
(* A track is its name and its listened seconds: artist and name stand for *)
(* one value, the other columns are constant.  The tables that refer to a  *)
(* track hold rows [track, of, n]: the url of a source, the id of a tag,   *)
(* the day of a daily count; "of" is the row's own id where rows may       *)
(* repeat (meta, listens).                                                 *)
(***************************************************************************)
EXTENDS Integers, Sequences, SequencesExt

UniqueTables == {"sources", "assignments", "daily"}
NumberedTables == {"meta", "listens"}
Tables == UniqueTables \cup NumberedTables

EmptyDb ==
  [track |-> << >>, tag |-> << >>, removed |-> << >>,
   rows |-> [t \in Tables |-> {}],
   next |-> [t \in NumberedTables \cup {"track", "tag"} |-> 1]]

\* What a failing statement answers, and what a successful one does.
Fail(d) == [ok |-> FALSE, db |-> d]
Done(d) == [ok |-> TRUE, db |-> d]
When(ok, d, e) == IF ok THEN Done(e) ELSE Fail(d)

RowsOf(d, t, id) == {r \in d.rows[t] : r.track = id}
TagsOf(d, id) == {r.of : r \in RowsOf(d, "assignments", id)}
NameTaken(d, name, id) == \E o \in DOMAIN d.track \ {id} : d.track[o].name = name

\* Every row names an existing track, and a tag assignment an existing tag.
Resolves(d, t, r) ==
  r.track \in DOMAIN d.track /\ (t = "assignments" => r.of \in DOMAIN d.tag)

Row(track, of, n) == [track |-> track, of |-> of, n |-> n]
SameKey(r, q) == r.track = q.track /\ r.of = q.of

\* What the columns and constraints of the tables make of every library: names
\* and keys are unique, references resolve, the next ids are above those drawn.
IsLibrary(d) ==
  /\ d = [track |-> d.track, tag |-> d.tag, removed |-> d.removed, rows |-> d.rows, next |-> d.next]
  /\ d.next \in [NumberedTables \cup {"track", "tag"} -> Nat \ {0}]
  /\ DOMAIN d.track \subseteq 1 .. d.next.track - 1
  /\ d.track \in [DOMAIN d.track -> [name : STRING, listened : Int]]
  /\ \A o, p \in DOMAIN d.track : d.track[o].name = d.track[p].name => o = p
  /\ DOMAIN d.tag \subseteq 1 .. d.next.tag - 1
  /\ d.tag \in [DOMAIN d.tag -> STRING]
  /\ \A o, p \in DOMAIN d.tag : d.tag[o] = d.tag[p] => o = p
  /\ DOMAIN d.rows = Tables
  /\ \A t \in Tables :
       /\ IsFiniteSet(d.rows[t])
       /\ \A r \in d.rows[t] : r = Row(r.track, r.of, r.n) /\ r.n \in Int /\ Resolves(d, t, r)
       /\ t \notin {"meta", "daily"} => \A r \in d.rows[t] : r.n = 0
       /\ \A r, q \in d.rows[t] : SameKey(r, q) => r = q
  /\ \A t \in NumberedTables : \A r \in d.rows[t] : r.of \in 1 .. d.next[t] - 1
  /\ d.removed \in Seq(ToSet(d.removed))

\* The time a track was listened to, counted day by day.
DailyTotal(d, id) == MapThenSumSet(LAMBDA r : r.n, RowsOf(d, "daily", id))
TotalsAgree(d) == \A id \in DOMAIN d.track : d.track[id].listened = DailyTotal(d, id)

-----------------------------------------------------------------------------
(* Tracks and tags.                                                        *)

\* INSERT INTO track_info of several rows: ids are drawn in order, never reused.
InsertTracks(d, names) ==
  LET first == d.next.track
      added == [id \in first .. first + Len(names) - 1 |->
                  [name |-> names[id - first + 1], listened |-> 0]]
  IN When(/\ \A i \in DOMAIN names : ~NameTaken(d, names[i], 0)
          /\ \A i, j \in DOMAIN names : names[i] = names[j] => i = j,
          d,
          [d EXCEPT !.track = [id \in DOMAIN @ \cup DOMAIN added |->
                                 IF id \in DOMAIN added THEN added[id] ELSE @[id]],
                    !.next.track = first + Len(names)])

BatchIdsFromLast(d, names) ==   \* mutant: counted from last_insert_rowid upwards
  LET last == d.next.track - 1 IN [k \in DOMAIN names |-> last + k - 1]
\* The ids of a batch, counted back from last_insert_rowid.
BatchIds(d, names) ==
  LET last == d.next.track - 1 IN [k \in DOMAIN names |-> last - (Len(names) - k)]

\* Updates of a track or a tag that is not there change nothing and succeed.
UpdateTrack(d, id, name) ==
  When(id \notin DOMAIN d.track \/ ~NameTaken(d, name, id), d,
       [d EXCEPT !.track = [o \in DOMAIN @ |->
                              IF o = id THEN [@[o] EXCEPT !.name = name] ELSE @[o]]])

\* DELETE FROM track_info: every table that refers to the track cascades.
DeleteTrackRow(d, id) ==
  Done([d EXCEPT !.track = [o \in DOMAIN @ \ {id} |-> @[o]],
                 !.rows = [t \in Tables |-> @[t] \ RowsOf(d, t, id)]])

TagNameTaken(d, name, id) == \E o \in DOMAIN d.tag \ {id} : d.tag[o] = name

AddTag(d, name) ==
  When(~TagNameTaken(d, name, 0), d,
       [d EXCEPT !.tag = [o \in DOMAIN @ \cup {d.next.tag} |->
                            IF o = d.next.tag THEN name ELSE @[o]],
                 !.next.tag = @ + 1])

EditTag(d, id, name) ==
  When(id \notin DOMAIN d.tag \/ ~TagNameTaken(d, name, id), d,
       [d EXCEPT !.tag = [o \in DOMAIN @ |-> IF o = id THEN name ELSE @[o]]])

DeleteTag(d, id) ==
  Done([d EXCEPT !.tag = [o \in DOMAIN @ \ {id} |-> @[o]],
                 !.rows.assignments = {r \in @ : r.of # id}])

-----------------------------------------------------------------------------
(* The tables that refer to a track.                                       *)

Clashes(d, t, r) == \E q \in d.rows[t] : SameKey(r, q)

\* INSERT of several rows: one bad row fails the statement.
InsertRows(d, t, new) ==
  When(/\ \A i \in DOMAIN new : Resolves(d, t, new[i]) /\ ~Clashes(d, t, new[i])
       /\ \A i, j \in DOMAIN new : SameKey(new[i], new[j]) => i = j,
       d, [d EXCEPT !.rows[t] = @ \cup ToSet(new)])

\* INSERT OR IGNORE skips a row that is there, not one that refers to nothing.
AssignTags(d, new) ==
  When(\A i \in DOMAIN new : Resolves(d, "assignments", new[i]),
       d, [d EXCEPT !.rows.assignments = @ \cup ToSet(new)])

\* INSERT of a row that gets an id of its own.
InsertNumbered(d, t, id, n) ==
  When(id \in DOMAIN d.track, d,
       [d EXCEPT !.rows[t] = @ \cup {Row(id, d.next[t], n)}, !.next[t] = @ + 1])

AddListen(d, id) == InsertNumbered(d, "listens", id, 0)
AddTrackSource(d, id, url) == InsertRows(d, "sources", <<Row(id, url, 0)>>)

DeleteRow(d, t, id, of) ==
  Done([d EXCEPT !.rows[t] = {r \in @ : ~(r.track = id /\ r.of = of)}])

RemoveTrackSource(d, id, url) == DeleteRow(d, "sources", id, url)

UpdateMeta(d, of, n) ==
  Done([d EXCEPT !.rows.meta = {IF r.of = of THEN [r EXCEPT !.n = n] ELSE r : r \in @}])

DeleteMeta(d, of) == Done([d EXCEPT !.rows.meta = {r \in @ : r.of # of}])

\* UPDATE track_info SET listened_seconds = listened_seconds + ?
AddToTotal(d, id, n) ==
  Done([d EXCEPT !.track = [o \in DOMAIN @ |->
                              IF o = id THEN [@[o] EXCEPT !.listened = d.track[o].listened + n] ELSE @[o]]])

DayOverwritten(d, id, day, n) ==   \* mutant: DO UPDATE SET listened = excluded.listened
  LET old == {r \in d.rows.daily : r.track = id /\ r.of = day}
  IN When(id \in DOMAIN d.track, d,
          [d EXCEPT !.rows.daily = (@ \ old) \cup {Row(id, day, n)}])
\* INSERT INTO listened_daily ... ON CONFLICT DO UPDATE
AddToDay(d, id, day, n) ==
  LET old == {r \in d.rows.daily : r.track = id /\ r.of = day}
  IN When(id \in DOMAIN d.track, d,
          [d EXCEPT !.rows.daily =
             (@ \ old) \cup {Row(id, day, n + (IF old = {} THEN 0 ELSE (CHOOSE r \in old : TRUE).n))}])

\* The record of a removed track, put together from what was read before.
Archive(d, read) == Done([d EXCEPT !.removed = Append(@, read)])

-----------------------------------------------------------------------------
(* Pages of the library.                                                   *)

\* A filter with one condition of each kind: names that match, tags of which one
\* and tags of which all must be assigned; {} and << >> stand for no condition.
\* "All" compares the tags found with the length of the list: a tag that is
\* listed twice is found once, and no track matches.
Matches(d, f, id) ==
  /\ f.names # {} => d.track[id].name \in f.names
  /\ f.anyTag # {} => TagsOf(d, id) \cap f.anyTag # {}
  /\ Cardinality(TagsOf(d, id) \cap ToSet(f.allTags)) = Len(f.allTags)

LowestBelow(S, cursor, n) ==   \* mutant: ascending order below the cursor
  LET B == {i \in S : i < cursor} IN {i \in B : Cardinality({j \in B : j < i}) < n}
\* The n members of S next to the cursor, below it and from it upwards; a
\* negative LIMIT is none.
Within(k, n) == n < 0 \/ k < n
Below(S, cursor, n) ==
  LET B == {i \in S : i < cursor} IN {i \in B : Within(Cardinality({j \in B : j > i}), n)}
From(S, cursor, n) ==
  LET A == {i \in S : i >= cursor} IN {i \in A : Within(Cardinality({j \in A : j < i}), n)}

\* The page of a filter as a set; its order is by id.
Matching(d, f) == {id \in DOMAIN d.track : Matches(d, f, id)}
Page(d, f, cursor, n) == Below(Matching(d, f), cursor, n) \cup From(Matching(d, f), cursor, n)

\* get_tracks: a condition on tags leaves WHERE empty, or one value short of
\* its placeholders, and the statement is refused.
BindsAll(f) == f.anyTag = {} /\ f.allTags = << >>
GetTracks(d, f) == When(BindsAll(f), d, d)

-----------------------------------------------------------------------------
(* Plain reads.                                                            *)

ListensForTrack(d, id) == RowsOf(d, "listens", id)
MetaForTrack(d, id) == RowsOf(d, "meta", id)
SourcesForTrack(d, id) == RowsOf(d, "sources", id)

\* The tags that a pattern fits; every tag fits when there is none.
Tags(d, pattern) == {id \in DOMAIN d.tag : pattern # {} => d.tag[id] \in pattern}

\* get_tracks_with_sources: the sources of the tracks on the page, then joined.
SourcesOfShown(d, shown) == {r \in d.rows.sources : r.track \in shown}
WithSources(shown, sources) ==
  {[track |-> id, urls |-> {r.of : r \in {s \in sources : s.track = id}}] : id \in shown}
=============================================================================
