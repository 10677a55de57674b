------------------------------ MODULE MCLibrary -----------------------------
(* Library for TLC: a library of two tracks, and commands that meet on them. *)
EXTENDS Library, TLC

MCDb ==
  LET tracks == InsertTracks(EmptyDb, <<"a", "b">>).db
      tagged == AssignTags(AddTag(AddTag(tracks, "x").db, "y").db, <<Row(1, 1, 0)>>).db
      noted == InsertNumbered(tagged, "meta", 1, 0).db
      heard == AddToDay(AddToTotal(noted, 1, 1).db, 1, "yesterday", 1).db
  IN InsertRows(heard, "sources", <<Row(1, "u", 0)>>).db

NoFilter == [names |-> {}, anyTag |-> {}, allTags |-> << >>]

\* Everything, what competes with it, and a bystander.
AllCommands ==
  {[do |-> "AddTrack", names |-> <<"c">>, urls |-> <<<<"u", "v">>>>],
   [do |-> "AddTrack", names |-> <<"c">>, urls |-> <<<<"u", "u">>>>],
   [do |-> "AddTrack", names |-> <<"c">>, urls |-> <<<<>>>>],
   [do |-> "AddTracks", names |-> <<"c", "d", "e">>, urls |-> <<<<"u">>, <<"u", "v">>, <<>>>>],
   [do |-> "AddTracks", names |-> <<"d", "e", "b">>, urls |-> <<<<>>, <<>>, <<>>>>],
   [do |-> "UpdateTrack", track |-> 1, name |-> "c"],
   [do |-> "GetTrack", track |-> 1],
   [do |-> "GetTracks", filter |-> [names |-> {}, anyTag |-> {1}, allTags |-> << >>], cursor |-> 0, limit |-> 1],
   [do |-> "GetTracksFiltered", filter |-> [names |-> {"a", "c"}, anyTag |-> {}, allTags |-> <<1>>], cursor |-> 2, limit |-> 2],
   [do |-> "GetTracksWithSources", filter |-> NoFilter, cursor |-> 0, limit |-> 3],
   [do |-> "GetListensForTrack", track |-> 1],
   [do |-> "GetTags", pattern |-> {}],
   [do |-> "GetTagsForTrack", track |-> 1],
   [do |-> "GetMetaForTrack", track |-> 1],
   [do |-> "GetSourcesForTrack", track |-> 1],
   [do |-> "DeleteTrack", track |-> 1],
   [do |-> "AssignTags", pairs |-> <<<<1, 2>>, <<2, 1>>, <<2, 2>>>>],
   [do |-> "AssignTag", pairs |-> <<<<1, 1>>>>],
   [do |-> "RemoveTag", track |-> 1, tag |-> 1],
   [do |-> "AddTag", name |-> "z"],
   [do |-> "EditTag", tag |-> 1, name |-> "z"],
   [do |-> "DeleteTag", tag |-> 1],
   [do |-> "AddMeta", track |-> 1, n |-> 1],
   [do |-> "AddListen", track |-> 1],
   [do |-> "UpdateMeta", id |-> 1, n |-> 1],
   [do |-> "DeleteMeta", id |-> 1],
   [do |-> "AddTrackSource", track |-> 1, url |-> "v"],
   [do |-> "RemoveTrackSource", track |-> 1, url |-> "u"],
   [do |-> "EditTrackSource", track |-> 1, url |-> "u", newUrl |-> "v"],
   [do |-> "AddListenedSeconds", track |-> 1, n |-> 1],
   [do |-> "ResetDatabase"]}

Rivals ==
  {cmd \in AllCommands :
     \/ cmd.do \in {"DeleteTrack", "EditTrackSource", "AddListenedSeconds"}
     \/ Panics(cmd)
     \/ cmd.do = "AddTracks" /\ "c" \in ToSet(cmd.names)}
Bystander == {cmd \in AllCommands : cmd.do \in {"AddListenedSeconds", "ResetDatabase"}}

CONSTANTS c1, c2, c3
MCRemote == {c2}
MCClient == {c1, c2, c3}
MCCommand == (c1 :> AllCommands) @@ (c2 :> Rivals) @@ (c3 :> Bystander)

\* Two pages, one of them of the tracks with a tag.
TwoPages ==
  [c \in MCClient |->
     CASE c = c1 -> {[do |-> "GetTracks", filter |-> NoFilter, cursor |-> 2, limit |-> 1]}
       [] c = c2 -> {[do |-> "GetTracks", filter |-> [NoFilter EXCEPT !.anyTag = {1}], cursor |-> 0, limit |-> 1]}
       [] c = c3 -> {}]
=============================================================================
