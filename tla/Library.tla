------------------------------- MODULE Library ------------------------------
(***************************************************************************)
(* The commands of the library from dispatch to the database: clients (the *)
(* Tauri window, websocket connections) run commands at the same time,     *)
(* each under a read lock on the repository (dispatch_with_core), on       *)
(* connections of one pool (SqliteRepository.pool), and SQLite lets one    *)
(* connection write at a time.  A command is a list of statements; several *)
(* commands wrap theirs in a transaction.  An error is also written to the *)
(* errors table, through a connection of its own (try_log), before it is   *)
(* returned.  ResetDatabase opens a file that is named by the second and   *)
(* swaps the repository under the write lock.                              *)
(*                                                                         *)
(* SQLite and the pool (sqlx) are external: deferred transactions over a   *)
(* rollback journal, or over a write-ahead log in test mode, and a wait    *)
(* for a lock or a connection that may time out.                           *)
(***************************************************************************)
EXTENDS LibraryCommands, FiniteSets

CONSTANTS Client,       \* the window of the application and its websocket connections
          Remote,       \* the websocket connections among them
          Command,      \* the commands each client may send
          StartDb,      \* the database the application starts with
          PoolSize,     \* connections of the pool
          MaxCalls      \* bound: commands of one client

ASSUME LibraryAssumption ==
  /\ PoolSize \in Nat \ {0}
  /\ MaxCalls \in Nat
  /\ Remote \subseteq Client
  /\ \A c \in Client : \A cmd \in Command[c] : IsCommand(cmd)
  /\ IsLibrary(StartDb) /\ TotalsAgree(StartDb)

VARIABLES
  is_test,  \* DbConfig.is_test
  db,       \* what is committed
  left,     \* connections that were closed while a command of theirs ran
  session,  \* what each client is doing
  reply,    \* the last answer each client got
  errors,   \* rows of the errors table
  last,     \* ListenGuard.last: the credit recorded less than 0.9 intervals ago, if any
  calls,    \* commands each client has sent
  file,     \* number of the database file in use
  shelf,    \* the files there are, by number, as they were when they were last put aside
  crowded   \* history: resets under way that have overlapped with another one

vars == <<is_test, db, left, session, reply, errors, last, calls, file, shelf, crowded>>
files == <<file, shelf, crowded>>

-----------------------------------------------------------------------------
(* Sessions, locks and the pool.                                           *)

NoCall == [do |-> "None"]
Idle == [phase |-> "idle", call |-> NoCall, pc |-> 1, lock |-> "none",
         work |-> EmptyDb, ids |-> << >>, read |-> << >>, file |-> 0]
NewFile == [db |-> EmptyDb, errors |-> 0]

Init ==
  /\ is_test \in BOOLEAN
  /\ db = StartDb /\ left = {}
  /\ session = [c \in Client |-> Idle]
  /\ reply = [c \in Client |-> [status |-> "none", ids |-> << >>, read |-> << >>]]
  /\ errors = 0 /\ last = 0 /\ calls = [c \in Client |-> 0]
  /\ file = 1 /\ shelf = <<[db |-> StartDb, errors |-> 0]>> /\ crowded = {}

Phase(c) == session[c].phase
Call(c) == session[c].call
Lock(c) == session[c].lock
Statement1(c) == Program(Call(c))[session[c].pc]
AllRun(c) == Over(Call(c), session[c].pc, session[c].read)

\* Commands that hold the repository's read lock.
Dispatched == {c \in Client : Phase(c) \in {"acquiring", "running", "failed", "logging"}}
Connected == {c \in Client : Phase(c) \in {"running", "failed"}}
PoolOneTooMany == Cardinality(Connected) <= PoolSize   \* mutant: off by one
PoolHasRoom == Cardinality(Connected) < PoolSize

\* One connection writes at a time.  A commit into the database file also
\* waits for every reader; one into the log does not.
Unreserved(c) == \A o \in Client \ {c} : Lock(o) # "reserved"
Alone(c) == \A o \in Client \ {c} : Lock(o) = "none"
MayCommit(c) == IF is_test THEN Unreserved(c) ELSE Alone(c)

Set(c, s) == session' = [session EXCEPT ![c] = s]
Answer(c, status, ids, read) ==
  /\ Set(c, Idle)
  /\ reply' = IF c \in left THEN reply
              ELSE [reply EXCEPT ![c] = [status |-> status, ids |-> ids, read |-> read]]
Say(c, status) == Answer(c, status, << >>, << >>)

-----------------------------------------------------------------------------
(* A command arrives.                                                      *)

\* ListenGuard::should_record, before anything is written.
ShouldRecord(cmd) == last = 0
CountCall(c) == calls[c] < MaxCalls /\ calls' = [calls EXCEPT ![c] = @ + 1]
Begin(c, cmd) == Set(c, [Idle EXCEPT !.phase = "acquiring", !.call = cmd])

NoWriterWaits == \A o \in Client : Phase(o) # "swapping"

Dispatch(c, cmd) ==
  /\ Phase(c) = "idle" /\ c \notin left /\ CountCall(c)
  /\ NoWriterWaits
  /\ cmd.do # "ResetDatabase" /\ ~Panics(cmd)
  /\ IF cmd.do # "AddListenedSeconds" THEN Begin(c, cmd) /\ UNCHANGED <<last, reply>>
     ELSE IF ShouldRecord(cmd) THEN Begin(c, cmd) /\ last' = cmd.track /\ UNCHANGED reply
     ELSE Say(c, "ignored") /\ UNCHANGED last
  /\ UNCHANGED <<is_test, left, db, errors, files>>

\* The task of the command dies, and with it the websocket connection: nobody is
\* answered, the window neither.
Panic(c, cmd) ==
  /\ Phase(c) = "idle" /\ c \notin left /\ CountCall(c)
  /\ NoWriterWaits
  /\ Panics(cmd)
  /\ left' = left \cup ({c} \cap Remote)
  /\ UNCHANGED <<is_test, db, session, reply, errors, last, files>>

\* 0.9 intervals have passed since the last recorded credit.
IntervalPasses ==
  /\ last # 0 /\ last' = 0
  /\ UNCHANGED <<is_test, left, db, session, reply, errors, calls, files>>

\* reset_database: sleep for two seconds, open a database, wait for the lock.
Resetting == {c \in Client : Phase(c) \in {"creating", "swapping"}}
ResetDatabase(c, cmd) ==
  /\ Phase(c) = "idle" /\ c \notin left /\ CountCall(c)
  /\ cmd.do = "ResetDatabase"
  /\ IF is_test
     THEN /\ Set(c, [Idle EXCEPT !.phase = "creating", !.call = cmd, !.file = Len(shelf)])
          /\ crowded' = IF Resetting = {} THEN crowded ELSE crowded \cup Resetting \cup {c}
          /\ UNCHANGED reply
     ELSE Say(c, "error") /\ UNCHANGED crowded
  /\ UNCHANGED <<is_test, left, db, errors, last, file, shelf>>

EndReset(c, status) == Say(c, status) /\ crowded' = crowded \ {c}
Open(c, f) ==
  /\ Set(c, [session[c] EXCEPT !.phase = "swapping", !.file = f])
  /\ UNCHANGED <<reply, crowded>>

\* The file is named by the second: a new one, or the one that another reset has
\* just named, since this one began to sleep; or it cannot be opened.
CreateRepo(c) ==
  /\ Phase(c) = "creating"
  /\ \/ Open(c, Len(shelf) + 1) /\ shelf' = Append(shelf, NewFile)
     \/ Len(shelf) > session[c].file /\ Open(c, Len(shelf)) /\ UNCHANGED shelf
     \/ EndReset(c, "error") /\ UNCHANGED shelf
  /\ UNCHANGED <<is_test, left, db, errors, last, calls, file>>

\* The database in use is put aside, the one that was opened comes into use.
Swap(c) ==
  /\ file' = session[c].file
  /\ shelf' = [shelf EXCEPT ![file] = [db |-> db, errors |-> errors]]
  /\ db' = shelf'[session[c].file].db /\ errors' = shelf'[session[c].file].errors
  /\ EndReset(c, "ok")
  /\ UNCHANGED <<is_test, left, last, calls>>
SwapUnderCommands(c) ==   \* mutant: the write lock does not wait for the readers
  Phase(c) = "swapping" /\ Swap(c)
SwapRepo(c) == Phase(c) = "swapping" /\ Dispatched = {} /\ Swap(c)

\* The websocket is closed: handle_connection notices when it sends the answer.
HangUp(c) ==
  /\ c \in Remote \ left /\ Phase(c) # "idle"
  /\ left' = left \cup {c}
  /\ UNCHANGED <<is_test, db, session, reply, errors, last, calls, files>>

-----------------------------------------------------------------------------
(* The command runs.                                                       *)

\* The error goes to try_log, with the transaction still open or dropped.
Dropped(c) == Set(c, [Idle EXCEPT !.phase = "logging", !.call = Call(c), !.read = session[c].read])
Failed(c, lock) ==
  IF Call(c).do \in LogsInside
  THEN Set(c, [session[c] EXCEPT !.phase = "failed", !.lock = lock])
  ELSE Dropped(c)

Acquire(c) ==
  /\ Phase(c) = "acquiring" /\ PoolHasRoom
  /\ Set(c, [session[c] EXCEPT !.phase = "running"])
  /\ UNCHANGED <<is_test, left, db, reply, errors, last, calls, files>>

AcquireTimesOut(c) ==
  /\ Phase(c) = "acquiring" /\ ~PoolHasRoom
  /\ Dropped(c)
  /\ UNCHANGED <<is_test, left, db, reply, errors, last, calls, files>>

\* mutant: the reads go to the pool instead of the transaction.
ReadsByThePool(c) == IF ReadsOnly(Statement1(c)) THEN Lock(c) ELSE "reserved"
\* The lock a statement of a transaction takes, and when it can have it: a
\* snapshot that is no longer the database cannot be written to.
LockFor(c) == IF ReadsOnly(Statement1(c)) THEN "shared" ELSE "reserved"
CanLock(c) ==
  LockFor(c) = "reserved" =>
    Unreserved(c) /\ (Lock(c) = "shared" => session[c].work = db)
View(c) == IF Lock(c) = "none" THEN db ELSE session[c].work

Statement(c) ==
  /\ Phase(c) = "running" /\ InTransaction(Call(c)) /\ ~AllRun(c) /\ CanLock(c)
  /\ LET s == session[c]
         out == Execute(Statement1(c), View(c), s.ids, s.read)
     IN IF out.ok
        THEN Set(c, [s EXCEPT !.pc = @ + 1, !.lock = LockFor(c), !.work = out.db,
                              !.ids = IdsAfter(Statement1(c), out.db, @),
                              !.read = ReadAfter(Statement1(c), View(c), @)])
        ELSE Failed(c, LockFor(c))
  /\ UNCHANGED <<is_test, left, db, reply, errors, last, calls, files>>

\* tx.commit()
Commit(c) ==
  /\ Phase(c) = "running" /\ InTransaction(Call(c)) /\ AllRun(c) /\ MayCommit(c)
  /\ db' = View(c)
  /\ Answer(c, "ok", session[c].ids, Shown(Call(c), session[c].read))
  /\ UNCHANGED <<is_test, left, errors, last, calls, files>>

\* A single statement commits by itself; the next one takes another connection.
Autocommit(c) ==
  /\ Phase(c) = "running" /\ ~InTransaction(Call(c)) /\ (ReadsOnly(Statement1(c)) \/ MayCommit(c))
  /\ LET s == session[c]
         out == Execute(Statement1(c), db, s.ids, s.read)
         read == ReadAfter(Statement1(c), db, s.read)
     IN /\ db' = out.db
        /\ IF ~out.ok THEN Failed(c, "none") /\ UNCHANGED reply
           ELSE IF Over(Call(c), s.pc + 1, read) THEN Answer(c, "ok", s.ids, Shown(Call(c), read))
           ELSE Set(c, [s EXCEPT !.phase = "acquiring", !.pc = @ + 1, !.read = read]) /\ UNCHANGED reply
  /\ UNCHANGED <<is_test, left, errors, last, calls, files>>

\* Somebody else keeps the lock: SQLITE_BUSY, at once or after busy_timeout.
Blocked(c) ==
  IF ~InTransaction(Call(c)) THEN ~MayCommit(c) /\ ~ReadsOnly(Statement1(c))
  ELSE IF AllRun(c) THEN ~MayCommit(c) ELSE ~CanLock(c)
Busy(c) ==
  /\ Phase(c) = "running" /\ Blocked(c)
  /\ IF AllRun(c) THEN Dropped(c) ELSE Failed(c, Lock(c))   \* tx.commit() consumes the transaction
  /\ UNCHANGED <<is_test, left, db, reply, errors, last, calls, files>>

\* try_log: INSERT INTO errors through the pool, whoever holds the lock, the
\* command's own transaction included.
CanLog(c) == PoolHasRoom /\ MayCommit(c) /\ Lock(c) # "reserved" /\ (Lock(c) = "shared" => is_test)
LogError(c) ==
  /\ Phase(c) \in {"failed", "logging"}
  /\ errors' = IF CanLog(c) THEN errors + 1 ELSE errors
  /\ Say(c, "error")
  /\ UNCHANGED <<is_test, left, db, last, calls, files>>

-----------------------------------------------------------------------------
Step(c) ==
  \/ CreateRepo(c) \/ SwapRepo(c)
  \/ Acquire(c) \/ AcquireTimesOut(c)
  \/ Statement(c) \/ Commit(c) \/ Autocommit(c) \/ Busy(c) \/ LogError(c)

Next ==
  \/ \E c \in Client : \E cmd \in Command[c] : Dispatch(c, cmd) \/ Panic(c, cmd) \/ ResetDatabase(c, cmd)
  \/ \E c \in Client : Step(c) \/ HangUp(c)
  \/ IntervalPasses

Spec == Init /\ [][Next]_vars

-----------------------------------------------------------------------------
(* Properties.                                                             *)

LockType == {"none", "shared", "reserved"}
TypeOK ==
  /\ \A c \in Client :
       /\ Phase(c) \in {"idle", "acquiring", "running", "failed", "logging", "creating", "swapping"}
       /\ Lock(c) \in LockType
       /\ Phase(c) = "idle" <=> Call(c) = NoCall
       /\ reply[c].status \in {"none", "ok", "error", "ignored"}
  /\ Cardinality(Connected) <= PoolSize
  /\ left \subseteq Remote
  /\ errors \in Nat /\ calls \in [Client -> 0 .. MaxCalls]

\* listened_seconds of a track is the sum of its daily counts: two statements
\* keep them, one of them may fail, the track may go in between.
TotalsAgreeWithDays == TotalsAgree(db)

\* What delete_track has read, table by table, is what is committed when it has
\* put it on record and removes the track: nobody has committed in between, or
\* the record was refused.
ReadsStayCurrent ==
  \A c \in Client : Call(c).do = "DeleteTrack" /\ Lock(c) = "reserved" =>
    \A t \in DOMAIN session[c].read : session[c].read[t] = Rows(db, t, Call(c).track)

FiltersChecked ==
  [names : {{}, {"a", "c"}}, anyTag : {{}, {1}}, allTags : {<< >>}]
    \cup [names : {{}}, anyTag : {{}}, allTags : {<<1>>}]

\* What get_tracks and get_tracks_filtered cut out of the matching ids in order is
\* a window around the cursor's place, in every library that the commands make:
\* n before it and n from it on, whether or not those fill the page.  A client
\* that goes on from the last id it was shown skips nothing, and is shown again
\* what came before: what sqlite.rs:627 and the tests say is PagesStartAtTheCursor.
PagesAreWindows ==
  \A f \in FiltersChecked, cursor \in {2, 4}, n \in 1 .. 2 :
    LET S == Matching(db, f)
        Rank(id) == Cardinality({o \in S : o < id})
    IN Page(db, f, cursor, n) = {id \in S : Rank(id) + n >= Rank(cursor) /\ Rank(id) < Rank(cursor) + n}

\* What the tests page through the library with (runPaginatedTest, testDb.tsx:49-69):
\* a get_tracks that reads the database, with or without a condition on tags, shows
\* the next tracks from the cursor on; oPrior fills the page only when those do not
\* (the comment at sqlite.rs:627).  The code refuses the condition on tags, and
\* always shows tracks from before the cursor.
PagesStartAtTheCursor ==
  [][\A c \in Client : Phase(c) = "running" /\ Call(c).do = "GetTracks" /\ session'[c] # session[c] =>
       LET cmd == Call(c)
           next == From(Matching(db, cmd.filter), cmd.cursor, cmd.limit)
       IN /\ reply'[c].status = "ok"
          /\ Cardinality(next) = cmd.limit => reply'[c].read["GetTracks"] = next]_vars

\* A track leaves the library with its name, time, sources, tags, notes and
\* daily counts on record as they were then, or with the whole file.  Its listens
\* (listen_info) go with it and are not on record.
DeletedTracksAreOnRecord ==
  [][\A id \in DOMAIN db.track \ DOMAIN db'.track :
       \/ file' # file
       \/ Last(db'.removed) = [t \in ToSet(Owned) |-> Rows(db, t, id)]]_vars

\* The ids add_track and add_tracks answer with name the new tracks, in the
\* order they were given in, whatever the batches were and whoever else adds.
AnsweredIdsNameTheTracks ==
  [][\A c \in Client : reply'[c] # reply[c] /\ Call(c).do \in {"AddTrack", "AddTracks"} /\ reply'[c].status = "ok" =>
       LET ids == reply'[c].ids
       IN /\ Len(ids) = Len(Call(c).names)
          /\ \A i \in DOMAIN ids : ids[i] \notin DOMAIN db.track /\ db'.track[ids[i]].name = Call(c).names[i]
          /\ \A i \in DOMAIN ids : {r.of : r \in RowsOf(db', "sources", ids[i])} = ToSet(Call(c).urls[i])]_vars

\* get_tracks_with_sources reads twice.  What it shows is of one database all
\* the same: the ids were drawn in the one that the sources are from, and a
\* track is shown with the sources it has, unless it has been removed.
ShownTracksAreOfOneDatabase ==
  [][\A c \in Client : reply'[c] # reply[c] /\ Call(c).do = "GetTracksWithSources" /\ reply'[c].status = "ok" =>
       \A t \in reply'[c].read.tracks :
         t.track < db.next.track /\ t.urls = {r.of : r \in RowsOf(db, "sources", t.track)}]_vars

\* Commands take effect one after the other, each as a whole or not at all,
\* whether or not the client is still there to be told; a reset that no other
\* has overlapped with leaves an empty library.
Service ==
  INSTANCE LibraryService WITH
    pending <- [c \in Client |-> Call(c)],
    seen <- [c \in Client |-> IF Call(c).do = "GetTracksWithSources" THEN session[c].read ELSE << >>],
    aside <- {EmptyDb} \cup {shelf[f].db : f \in DOMAIN shelf \ {file}}
RefinesService == Service!Spec
=============================================================================
