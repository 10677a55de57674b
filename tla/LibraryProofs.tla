---------------------------- MODULE LibraryProofs ---------------------------
(***************************************************************************)
(* Proofs about Library, for every set of clients and commands, pools and  *)
(* batches of any size and any library to begin with.                      *)
(***************************************************************************)
EXTENDS Library, LibraryDataProofs, SequenceTheorems

(***************************************************************************)
(* The inductive invariant: how far a session can be with the lock it has. *)
(***************************************************************************)
\* Nothing has been executed, or the page of get_tracks_with_sources was read.
Fresh(pc, read) == pc = 1 /\ read = << >>
PageRead(call, pc) == call.do = "GetTracksWithSources" /\ pc = 2

\* delete_track reads under a shared lock and writes under a reserved one; the
\* other transactions begin with a write.
Reading(call, pc) == call.do = "DeleteTrack" /\ pc \in 2 .. 6
Writing(call, pc) ==
  IF call.do = "DeleteTrack" THEN pc \in {7, 8} ELSE pc \in Nat /\ pc > 1

Served == {"acquiring", "running", "failed", "logging"}
Holds(phase, call, pc, lock, read) ==
  /\ \/ phase = "idle" /\ call = NoCall
     \/ phase \in {"creating", "swapping"} /\ call.do = "ResetDatabase"
     \/ phase \in Served /\ IsCommand(call) /\ call.do # "ResetDatabase"
  /\ lock \in LockType
  /\ lock # "none" => phase \in {"running", "failed"} /\ InTransaction(call)
  /\ phase \in {"acquiring", "running"} =>
       /\ lock = "none" => Fresh(pc, read) \/ PageRead(call, pc)
       /\ lock = "shared" => Reading(call, pc)
       /\ lock = "reserved" => Writing(call, pc)
  /\ phase = "failed" => call.do \in LogsInside

Fields == {"phase", "call", "pc", "lock", "work", "ids", "read", "file"}
IsRecord(s) == DOMAIN s = Fields /\ s = [f \in Fields |-> s[f]]
IsSession(s) == IsRecord(s) /\ Holds(s.phase, s.call, s.pc, s.lock, s.read)

Sessions ==
  /\ session = [c \in Client |-> session[c]]
  /\ \A c \in Client : IsSession(session[c])

\* One connection writes at a time.
OneWriter == \A c, o \in Client : Lock(c) = "reserved" /\ Lock(o) = "reserved" => c = o

\* What delete_track has read is of its snapshot, and of the database once it
\* may write.
ReadSoFar(s) == {Owned[i] : i \in 1 .. s.pc - 1}
Snapshots ==
  \A c \in Client : Phase(c) = "running" /\ Call(c).do = "DeleteTrack" =>
    LET s == session[c]
    IN /\ Lock(c) = "shared" =>
            s.read = [t \in ReadSoFar(s) |-> Rows(s.work, t, s.call.track)]
       /\ Lock(c) = "reserved" =>
            s.read = [t \in ToSet(Owned) |-> Rows(db, t, s.call.track)]

\* A transaction's own copy is a library too, in which the counts of listened
\* time agree but between the two statements of a credit.
Copy(s) ==
  /\ IsLibrary(s.work)
  /\ IF s.call.do = "AddListenedSeconds" /\ s.pc = 2
     THEN TotalsAhead(s.work, s.call.track, s.call.n)
     ELSE TotalsAgree(s.work)

\* What a writing transaction has made of the database d: delete_track has put
\* the record in and taken the track out, the others have only added.
Ahead(d, s) ==
  IF s.call.do = "DeleteTrack"
  THEN /\ s.work.removed = Append(d.removed, s.read) /\ s.work.next = d.next
       /\ DOMAIN s.work.track = DOMAIN d.track \ (IF s.pc = 8 THEN {s.call.track} ELSE {})
  ELSE Keeps(d, s.work)

Copies ==
  /\ IsLibrary(db) /\ TotalsAgree(db)
  /\ \A f \in 1 .. Len(shelf) : IsLibrary(shelf[f].db) /\ TotalsAgree(shelf[f].db)
  /\ \A c \in Client : Phase(c) = "running" /\ Lock(c) # "none" =>
       Copy(session[c]) /\ (Lock(c) = "reserved" => Ahead(db, session[c]))

\* The page that was read is of ids that have been drawn.
Pages ==
  \A c \in Client : Phase(c) \in {"acquiring", "running"} /\ PageRead(Call(c), session[c].pc) =>
    /\ DOMAIN session[c].read = {"GetTracks"}
    /\ session[c].read["GetTracks"] # {}
    /\ session[c].read["GetTracks"] \subseteq 1 .. db.next.track - 1

\* The files are numbered as they were made, the one in use and the ones that
\* resets have opened among them.
IsShelf(sh) == Len(sh) \in Nat /\ sh = [f \in 1 .. Len(sh) |-> sh[f]]
Shelf ==
  /\ IsShelf(shelf) /\ file \in 1 .. Len(shelf)
  /\ \A f \in 1 .. Len(shelf) : shelf[f].errors \in Nat
  /\ \A c \in Client : Phase(c) = "swapping" => session[c].file \in 1 .. Len(shelf)

Pool == IsFiniteSet(Connected) /\ Cardinality(Connected) <= PoolSize
Rest ==
  /\ \A c \in Client : reply[c].status \in {"none", "ok", "error", "ignored"}
  /\ reply = [c \in Client |-> reply[c]]
  /\ left \subseteq Remote /\ errors \in Nat /\ calls \in [Client -> 0 .. MaxCalls]

-----------------------------------------------------------------------------
(* The statement that a session executes next.                             *)

\* The statement that comes next: delete_track reads first and then writes, the
\* other transactions write.
LEMMA NextStatement ==
  ASSUME NEW s, IsSession(s), s.phase = "running", InTransaction(s.call), ~Over(s.call, s.pc, s.read)
  PROVE  LET st == Program(s.call)[s.pc]
         IN /\ s.call.do = "DeleteTrack" =>
                 /\ s.pc \in 1 .. 7 /\ (ReadsOnly(st) <=> s.pc < 6)
                 /\ s.pc < 6 => st = [do |-> "Read", table |-> Owned[s.pc], track |-> s.call.track]
                 /\ s.pc = 6 => st = [do |-> "Archive", track |-> s.call.track]
                 /\ s.pc = 7 => st = [do |-> "DeleteTrackRow", track |-> s.call.track]
            /\ s.call.do # "DeleteTrack" => st \in Write /\ s.pc \in Nat /\ s.pc > 0
            /\ s.call.do \notin {"DeleteTrack", "AddListenedSeconds"} => st \notin Credit
            /\ s.call.do = "AddListenedSeconds" =>
                 /\ s.pc \in {1, 2} /\ st \in Credit /\ st.track = s.call.track /\ st.n = s.call.n
                 /\ st.do = IF s.pc = 1 THEN "AddToTotal" ELSE "AddToDay"
<1>1. s.call.do # "GetTracksWithSources" /\ ~(s.pc > Len(Program(s.call)))
  BY DEF Over, InTransaction, LogsInside
<1>2. IsCommand(s.call)
  BY DEF IsSession, Holds, NoCall, InTransaction, LogsInside
<1>3. s.pc \in Nat /\ s.pc > 0 /\ (s.call.do = "DeleteTrack" => s.pc \in 1 .. 8)
  BY <1>1 DEF IsSession, Holds, Fresh, PageRead, Reading, Writing, LockType
<1>4. CASE s.call.do = "DeleteTrack"
  <2> DEFINE p == Program(s.call)
  <2>1. /\ Len(p) = 7
        /\ \A i \in 1 .. 5 : p[i] = [do |-> "Read", table |-> Owned[i], track |-> s.call.track]
        /\ p[6] = [do |-> "Archive", track |-> s.call.track]
        /\ p[7] = [do |-> "DeleteTrackRow", track |-> s.call.track]
    BY <1>4, DeleteProgram, Zenon
  <2> HIDE DEF p
  <2>2. ~(s.pc > Len(p))
    BY <1>1 DEF p
  <2>3. s.pc \in 1 .. 7
    BY <1>3, <1>4, <2>1, <2>2
  <2>4. /\ s.pc < 6 => p[s.pc] = [do |-> "Read", table |-> Owned[s.pc], track |-> s.call.track]
        /\ s.pc = 6 => p[s.pc] = [do |-> "Archive", track |-> s.call.track]
        /\ s.pc = 7 => p[s.pc] = [do |-> "DeleteTrackRow", track |-> s.call.track]
    BY <2>1, <2>3
  <2>5. ReadsOnly(p[s.pc]) <=> s.pc < 6
    BY <2>3, <2>4 DEF ReadsOnly, Reads
  <2>6. QED BY <1>4, <2>3, <2>4, <2>5 DEF p
<1>5. CASE s.call.do \notin {"DeleteTrack", "AddListenedSeconds"}
  <2>1. Program(s.call) \in Seq(Edit)
    BY <1>2, <1>5, WriterPrograms
  <2>2. Program(s.call)[s.pc] \in Edit
    BY <1>1, <1>3, <2>1
  <2>3. \A st \in Edit : st \in Write /\ st \notin Credit
    BY DEF Write, Edit, InsertOfTracks, InsertOfSources, Assignment, SourceEdit, Credit
  <2>4. QED BY <1>3, <1>5, <2>2, <2>3
<1>6. CASE s.call.do = "AddListenedSeconds"
  <2> DEFINE p == Program(s.call)
  <2>1. /\ Len(p) = 2
        /\ p[1] = [do |-> "AddToTotal", track |-> s.call.track, n |-> s.call.n]
        /\ p[2] = [do |-> "AddToDay", track |-> s.call.track, n |-> s.call.n]
    BY <1>6, CreditProgram, Zenon
  <2> HIDE DEF p
  <2>2. ~(s.pc > Len(p))
    BY <1>1 DEF p
  <2>3. s.pc \in {1, 2}
    BY <1>3, <2>1, <2>2
  <2>4. s.call.track \in Int /\ s.call.n \in Int
    BY <1>2, <1>6 DEF IsCommand, OfOneTrack
  <2>5. p[s.pc] \in Credit /\ p[s.pc] \in Write
    BY <2>1, <2>3, <2>4 DEF Credit, Write
  <2>6. p[s.pc].track = s.call.track /\ p[s.pc].n = s.call.n /\ p[s.pc].do = IF s.pc = 1 THEN "AddToTotal" ELSE "AddToDay"
    BY <2>1, <2>3
  <2>7. QED BY <1>3, <1>6, <2>3, <2>5, <2>6 DEF p
<1>7. QED BY <1>4, <1>5, <1>6

-----------------------------------------------------------------------------
(* What an action leaves in a session is a session again.                  *)

LEMMA IdleIs == IsSession(Idle)
<1>1. IsRecord(Idle) /\ Idle.phase = "idle" /\ Idle.call = NoCall /\ Idle.lock = "none"
  BY DEF IsRecord, Idle, Fields
<1>2. QED BY <1>1 DEF IsSession, Holds, LockType, NoCall, Served

LEMMA BeginIs ==
  ASSUME NEW cmd, IsCommand(cmd), cmd.do # "ResetDatabase"
  PROVE  IsSession([Idle EXCEPT !.phase = "acquiring", !.call = cmd])
<1> DEFINE t == [Idle EXCEPT !.phase = "acquiring", !.call = cmd]
<1>1. IsRecord(t) /\ t.phase = "acquiring" /\ t.call = cmd /\ t.pc = 1 /\ t.lock = "none" /\ t.read = << >>
  BY DEF IsRecord, Idle, Fields
<1> HIDE DEF t
<1>2. Holds("acquiring", cmd, 1, "none", << >>)
  BY DEF Holds, LockType, Served, Fresh
<1>3. IsSession(t)
  BY <1>1, <1>2 DEF IsSession
<1>4. QED BY <1>3 DEF t

LEMMA ResetIs ==
  ASSUME NEW cmd, cmd.do = "ResetDatabase", NEW f
  PROVE  IsSession([Idle EXCEPT !.phase = "creating", !.call = cmd, !.file = f])
<1> DEFINE t == [Idle EXCEPT !.phase = "creating", !.call = cmd, !.file = f]
<1>1. IsRecord(t) /\ t.phase = "creating" /\ t.call = cmd /\ t.lock = "none"
  BY DEF IsRecord, Idle, Fields
<1> HIDE DEF t
<1>2. Holds(t.phase, t.call, t.pc, t.lock, t.read)
  BY <1>1 DEF Holds, LockType, Served
<1>3. IsSession(t)
  BY <1>1, <1>2 DEF IsSession
<1>4. QED BY <1>3 DEF t

LEMMA DroppedIs ==
  ASSUME NEW s, IsSession(s), s.phase \in Served
  PROVE  IsSession([Idle EXCEPT !.phase = "logging", !.call = s.call, !.read = s.read])
<1> DEFINE t == [Idle EXCEPT !.phase = "logging", !.call = s.call, !.read = s.read]
<1>1. IsRecord(t) /\ t.phase = "logging" /\ t.call = s.call /\ t.lock = "none"
  BY DEF IsRecord, Idle, Fields
<1> HIDE DEF t
<1>2. IsCommand(s.call) /\ s.call.do # "ResetDatabase"
  BY DEF IsSession, Holds, Served
<1>3. Holds(t.phase, t.call, t.pc, t.lock, t.read)
  BY <1>1, <1>2 DEF Holds, LockType, Served
<1>4. IsSession(t)
  BY <1>1, <1>3 DEF IsSession
<1>5. QED BY <1>4 DEF t

LEMMA FailedIs ==
  ASSUME NEW s, IsSession(s), s.phase = "running", s.call.do \in LogsInside, NEW l \in LockType,
         l # "none" => InTransaction(s.call)
  PROVE  IsSession([s EXCEPT !.phase = "failed", !.lock = l])
<1> DEFINE t == [s EXCEPT !.phase = "failed", !.lock = l]
<1>1. IsRecord(t) /\ t.phase = "failed" /\ t.call = s.call /\ t.lock = l
  BY DEF IsSession, IsRecord, Fields
<1> HIDE DEF t
<1>2. IsCommand(s.call) /\ s.call.do # "ResetDatabase"
  BY DEF IsSession, Holds, Served
<1>3. Holds(t.phase, t.call, t.pc, t.lock, t.read)
  BY <1>1, <1>2 DEF Holds, Served
<1>4. IsSession(t)
  BY <1>1, <1>3 DEF IsSession
<1>5. QED BY <1>4 DEF t

Opening(s, f) == [s EXCEPT !.phase = "swapping", !.file = f]
LEMMA OpenIs ==
  ASSUME NEW s, IsSession(s), s.phase = "creating", NEW f
  PROVE  LET t == Opening(s, f)
         IN /\ IsSession(t) /\ t.phase = "swapping" /\ t.call = s.call /\ t.lock = "none"
            /\ t.read = s.read /\ t.file = f
<1> DEFINE t == Opening(s, f)
<1>1. IsRecord(t) /\ t.phase = "swapping" /\ t.call = s.call /\ t.pc = s.pc /\ t.lock = s.lock /\ t.read = s.read /\ t.file = f
  BY DEF IsSession, IsRecord, Fields, Opening
<1> HIDE DEF t
<1>2. Holds("swapping", s.call, s.pc, s.lock, s.read) /\ s.lock = "none"
  BY DEF IsSession, Holds, Served, LockType
<1>3. IsSession(t)
  BY <1>1, <1>2 DEF IsSession
<1>4. QED BY <1>1, <1>2, <1>3 DEF t

LEMMA AcquiredIs ==
  ASSUME NEW s, IsSession(s), s.phase = "acquiring"
  PROVE  IsSession([s EXCEPT !.phase = "running"])
<1> DEFINE t == [s EXCEPT !.phase = "running"]
<1>1. IsRecord(t) /\ t.phase = "running" /\ t.call = s.call /\ t.pc = s.pc /\ t.lock = s.lock /\ t.read = s.read
  BY DEF IsSession, IsRecord, Fields
<1> HIDE DEF t
<1>2. Holds("running", s.call, s.pc, s.lock, s.read)
  BY DEF IsSession, Holds, Served
<1>3. IsSession(t)
  BY <1>1, <1>2 DEF IsSession
<1>4. QED BY <1>3 DEF t

LEMMA SecondIs ==
  ASSUME NEW s, IsSession(s), s.phase = "running", s.call.do = "GetTracksWithSources", s.pc = 1, NEW read
  PROVE  IsSession([s EXCEPT !.phase = "acquiring", !.pc = @ + 1, !.read = read])
<1> DEFINE t == [s EXCEPT !.phase = "acquiring", !.pc = @ + 1, !.read = read]
<1>1. IsRecord(t) /\ t.phase = "acquiring" /\ t.call = s.call /\ t.pc = s.pc + 1 /\ t.lock = s.lock
  BY DEF IsSession, IsRecord, Fields
<1> HIDE DEF t
<1>2. Holds(t.phase, t.call, t.pc, t.lock, t.read)
  BY <1>1 DEF IsSession, Holds, Served, Fresh, PageRead, InTransaction, LogsInside
<1>3. IsSession(t)
  BY <1>1, <1>2 DEF IsSession
<1>4. QED BY <1>3 DEF t

LEMMA StatementIs ==
  ASSUME NEW s, IsSession(s), s.phase = "running", InTransaction(s.call), ~Over(s.call, s.pc, s.read),
         NEW l, l = IF ReadsOnly(Program(s.call)[s.pc]) THEN "shared" ELSE "reserved",
         NEW work, NEW ids, NEW read
  PROVE  IsSession([s EXCEPT !.pc = @ + 1, !.lock = l, !.work = work, !.ids = ids, !.read = read])
<1> DEFINE t == [s EXCEPT !.pc = @ + 1, !.lock = l, !.work = work, !.ids = ids, !.read = read]
<1>1. IsRecord(t) /\ t.phase = "running" /\ t.call = s.call /\ t.pc = s.pc + 1 /\ t.lock = l
  BY DEF IsSession, IsRecord, Fields
<1> HIDE DEF t
<1>2. IsCommand(s.call) /\ s.call.do # "ResetDatabase"
  BY DEF IsSession, Holds, Served
<1>3. Holds("running", s.call, s.pc + 1, l, t.read)
  <2>1. CASE s.call.do = "DeleteTrack"
    <3>1. s.pc \in 1 .. 7 /\ l = IF s.pc < 6 THEN "shared" ELSE "reserved"
      BY <2>1, NextStatement
    <3>2. QED BY <1>2, <2>1, <3>1 DEF Holds, Served, LockType, Reading, Writing
  <2>2. CASE s.call.do # "DeleteTrack"
    <3>1. l = "reserved" /\ s.pc \in Nat /\ s.pc > 0
      BY <2>2, NextStatement, WritesAreNoReads
    <3>2. QED BY <1>2, <2>2, <3>1 DEF Holds, Served, LockType, Reading, Writing
  <2>3. QED BY <2>1, <2>2
<1>4. IsSession(t)
  BY <1>1, <1>3 DEF IsSession
<1>5. QED BY <1>4 DEF t

-----------------------------------------------------------------------------
(* Sessions are kept by every step.                                        *)

LEMMA SetOne ==
  ASSUME Sessions, NEW c \in Client, NEW s, Set(c, s)
  PROVE  /\ session'[c] = s
         /\ \A o \in Client \ {c} : session'[o] = session[o]
         /\ session' = [o \in Client |-> session'[o]]
BY DEF Sessions, Set

LEMMA SetSession ==
  ASSUME Sessions, NEW c \in Client, NEW s, Set(c, s), IsSession(s)
  PROVE  Sessions'
<1>1. /\ session'[c] = s
      /\ \A o \in Client \ {c} : session'[o] = session[o]
      /\ session' = [o \in Client |-> session'[o]]
  BY SetOne
<1>2. \A o \in Client : IsSession(session'[o])
  BY <1>1 DEF Sessions
<1>3. QED BY <1>1, <1>2 DEF Sessions

LEMMA DroppedKeeps ==
  ASSUME Sessions, NEW c \in Client, Phase(c) \in Served, Dropped(c)
  PROVE  Sessions'
<1>1. IsSession(session[c]) /\ session[c].phase \in Served
  BY DEF Sessions, Phase
<1>2. IsSession([Idle EXCEPT !.phase = "logging", !.call = Call(c), !.read = session[c].read])
  BY <1>1, DroppedIs DEF Call
<1>3. QED BY <1>2, SetSession DEF Dropped

LEMMA FailedKeeps ==
  ASSUME Sessions, NEW c \in Client, Phase(c) = "running", NEW l \in LockType,
         l # "none" => InTransaction(Call(c)), Failed(c, l)
  PROVE  Sessions'
<1>1. IsSession(session[c]) /\ session[c].phase = "running"
  BY DEF Sessions, Phase
<1>2. CASE Call(c).do \in LogsInside
  <2>1. IsSession([session[c] EXCEPT !.phase = "failed", !.lock = l])
    BY <1>1, <1>2, FailedIs DEF Call
  <2>2. QED BY <1>2, <2>1, SetSession DEF Failed
<1>3. CASE Call(c).do \notin LogsInside
  BY <1>1, <1>3, DroppedKeeps DEF Failed, Phase, Served
<1>4. QED BY <1>2, <1>3

\* Creating a file moves the session on to it, or ends it with an error.
LEMMA CreateMoves ==
  ASSUME NEW c \in Client, CreateRepo(c)
  PROVE  /\ Phase(c) = "creating"
         /\ \/ Set(c, Idle)
            \/ \E f : Set(c, Opening(session[c], f))
BY DEF CreateRepo, Open, EndReset, Say, Answer, Opening

\* Outside a transaction only get_tracks_with_sources goes on, and only once.
LEMMA OnlyPagesGoOn ==
  ASSUME NEW cmd, ~InTransaction(cmd), NEW pc \in {1, 2}, NEW read, ~Over(cmd, pc + 1, read)
  PROVE  cmd.do = "GetTracksWithSources" /\ pc = 1
<1>1. ~(pc + 1 > Len(Program(cmd)))
  BY DEF Over
<1>2. CASE cmd.do = "GetTracksWithSources"
  <2>1. Len(Program(cmd)) = 2
    BY <1>2, PagesProgram
  <2>2. QED BY <1>1, <1>2, <2>1
<1>3. CASE cmd.do # "GetTracksWithSources"
  <2>1. Len(Program(cmd)) = 1
    BY <1>3, SingleProgram
  <2>2. QED BY <1>1, <2>1
<1>4. QED BY <1>2, <1>3

LEMMA StepKeepsSessions ==
  ASSUME Sessions, NEW c \in Client, Step(c)
  PROVE  Sessions'
<1> DEFINE s == session[c]
<1>1. IsSession(s)
  BY DEF Sessions
<1>2. CASE CreateRepo(c)
  <2>1. s.phase = "creating"
    BY <1>2, CreateMoves DEF Phase
  <2>2. \A f : IsSession(Opening(s, f))
    BY <1>1, <2>1, OpenIs
  <2>3. QED BY <1>2, <2>2, CreateMoves, IdleIs, SetSession
<1>3. CASE SwapRepo(c)
  BY <1>3, IdleIs, SetSession DEF SwapRepo, Swap, EndReset, Say, Answer
<1>4. CASE Acquire(c)
  BY <1>1, <1>4, AcquiredIs, SetSession DEF Acquire, Phase
<1>5. CASE AcquireTimesOut(c)
  BY <1>5, DroppedKeeps DEF AcquireTimesOut, Served
<1>6. CASE Statement(c)
  <2>1. Phase(c) = "running" /\ InTransaction(Call(c)) /\ ~Over(s.call, s.pc, s.read)
    BY <1>6 DEF Statement, AllRun, Call
  <2>2. LockFor(c) = (IF ReadsOnly(Program(s.call)[s.pc]) THEN "shared" ELSE "reserved") /\ LockFor(c) \in LockType
    BY DEF LockFor, Statement1, Call, LockType
  <2>3. \/ Failed(c, LockFor(c))
        \/ \E work, ids, read :
             Set(c, [s EXCEPT !.pc = @ + 1, !.lock = LockFor(c), !.work = work, !.ids = ids, !.read = read])
    BY <1>6 DEF Statement
  <2>4. CASE Failed(c, LockFor(c))
    BY <2>1, <2>2, <2>4, FailedKeeps
  <2>5. ASSUME NEW work, NEW ids, NEW read,
               Set(c, [s EXCEPT !.pc = @ + 1, !.lock = LockFor(c), !.work = work, !.ids = ids, !.read = read])
        PROVE  Sessions'
    <3>1. IsSession([s EXCEPT !.pc = @ + 1, !.lock = LockFor(c), !.work = work, !.ids = ids, !.read = read])
      BY <1>1, <2>1, <2>2, StatementIs DEF Phase, Call
    <3>2. QED BY <2>5, <3>1, SetSession
  <2>6. QED BY <2>3, <2>4, <2>5
<1>7. CASE Commit(c)
  BY <1>7, IdleIs, SetSession DEF Commit, Answer
<1>8. CASE Autocommit(c)
  <2>1. Phase(c) = "running" /\ ~InTransaction(Call(c))
    BY <1>8 DEF Autocommit
  <2>2. \/ Failed(c, "none")
        \/ Set(c, Idle)
        \/ \E read : /\ ~Over(Call(c), s.pc + 1, read)
                     /\ Set(c, [s EXCEPT !.phase = "acquiring", !.pc = @ + 1, !.read = read])
    BY <1>8 DEF Autocommit, Answer
  <2>3. CASE Failed(c, "none")
    BY <2>1, <2>3, FailedKeeps DEF LockType
  <2>4. CASE Set(c, Idle)
    BY <2>4, IdleIs, SetSession
  <2>5. ASSUME NEW read, ~Over(Call(c), s.pc + 1, read),
               Set(c, [s EXCEPT !.phase = "acquiring", !.pc = @ + 1, !.read = read])
        PROVE  Sessions'
    <3>1. s.pc \in {1, 2} /\ s.lock = "none"
      BY <1>1, <2>1 DEF IsSession, Holds, Fresh, PageRead, Phase, Call, LockType
    <3>2. Call(c).do = "GetTracksWithSources" /\ s.pc = 1
      BY <2>1, <2>5, <3>1, OnlyPagesGoOn
    <3>3. IsSession([s EXCEPT !.phase = "acquiring", !.pc = @ + 1, !.read = read])
      BY <1>1, <2>1, <3>2, SecondIs DEF Phase, Call
    <3>4. QED BY <2>5, <3>3, SetSession
  <2>6. QED BY <2>2, <2>3, <2>4, <2>5
<1>9. CASE Busy(c)
  <2>1. Phase(c) = "running" /\ (Failed(c, Lock(c)) \/ Dropped(c))
    BY <1>9 DEF Busy
  <2>2. Lock(c) \in LockType /\ (Lock(c) # "none" => InTransaction(Call(c)))
    BY <1>1 DEF IsSession, Holds, Lock, Call
  <2>3. QED BY <2>1, <2>2, FailedKeeps, DroppedKeeps DEF Served
<1>10. CASE LogError(c)
  BY <1>10, IdleIs, SetSession DEF LogError, Say, Answer
<1>11. QED BY <1>2, <1>3, <1>4, <1>5, <1>6, <1>7, <1>8, <1>9, <1>10 DEF Step

LEMMA SessionsStay ==
  ASSUME Sessions, [Next]_vars
  PROVE  Sessions'
<1>1. ASSUME NEW c \in Client, NEW cmd \in Command[c], Dispatch(c, cmd) PROVE Sessions'
  <2>1. IsCommand(cmd) /\ cmd.do # "ResetDatabase"
    BY <1>1, LibraryAssumption DEF Dispatch
  <2>2. Set(c, Idle) \/ Set(c, [Idle EXCEPT !.phase = "acquiring", !.call = cmd])
    BY <1>1 DEF Dispatch, Begin, Say, Answer
  <2>3. QED BY <2>1, <2>2, IdleIs, BeginIs, SetSession
<1>2. ASSUME NEW c \in Client, NEW cmd \in Command[c], ResetDatabase(c, cmd) PROVE Sessions'
  <2>1. cmd.do = "ResetDatabase"
    BY <1>2 DEF ResetDatabase
  <2>2. Set(c, Idle) \/ Set(c, [Idle EXCEPT !.phase = "creating", !.call = cmd, !.file = Len(shelf)])
    BY <1>2 DEF ResetDatabase, Say, Answer
  <2>3. QED BY <2>1, <2>2, IdleIs, ResetIs, SetSession
<1>3. CASE UNCHANGED session
  BY <1>3 DEF Sessions
<1>4. QED BY <1>1, <1>2, <1>3, StepKeepsSessions DEF Next, Panic, HangUp, IntervalPasses, vars

-----------------------------------------------------------------------------
(* Locks and connections.                                                  *)

\* What a step of c does to its own lock and connection, and to the others.
OthersRest(c) == \A o \in Client \ {c} : session'[o] = session[o]
LocksMove(c) ==
  /\ OthersRest(c)
  /\ session'[c].phase \in {"running", "failed"} => c \in Connected \/ PoolHasRoom
  /\ session'[c].lock = "reserved" => Lock(c) = "reserved" \/ Unreserved(c)

LEMMA UnlockedMoves ==
  ASSUME Sessions, NEW c \in Client, NEW s, Set(c, s), s.lock # "reserved",
         s.phase \in {"running", "failed"} => c \in Connected \/ PoolHasRoom
  PROVE  LocksMove(c)
BY SetOne DEF LocksMove, OthersRest

LEMMA IdleMoves == ASSUME Sessions, NEW c \in Client, Set(c, Idle) PROVE LocksMove(c)
<1>1. Idle.lock = "none" /\ Idle.phase = "idle"
  BY DEF Idle
<1>2. QED BY <1>1, UnlockedMoves

LEMMA DroppedMoves == ASSUME Sessions, NEW c \in Client, Dropped(c) PROVE LocksMove(c)
<1> DEFINE t == [Idle EXCEPT !.phase = "logging", !.call = Call(c), !.read = session[c].read]
<1>1. Set(c, t)
  BY DEF Dropped
<1>2. t.lock = "none" /\ t.phase = "logging"
  BY DEF Idle
<1> HIDE DEF t
<1>3. QED BY <1>1, <1>2, UnlockedMoves

LEMMA FailedMoves ==
  ASSUME Sessions, NEW c \in Client, Phase(c) = "running", NEW l, Failed(c, l),
         l = "reserved" => Lock(c) = "reserved" \/ Unreserved(c)
  PROVE  LocksMove(c)
<1>1. c \in Connected
  BY DEF Connected
<1>2. CASE Call(c).do \in LogsInside
  <2> DEFINE t == [session[c] EXCEPT !.phase = "failed", !.lock = l]
  <2>1. Set(c, t)
    BY <1>2 DEF Failed
  <2>2. t.lock = l
    BY DEF Sessions, IsSession, IsRecord, Fields
  <2> HIDE DEF t
  <2>3. session'[c] = t /\ OthersRest(c)
    BY <2>1, SetOne DEF OthersRest
  <2>4. QED BY <1>1, <2>2, <2>3 DEF LocksMove
<1>3. CASE Call(c).do \notin LogsInside
  BY <1>3, DroppedMoves DEF Failed
<1>4. QED BY <1>2, <1>3

LEMMA StepMoves ==
  ASSUME Sessions, NEW c \in Client, Step(c)
  PROVE  LocksMove(c)
<1> DEFINE s == session[c]
<1>1. DOMAIN s = Fields
  BY DEF Sessions, IsSession, IsRecord
<1>2. CASE CreateRepo(c)
  <2>1. IsSession(s) /\ s.phase = "creating"
    BY <1>2, CreateMoves DEF Sessions, Phase
  <2>2. CASE Set(c, Idle)
    BY <2>2, IdleMoves
  <2>3. ASSUME NEW f, Set(c, Opening(s, f)) PROVE LocksMove(c)
    <3> DEFINE t == Opening(s, f)
    <3>1. t.lock = "none" /\ t.phase = "swapping"
      BY <2>1, OpenIs
    <3> HIDE DEF t
    <3>2. QED BY <2>3, <3>1, UnlockedMoves DEF t
  <2>4. QED BY <1>2, <2>2, <2>3, CreateMoves
<1>3. CASE SwapRepo(c)
  BY <1>3, IdleMoves DEF SwapRepo, Swap, EndReset, Say, Answer
<1>4. CASE Acquire(c)
  <2>1. Set(c, [s EXCEPT !.phase = "running"]) /\ s.phase = "acquiring" /\ PoolHasRoom
    BY <1>4 DEF Acquire, Phase
  <2>2. s.lock = "none"
    BY <2>1 DEF Sessions, IsSession, Holds, LockType
  <2>3. [s EXCEPT !.phase = "running"].lock = "none"
    BY <1>1, <2>2 DEF Fields
  <2>4. QED BY <2>1, <2>3, UnlockedMoves
<1>5. CASE AcquireTimesOut(c)
  BY <1>5, DroppedMoves DEF AcquireTimesOut
<1>6. CASE Statement(c)
  <2>1. Phase(c) = "running" /\ (LockFor(c) = "reserved" => Unreserved(c))
    BY <1>6 DEF Statement, CanLock
  <2>2. \/ Failed(c, LockFor(c))
        \/ \E work, ids, read :
             Set(c, [s EXCEPT !.pc = @ + 1, !.lock = LockFor(c), !.work = work, !.ids = ids, !.read = read])
    BY <1>6 DEF Statement
  <2>3. CASE Failed(c, LockFor(c))
    BY <2>1, <2>3, FailedMoves
  <2>4. ASSUME NEW work, NEW ids, NEW read,
               Set(c, [s EXCEPT !.pc = @ + 1, !.lock = LockFor(c), !.work = work, !.ids = ids, !.read = read])
        PROVE  LocksMove(c)
    <3>1. session'[c] = [s EXCEPT !.pc = @ + 1, !.lock = LockFor(c), !.work = work, !.ids = ids, !.read = read]
      BY <2>4, SetOne
    <3>2. OthersRest(c)
      BY <2>4, SetOne DEF OthersRest
    <3>3. session'[c].lock = LockFor(c)
      BY <1>1, <3>1 DEF Fields
    <3>4. c \in Connected
      BY <2>1 DEF Connected
    <3>5. QED BY <2>1, <3>2, <3>3, <3>4 DEF LocksMove
  <2>5. QED BY <2>2, <2>3, <2>4
<1>7. CASE Commit(c)
  BY <1>7, IdleMoves DEF Commit, Answer
<1>8. CASE Autocommit(c)
  <2>1. Phase(c) = "running" /\ ~InTransaction(Call(c))
    BY <1>8 DEF Autocommit
  <2>2. \/ Failed(c, "none")
        \/ Set(c, Idle)
        \/ \E read : Set(c, [s EXCEPT !.phase = "acquiring", !.pc = @ + 1, !.read = read])
    BY <1>8 DEF Autocommit, Answer
  <2>3. CASE Failed(c, "none")
    BY <2>1, <2>3, FailedMoves
  <2>4. CASE Set(c, Idle)
    BY <2>4, IdleMoves
  <2>5. ASSUME NEW read, Set(c, [s EXCEPT !.phase = "acquiring", !.pc = @ + 1, !.read = read])
        PROVE  LocksMove(c)
    <3> DEFINE t == [s EXCEPT !.phase = "acquiring", !.pc = @ + 1, !.read = read]
    <3>1. s.lock = "none"
      BY <2>1 DEF Sessions, IsSession, Holds, Call
    <3>2. t.lock = "none" /\ t.phase = "acquiring"
      BY <1>1, <3>1 DEF Fields
    <3> HIDE DEF t
    <3>3. QED BY <2>5, <3>2, UnlockedMoves DEF t
  <2>6. QED BY <2>2, <2>3, <2>4, <2>5
<1>9. CASE Busy(c)
  BY <1>9, FailedMoves, DroppedMoves DEF Busy
<1>10. CASE LogError(c)
  BY <1>10, IdleMoves DEF LogError, Say, Answer
<1>11. QED BY <1>2, <1>3, <1>4, <1>5, <1>6, <1>7, <1>8, <1>9, <1>10 DEF Step

\* So does the arrival of a command.
LEMMA ArrivalMoves ==
  ASSUME Sessions, NEW c \in Client, NEW cmd \in Command[c], Dispatch(c, cmd) \/ ResetDatabase(c, cmd)
  PROVE  LocksMove(c) /\ db' = db /\ session'[c].phase \in {"idle", "acquiring", "creating"}
<1>1. \/ Set(c, Idle)
      \/ Set(c, [Idle EXCEPT !.phase = "acquiring", !.call = cmd])
      \/ Set(c, [Idle EXCEPT !.phase = "creating", !.call = cmd, !.file = Len(shelf)])
  BY DEF Dispatch, ResetDatabase, Begin, Say, Answer
<1>2. ASSUME NEW s, Set(c, s), s.lock = "none", s.phase \in {"acquiring", "creating"}
      PROVE  LocksMove(c) /\ session'[c].phase \in {"acquiring", "creating"}
  <2>1. session'[c] = s
    BY <1>2, SetOne
  <2>2. QED BY <1>2, <2>1, UnlockedMoves
<1>3. LET s == [Idle EXCEPT !.phase = "acquiring", !.call = cmd]
          t == [Idle EXCEPT !.phase = "creating", !.call = cmd, !.file = Len(shelf)]
      IN s.lock = "none" /\ s.phase = "acquiring" /\ t.lock = "none" /\ t.phase = "creating"
  BY DEF Idle
<1>4. ASSUME Set(c, Idle) PROVE LocksMove(c) /\ session'[c].phase = "idle"
  BY <1>4, SetOne, IdleMoves DEF Idle
<1>5. db' = db
  BY DEF Dispatch, ResetDatabase
<1>6. QED BY <1>1, <1>2, <1>3, <1>4, <1>5

LEMMA NextMoves ==
  ASSUME Sessions, [Next]_vars
  PROVE  UNCHANGED session \/ \E c \in Client : LocksMove(c)
BY StepMoves, ArrivalMoves DEF Next, Panic, HangUp, IntervalPasses, vars

LEMMA OneWriterStays ==
  ASSUME Sessions, OneWriter, [Next]_vars
  PROVE  OneWriter'
<1>1. CASE UNCHANGED session
  BY <1>1 DEF OneWriter, Lock
<1>2. ASSUME NEW c \in Client, LocksMove(c) PROVE OneWriter'
  <2> SUFFICES ASSUME NEW a \in Client, NEW b \in Client, a # b,
                      session'[a].lock = "reserved", session'[b].lock = "reserved"
               PROVE  FALSE
    BY DEF OneWriter, Lock
  <2>1. ASSUME NEW o \in Client, o # c, session'[o].lock = "reserved", session'[c].lock = "reserved"
        PROVE  FALSE
    <3>1. Lock(o) = "reserved"
      BY <1>2, <2>1 DEF LocksMove, OthersRest, Lock
    <3>2. Lock(c) # "reserved"
      BY <2>1, <3>1 DEF OneWriter
    <3>3. Unreserved(c)
      BY <1>2, <2>1, <3>2 DEF LocksMove
    <3>4. QED BY <2>1, <3>1, <3>3 DEF Unreserved
  <2>2. CASE a # c /\ b # c
    BY <1>2, <2>2 DEF LocksMove, OthersRest, Lock, OneWriter
  <2>3. QED BY <2>1, <2>2
<1>3. QED BY <1>1, <1>2, NextMoves

\* The pool never lends more connections than it has.
LEMMA PoolStays ==
  ASSUME Sessions, Pool, [Next]_vars
  PROVE  Pool'
<1>1. CASE UNCHANGED session
  BY <1>1 DEF Pool, Connected, Phase
<1>2. ASSUME NEW c \in Client, LocksMove(c) PROVE Pool'
  <2>1. Connected' \subseteq Connected \cup {c}
    BY <1>2 DEF Connected, Phase, LocksMove, OthersRest
  <2>2. CASE Connected' \subseteq Connected
    BY <2>2, FS_Subset, FS_CardinalityType, LibraryAssumption DEF Pool
  <2>3. CASE ~(Connected' \subseteq Connected)
    <3>1. c \in Connected' /\ c \notin Connected
      BY <2>1, <2>3
    <3>2. PoolHasRoom
      BY <1>2, <3>1 DEF LocksMove, Connected, Phase
    <3>3. /\ IsFiniteSet(Connected \cup {c})
          /\ Cardinality(Connected \cup {c}) = Cardinality(Connected) + 1
      BY <3>1, FS_AddElement DEF Pool
    <3>4. IsFiniteSet(Connected') /\ Cardinality(Connected') <= Cardinality(Connected \cup {c})
      BY <2>1, <3>3, FS_Subset
    <3>5. Cardinality(Connected) \in Nat /\ Cardinality(Connected') \in Nat
      BY <3>4, FS_CardinalityType DEF Pool
    <3>6. QED BY <3>2, <3>3, <3>4, <3>5, LibraryAssumption DEF Pool, PoolHasRoom
  <2>4. QED BY <2>2, <2>3
<1>3. QED BY <1>1, <1>2, NextMoves

LEMMA AnswerIs ==
  ASSUME Rest, NEW c \in Client, NEW status \in {"none", "ok", "error", "ignored"}, NEW ids, NEW read,
         Answer(c, status, ids, read)
  PROVE  (\A o \in Client : reply'[o].status \in {"none", "ok", "error", "ignored"}) /\ reply' = [o \in Client |-> reply'[o]]
<1> DEFINE r == [status |-> status, ids |-> ids, read |-> read]
<1>1. r.status = status
  OBVIOUS
<1> HIDE DEF r
<1>2. reply' = reply \/ reply' = [reply EXCEPT ![c] = r]
  BY DEF Answer, r
<1>3. QED BY <1>1, <1>2 DEF Rest

LEMMA RestStays ==
  ASSUME Rest, Shelf, [Next]_vars
  PROVE  Rest'
<1> DEFINE Replies == (\A o \in Client : reply'[o].status \in {"none", "ok", "error", "ignored"}) /\ reply' = [o \in Client |-> reply'[o]]
<1>1. ASSUME NEW c \in Client, NEW cmd \in Command[c], Dispatch(c, cmd) \/ ResetDatabase(c, cmd) PROVE Rest'
  <2>1. UNCHANGED reply \/ \E status \in {"error", "ignored"} : Answer(c, status, << >>, << >>)
    BY <1>1 DEF Dispatch, ResetDatabase, Say
  <2>2. Replies
    BY <2>1, AnswerIs DEF Rest
  <2>3. calls' \in [Client -> 0 .. MaxCalls]
    BY <1>1, LibraryAssumption DEF Dispatch, ResetDatabase, CountCall, Rest
  <2>4. UNCHANGED <<left, errors>>
    BY <1>1 DEF Dispatch, ResetDatabase
  <2>5. QED BY <2>2, <2>3, <2>4 DEF Rest
<1>2. ASSUME NEW c \in Client, Step(c) PROVE Rest'
  <2>1. UNCHANGED reply \/ \E status \in {"ok", "error"} : \E ids, read : Answer(c, status, ids, read)
    BY <1>2 DEF Step, CreateRepo, Open, EndReset, SwapRepo, Swap, Acquire, AcquireTimesOut, Statement, Commit, Autocommit, Busy, LogError, Say
  <2>2. Replies
    BY <2>1, AnswerIs DEF Rest
  <2>3. UNCHANGED <<left, calls>>
    BY <1>2 DEF Step, CreateRepo, SwapRepo, Swap, Acquire, AcquireTimesOut, Statement, Commit, Autocommit, Busy, LogError
  <2>4. CASE SwapRepo(c)
    <3>1. errors' = shelf'[session[c].file].errors /\ session[c].file \in 1 .. Len(shelf)
          /\ shelf' = [shelf EXCEPT ![file] = [db |-> db, errors |-> errors]]
      BY <2>4 DEF SwapRepo, Swap, Shelf
    <3>2. errors' \in Nat
      BY <3>1 DEF Rest, Shelf, IsShelf
    <3>3. QED BY <2>2, <2>3, <3>2 DEF Rest
  <2>5. CASE ~SwapRepo(c)
    <3>1. errors' \in Nat
      BY <1>2, <2>5 DEF Rest, Step, CreateRepo, Acquire, AcquireTimesOut, Statement, Commit, Autocommit, Busy, LogError
    <3>2. QED BY <2>2, <2>3, <3>1 DEF Rest
  <2>6. QED BY <2>4, <2>5
<1>3. ASSUME NEW c \in Client, HangUp(c) PROVE Rest'
  BY <1>3 DEF HangUp, Rest
<1>4. ASSUME NEW c \in Client, NEW cmd \in Command[c], Panic(c, cmd) PROVE Rest'
  BY <1>4, LibraryAssumption DEF Panic, CountCall, Rest
<1>5. CASE IntervalPasses \/ UNCHANGED vars
  BY <1>5 DEF IntervalPasses, vars, Rest
<1>6. QED BY <1>1, <1>2, <1>3, <1>4, <1>5 DEF Next

\* A file is added at the end, or the one in use is put back in its place.
LEMMA ShelfAppends ==
  ASSUME IsShelf(shelf), NEW r
  PROVE  /\ IsShelf(Append(shelf, r)) /\ Len(Append(shelf, r)) = Len(shelf) + 1
         /\ \A f \in 1 .. Len(shelf) : Append(shelf, r)[f] = shelf[f]
         /\ Append(shelf, r)[Len(shelf) + 1] = r
<1> DEFINE S == {shelf[f] : f \in 1 .. Len(shelf)} \cup {r}
<1>1. \A f \in 1 .. Len(shelf) : shelf[f] \in S
  OBVIOUS
<1>2. r \in S
  OBVIOUS
<1> HIDE DEF S
<1>3. shelf \in Seq(S)
  BY <1>1 DEF IsShelf
<1> DEFINE sh == Append(shelf, r)
<1>4. /\ sh \in Seq(S) /\ Len(sh) = Len(shelf) + 1 /\ sh[Len(shelf) + 1] = r
      /\ \A f \in 1 .. Len(shelf) : sh[f] = shelf[f]
  BY <1>2, <1>3, AppendProperties
<1> HIDE DEF sh
<1>5. IsShelf(sh)
  BY <1>4 DEF IsShelf
<1>6. QED BY <1>4, <1>5 DEF sh

LEMMA ShelfPutsBack ==
  ASSUME IsShelf(shelf), file \in 1 .. Len(shelf), NEW r
  PROVE  LET sh == [shelf EXCEPT ![file] = r]
         IN /\ IsShelf(sh) /\ Len(sh) = Len(shelf) /\ sh[file] = r
            /\ \A f \in 1 .. Len(shelf) : f # file => sh[f] = shelf[f]
<1> DEFINE S == {shelf[f] : f \in 1 .. Len(shelf)} \cup {r}
<1>1. \A f \in 1 .. Len(shelf) : shelf[f] \in S
  OBVIOUS
<1>2. r \in S
  OBVIOUS
<1> HIDE DEF S
<1>3. shelf \in Seq(S)
  BY <1>1 DEF IsShelf
<1>4. [shelf EXCEPT ![file] = r] \in Seq(S) /\ Len([shelf EXCEPT ![file] = r]) = Len(shelf)
  BY <1>2, <1>3, ExceptSeq
<1>5. QED BY <1>3, <1>4 DEF IsShelf

\* What a step does to the files.
LEMMA FilesMove ==
  ASSUME [Next]_vars
  PROVE  \/ UNCHANGED <<file, shelf>>
         \/ \E c \in Client :
              /\ CreateRepo(c) /\ shelf' = Append(shelf, NewFile) /\ file' = file
              /\ Open(c, Len(shelf) + 1)
         \/ \E c \in Client : SwapRepo(c)
BY DEF Next, Step, Dispatch, Panic, ResetDatabase, IntervalPasses, HangUp, CreateRepo, EndReset, Acquire, AcquireTimesOut,
       Statement, Commit, Autocommit, Busy, LogError, vars, files

\* Only a reset leads to the write lock.
LEMMA DroppedPhase ==
  ASSUME Sessions, NEW c \in Client, Dropped(c)
  PROVE  session'[c].phase = "logging"
<1> DEFINE t == [Idle EXCEPT !.phase = "logging", !.call = Call(c), !.read = session[c].read]
<1>1. Set(c, t)
  BY DEF Dropped
<1>2. t.phase = "logging"
  BY DEF Idle
<1> HIDE DEF t
<1>3. QED BY <1>1, <1>2, SetOne

LEMMA FailedPhase ==
  ASSUME Sessions, NEW c \in Client, NEW l, Failed(c, l)
  PROVE  session'[c].phase \in {"failed", "logging"}
<1>1. CASE Call(c).do \in LogsInside
  <2> DEFINE t == [session[c] EXCEPT !.phase = "failed", !.lock = l]
  <2>1. Set(c, t)
    BY <1>1 DEF Failed
  <2>2. t.phase = "failed"
    BY DEF Sessions, IsSession, IsRecord, Fields
  <2> HIDE DEF t
  <2>3. QED BY <2>1, <2>2, SetOne
<1>2. CASE Call(c).do \notin LogsInside
  BY <1>2, DroppedPhase DEF Failed
<1>3. QED BY <1>1, <1>2

LEMMA StepPhases ==
  ASSUME Sessions, NEW c \in Client, Step(c), ~CreateRepo(c)
  PROVE  session'[c].phase \in {"idle", "acquiring", "running", "failed", "logging"}
<1> DEFINE s == session[c]
<1>1. DOMAIN s = Fields
  BY DEF Sessions, IsSession, IsRecord
<1>2. CASE Set(c, Idle)
  BY <1>2, SetOne DEF Idle
<1>3. CASE SwapRepo(c) \/ Commit(c) \/ LogError(c)
  BY <1>2, <1>3 DEF SwapRepo, Swap, EndReset, Commit, LogError, Say, Answer
<1>4. CASE Acquire(c)
  <2>1. session'[c] = [s EXCEPT !.phase = "running"]
    BY <1>4, SetOne DEF Acquire
  <2>2. QED BY <1>1, <2>1 DEF Fields
<1>5. CASE AcquireTimesOut(c) \/ Busy(c)
  BY <1>5, DroppedPhase, FailedPhase DEF AcquireTimesOut, Busy
<1>6. CASE Statement(c)
  <2>1. \/ Failed(c, LockFor(c))
        \/ \E work, ids, read :
             Set(c, [s EXCEPT !.pc = @ + 1, !.lock = LockFor(c), !.work = work, !.ids = ids, !.read = read])
    BY <1>6 DEF Statement
  <2>2. ASSUME NEW work, NEW ids, NEW read,
               Set(c, [s EXCEPT !.pc = @ + 1, !.lock = LockFor(c), !.work = work, !.ids = ids, !.read = read])
        PROVE  session'[c].phase = "running"
    <3>1. session'[c] = [s EXCEPT !.pc = @ + 1, !.lock = LockFor(c), !.work = work, !.ids = ids, !.read = read]
      BY <2>2, SetOne
    <3>2. s.phase = "running"
      BY <1>6 DEF Statement, Phase
    <3>3. QED BY <1>1, <3>1, <3>2 DEF Fields
  <2>3. QED BY <2>1, <2>2, FailedPhase
<1>7. CASE Autocommit(c)
  <2>1. \/ Failed(c, "none")
        \/ Set(c, Idle)
        \/ \E read : Set(c, [s EXCEPT !.phase = "acquiring", !.pc = @ + 1, !.read = read])
    BY <1>7 DEF Autocommit, Answer
  <2>2. ASSUME NEW read, Set(c, [s EXCEPT !.phase = "acquiring", !.pc = @ + 1, !.read = read])
        PROVE  session'[c].phase = "acquiring"
    <3>1. session'[c] = [s EXCEPT !.phase = "acquiring", !.pc = @ + 1, !.read = read]
      BY <2>2, SetOne
    <3>2. QED BY <1>1, <3>1 DEF Fields
  <2>3. QED BY <1>2, <2>1, <2>2, FailedPhase
<1>8. QED BY <1>3, <1>4, <1>5, <1>6, <1>7 DEF Step

\* A session that waits for the write lock has opened its file just now, or waited
\* with it before.
Opened(c) ==
  CreateRepo(c) /\ session'[c].phase = "swapping" /\ session'[c].call = Call(c) /\ session'[c].read = session[c].read
LEMMA SwappingMoves ==
  ASSUME Sessions, [Next]_vars, NEW c \in Client, session'[c].phase = "swapping"
  PROVE  \/ session'[c] = session[c]
         \/ Opened(c) /\ session'[c].file = Len(shelf) + 1 /\ shelf' = Append(shelf, NewFile)
         \/ /\ Opened(c) /\ session'[c].file = Len(shelf) /\ UNCHANGED shelf
            /\ Len(shelf) > session[c].file
<1>1. CASE UNCHANGED session
  BY <1>1
<1>2. ASSUME NEW o \in Client, NEW cmd \in Command[o], Dispatch(o, cmd) \/ ResetDatabase(o, cmd)
      PROVE  session'[c] = session[c]
  <2>1. LocksMove(o) /\ session'[o].phase \in {"idle", "acquiring", "creating"}
    BY <1>2, ArrivalMoves
  <2>2. o # c
    BY <2>1
  <2>3. QED BY <2>1, <2>2 DEF LocksMove, OthersRest
<1>3. ASSUME NEW o \in Client, Step(o), o # c PROVE session'[c] = session[c]
  BY <1>3, StepMoves DEF LocksMove, OthersRest
<1>4. ASSUME Step(c), ~CreateRepo(c) PROVE FALSE
  BY <1>4, StepPhases
<1>5. ASSUME CreateRepo(c), NEW f, Open(c, f)
      PROVE  Opened(c) /\ session'[c].file = f
  <2>1. session'[c] = Opening(session[c], f)
    BY <1>5, SetOne DEF Open, Opening
  <2>2. IsSession(session[c]) /\ session[c].phase = "creating"
    BY <1>5, CreateMoves DEF Sessions, Phase
  <2>3. QED BY <1>5, <2>1, <2>2, OpenIs DEF Opened, Call
<1>6. ASSUME CreateRepo(c), EndReset(c, "error") PROVE FALSE
  BY <1>6, SetOne DEF EndReset, Say, Answer, Idle
<1>7. CASE CreateRepo(c)
  BY <1>5, <1>6, <1>7 DEF CreateRepo
<1>8. QED BY <1>1, <1>2, <1>3, <1>4, <1>7 DEF Next, Panic, HangUp, IntervalPasses, vars

LEMMA CreateEnds ==
  ASSUME Sessions, NEW c \in Client, CreateRepo(c)
  PROVE  /\ session'[c] = Idle \/ Opened(c)
         /\ session'[c].phase \in {"idle", "swapping"}
<1>1. IsSession(session[c]) /\ session[c].phase = "creating"
  BY CreateMoves DEF Sessions, Phase
<1>2. ASSUME NEW f, Set(c, Opening(session[c], f)) PROVE Opened(c)
  <2>1. session'[c] = Opening(session[c], f)
    BY <1>2, SetOne
  <2>2. QED BY <1>1, <2>1, OpenIs DEF Opened, Call
<1>3. Set(c, Idle) => session'[c] = Idle /\ session'[c].phase = "idle"
  BY SetOne DEF Idle
<1>4. QED BY <1>2, <1>3, CreateMoves DEF Opened

\* A swap brings in a file of the shelf, or the one in use once more.
LEMMA SwapFinds ==
  ASSUME Shelf, NEW c \in Client, SwapRepo(c)
  PROVE  /\ Phase(c) = "swapping" /\ Dispatched = {} /\ session[c].file \in 1 .. Len(shelf)
         /\ IsShelf(shelf') /\ Len(shelf') = Len(shelf) /\ file' = session[c].file
         /\ shelf'[file].db = db
         /\ \A f \in 1 .. Len(shelf) : f # file => shelf'[f] = shelf[f]
         /\ db' = IF session[c].file = file THEN db ELSE shelf[session[c].file].db
<1> DEFINE e == [db |-> db, errors |-> errors]
           sh == [shelf EXCEPT ![file] = e]
<1>1. e.db = db
  OBVIOUS
<1> HIDE DEF e
<1>2. /\ IsShelf(sh) /\ Len(sh) = Len(shelf) /\ sh[file] = e
      /\ \A f \in 1 .. Len(shelf) : f # file => sh[f] = shelf[f]
  BY ShelfPutsBack DEF Shelf
<1>3. /\ Phase(c) = "swapping" /\ Dispatched = {} /\ session[c].file \in 1 .. Len(shelf)
      /\ shelf' = sh /\ file' = session[c].file /\ db' = shelf'[session[c].file].db
  BY DEF SwapRepo, Swap, Shelf, e
<1> HIDE DEF sh
<1>4. QED BY <1>1, <1>2, <1>3

LEMMA ShelfStays ==
  ASSUME Sessions, Rest, Shelf, [Next]_vars
  PROVE  Shelf'
<1> DEFINE Kept == /\ IsShelf(shelf') /\ file' \in 1 .. Len(shelf') /\ Len(shelf') >= Len(shelf)
                   /\ \A f \in 1 .. Len(shelf') : shelf'[f].errors \in Nat
<1>1. Kept
  <2>1. CASE UNCHANGED <<file, shelf>>
    BY <2>1 DEF Shelf, IsShelf
  <2>2. CASE shelf' = Append(shelf, NewFile) /\ file' = file
    <3>1. NewFile.errors \in Nat
      BY DEF NewFile
    <3> DEFINE sh == Append(shelf, NewFile)
    <3>2. /\ IsShelf(sh) /\ Len(sh) = Len(shelf) + 1
          /\ \A f \in 1 .. Len(shelf) : sh[f] = shelf[f]
          /\ sh[Len(shelf) + 1] = NewFile
      BY ShelfAppends DEF Shelf
    <3> HIDE DEF sh
    <3>3. \A f \in 1 .. Len(sh) : sh[f].errors \in Nat
      BY <3>1, <3>2 DEF Shelf, IsShelf
    <3>4. QED BY <2>2, <3>2, <3>3 DEF Shelf, IsShelf, sh
  <2>3. ASSUME NEW c \in Client, SwapRepo(c) PROVE Kept
    <3> DEFINE r == [db |-> db, errors |-> errors]
               sh == [shelf EXCEPT ![file] = r]
    <3>1. r.errors \in Nat
      BY DEF Rest
    <3> HIDE DEF r
    <3>2. /\ IsShelf(sh) /\ Len(sh) = Len(shelf) /\ sh[file] = r
          /\ \A f \in 1 .. Len(shelf) : f # file => sh[f] = shelf[f]
      BY ShelfPutsBack DEF Shelf
    <3>3. shelf' = sh /\ file' = session[c].file /\ session[c].file \in 1 .. Len(shelf)
      BY <2>3 DEF SwapRepo, Swap, Shelf, r
    <3> HIDE DEF sh
    <3>4. \A f \in 1 .. Len(sh) : sh[f].errors \in Nat
      BY <3>1, <3>2 DEF Shelf
    <3>5. QED BY <3>2, <3>3, <3>4 DEF Shelf, IsShelf
  <2>4. QED BY <2>1, <2>2, <2>3, FilesMove
<1>2. ASSUME NEW c \in Client, session'[c].phase = "swapping" PROVE session'[c].file \in 1 .. Len(shelf')
  <2>1. CASE session'[c] = session[c]
    BY <1>1, <1>2, <2>1 DEF Shelf, IsShelf, Phase
  <2>2. CASE session'[c].file = Len(shelf) + 1 /\ shelf' = Append(shelf, NewFile)
    BY <2>2, ShelfAppends DEF Shelf, IsShelf
  <2>3. CASE session'[c].file = Len(shelf) /\ UNCHANGED shelf
    BY <2>3 DEF Shelf, IsShelf
  <2>4. QED BY <1>2, <2>1, <2>2, <2>3, SwappingMoves
<1>3. QED BY <1>1, <1>2 DEF Shelf, Phase

Inv == Sessions /\ OneWriter /\ Pool /\ Rest /\ Shelf

LEMMA InitInv == Init => Inv
<1> SUFFICES ASSUME Init PROVE Inv
  OBVIOUS
<1>1. \A c \in Client : session[c] = Idle
  BY DEF Init
<1>2. Sessions
  BY <1>1, IdleIs DEF Init, Sessions
<1>3. Idle.lock = "none" /\ Idle.phase = "idle"
  BY DEF Idle
<1>4. OneWriter /\ Connected = {}
  BY <1>1, <1>3 DEF OneWriter, Lock, Connected, Phase
<1>5. Pool
  BY <1>4, FS_EmptySet, LibraryAssumption DEF Pool
<1>6. Rest
  BY LibraryAssumption DEF Init, Rest
<1>7. Shelf
  BY <1>1, <1>3 DEF Init, Shelf, IsShelf, Phase
<1>8. QED BY <1>2, <1>4, <1>5, <1>6, <1>7 DEF Inv

LEMMA NextInv == Inv /\ [Next]_vars => Inv'
BY SessionsStay, OneWriterStays, PoolStays, RestStays, ShelfStays DEF Inv

LEMMA AlwaysInv == Spec => []Inv
BY InitInv, NextInv, PTL DEF Spec

\* Sessions and answers have their types, and the commands that run hold no
\* more connections than the pool has (SqlitePoolOptions::new, sqlite.rs:57).
THEOREM TypesAreKept == Spec => []TypeOK
<1>1. Inv => TypeOK
  <2> SUFFICES ASSUME Inv PROVE TypeOK
    OBVIOUS
  <2>1. ASSUME NEW c \in Client
        PROVE  /\ Phase(c) \in {"idle", "acquiring", "running", "failed", "logging", "creating", "swapping"}
               /\ Lock(c) \in LockType
               /\ Phase(c) = "idle" <=> Call(c) = NoCall
    <3>1. Holds(Phase(c), Call(c), session[c].pc, Lock(c), session[c].read)
      BY DEF Inv, Sessions, IsSession, Phase, Call, Lock
    <3>2. ASSUME NEW cmd, IsCommand(cmd) PROVE cmd.do # "None"
      BY <3>2 DEF IsCommand, OfOneTrack
    <3>3. NoCall.do = "None"
      BY DEF NoCall
    <3>4. QED BY <3>1, <3>2, <3>3 DEF Holds, Served
  <2>2. QED BY <2>1 DEF Inv, Pool, Rest, TypeOK
<1>2. QED BY <1>1, AlwaysInv, PTL

-----------------------------------------------------------------------------
(* The database and what transactions have seen of it.                     *)

LEMMA FailedIsOver ==
  ASSUME Sessions, NEW c \in Client, NEW l, Failed(c, l)
  PROVE  session'[c].phase # "running"
<1>1. CASE Call(c).do \in LogsInside
  <2>1. session'[c] = [session[c] EXCEPT !.phase = "failed", !.lock = l]
    BY <1>1, SetOne DEF Failed
  <2>2. QED BY <2>1 DEF Sessions, IsSession, IsRecord, Fields
<1>2. CASE Call(c).do \notin LogsInside
  <2>1. session'[c] = [Idle EXCEPT !.phase = "logging", !.call = Call(c), !.read = session[c].read]
    BY <1>2, SetOne DEF Failed, Dropped
  <2>2. QED BY <2>1 DEF Idle
<1>3. QED BY <1>1, <1>2

\* c executes a statement of its transaction.
Outcome(c) == Execute(Statement1(c), View(c), session[c].ids, session[c].read)
Executes(c) ==
  /\ Phase(c) = "running" /\ InTransaction(Call(c)) /\ ~AllRun(c) /\ CanLock(c) /\ Outcome(c).ok
  /\ db' = db
  /\ session'[c].call = Call(c) /\ session'[c].pc = session[c].pc + 1 /\ session'[c].lock = LockFor(c)
  /\ session'[c].work = Outcome(c).db
  /\ session'[c].ids = IdsAfter(Statement1(c), Outcome(c).db, session[c].ids)
  /\ session'[c].read = ReadAfter(Statement1(c), View(c), session[c].read)

\* A transaction goes on only by executing a statement.
LEMMA Progress ==
  ASSUME Sessions, [Next]_vars, NEW c \in Client,
         session'[c].phase = "running", session'[c].lock # "none"
  PROVE  session'[c] = session[c] \/ Executes(c)
<1> DEFINE s == session[c]
<1>1. DOMAIN s = Fields
  BY DEF Sessions, IsSession, IsRecord
<1>2. ASSUME NEW o \in Client, LocksMove(o), o # c PROVE session'[c] = s
  BY <1>2 DEF LocksMove, OthersRest
<1>3. ASSUME NEW cmd \in Command[c], Dispatch(c, cmd) \/ ResetDatabase(c, cmd) PROVE FALSE
  BY <1>3, ArrivalMoves
<1>4. ASSUME Set(c, Idle) PROVE FALSE
  BY <1>4, SetOne DEF Idle
<1>5. ASSUME CreateRepo(c) PROVE FALSE
  BY <1>5, CreateEnds
<1>6. ASSUME Acquire(c) PROVE FALSE
  <2>1. session'[c] = [s EXCEPT !.phase = "running"] /\ s.phase = "acquiring"
    BY <1>6, SetOne DEF Acquire, Phase
  <2>2. s.lock = "none"
    BY <2>1 DEF Sessions, IsSession, Holds
  <2>3. QED BY <1>1, <2>1, <2>2 DEF Fields
<1>7. ASSUME AcquireTimesOut(c) PROVE FALSE
  <2>1. session'[c] = [Idle EXCEPT !.phase = "logging", !.call = Call(c), !.read = session[c].read]
    BY <1>7, SetOne DEF AcquireTimesOut, Dropped
  <2>2. QED BY <2>1 DEF Idle
<1>8. ASSUME Autocommit(c) PROVE FALSE
  <2>1. \/ Failed(c, "none")
        \/ Set(c, Idle)
        \/ \E read : Set(c, [s EXCEPT !.phase = "acquiring", !.pc = @ + 1, !.read = read])
    BY <1>8 DEF Autocommit, Answer
  <2>2. ASSUME NEW read, Set(c, [s EXCEPT !.phase = "acquiring", !.pc = @ + 1, !.read = read]) PROVE FALSE
    <3>1. session'[c] = [s EXCEPT !.phase = "acquiring", !.pc = @ + 1, !.read = read]
      BY <2>2, SetOne
    <3>2. QED BY <1>1, <3>1 DEF Fields
  <2>3. QED BY <1>4, <2>1, <2>2, FailedIsOver
<1>9. ASSUME Statement(c) PROVE Executes(c)
  <2>1. CASE ~Outcome(c).ok
    BY <1>9, <2>1, FailedIsOver DEF Statement, Outcome
  <2>2. CASE Outcome(c).ok
    <3>1. session'[c] = [s EXCEPT !.pc = @ + 1, !.lock = LockFor(c), !.work = Outcome(c).db,
                                  !.ids = IdsAfter(Statement1(c), Outcome(c).db, @),
                                  !.read = ReadAfter(Statement1(c), View(c), @)]
      BY <1>9, <2>2, SetOne DEF Statement, Outcome
    <3>2. /\ session'[c].call = Call(c) /\ session'[c].pc = session[c].pc + 1 /\ session'[c].lock = LockFor(c)
          /\ session'[c].work = Outcome(c).db
          /\ session'[c].ids = IdsAfter(Statement1(c), Outcome(c).db, session[c].ids)
          /\ session'[c].read = ReadAfter(Statement1(c), View(c), session[c].read)
      BY <1>1, <3>1 DEF Fields, Call
    <3>3. QED BY <1>9, <2>2, <3>2 DEF Statement, Executes
  <2>3. QED BY <2>1, <2>2
<1>10. ASSUME Step(c) PROVE Executes(c)
  <2>1. ASSUME SwapRepo(c) \/ Commit(c) \/ LogError(c) PROVE FALSE
    BY <1>4, <2>1 DEF SwapRepo, Swap, EndReset, Commit, LogError, Say, Answer
  <2>2. ASSUME Busy(c) PROVE FALSE
    BY <2>2, FailedIsOver, DroppedPhase DEF Busy
  <2>3. QED BY <1>5, <1>6, <1>7, <1>8, <1>9, <1>10, <2>1, <2>2 DEF Step
<1>11. ASSUME NEW o \in Client, \/ \E cmd \in Command[o] : Dispatch(o, cmd) \/ ResetDatabase(o, cmd)
                               \/ Step(o)
       PROVE  session'[c] = s \/ Executes(c)
  BY <1>2, <1>3, <1>10, <1>11, StepMoves, ArrivalMoves
<1>12. CASE UNCHANGED session
  BY <1>12
<1>13. QED BY <1>11, <1>12 DEF Next, Panic, HangUp, IntervalPasses, vars

LEMMA FailedUnlocks ==
  ASSUME Sessions, NEW c \in Client, Failed(c, "none")
  PROVE  session'[c].lock = "none"
<1>1. CASE Call(c).do \in LogsInside
  <2>1. session'[c] = [session[c] EXCEPT !.phase = "failed", !.lock = "none"]
    BY <1>1, SetOne DEF Failed
  <2>2. QED BY <2>1 DEF Sessions, IsSession, IsRecord, Fields
<1>2. CASE Call(c).do \notin LogsInside
  <2>1. session'[c] = [Idle EXCEPT !.phase = "logging", !.call = Call(c), !.read = session[c].read]
    BY <1>2, SetOne DEF Failed, Dropped
  <2>2. QED BY <2>1 DEF Idle
<1>3. QED BY <1>1, <1>2

\* The database changes when somebody commits whom no reserved lock keeps from
\* it, or is replaced when nobody runs a command.
Writes(c) ==
  /\ Unreserved(c) /\ OthersRest(c) /\ session'[c].lock = "none"
  /\ SwapRepo(c) \/ Commit(c) \/ (Autocommit(c) /\ ~ReadsOnly(Statement1(c)))

LEMMA DbMoves ==
  ASSUME Sessions, [Next]_vars, db' # db
  PROVE  \E c \in Client : Writes(c)
<1>1. PICK c \in Client : SwapRepo(c) \/ Commit(c) \/ Autocommit(c)
  <2>1. ASSUME NEW c \in Client, NEW cmd \in Command[c], Dispatch(c, cmd) \/ ResetDatabase(c, cmd) PROVE FALSE
    BY <2>1, ArrivalMoves
  <2>2. \E c \in Client : Step(c)
    BY <2>1 DEF Next, Panic, HangUp, IntervalPasses, vars
  <2>3. QED BY <2>2 DEF Step, CreateRepo, Acquire, AcquireTimesOut, Statement, Busy, LogError
<1>2. OthersRest(c)
  BY <1>1, StepMoves DEF Step, LocksMove
<1>3. CASE SwapRepo(c)
  <2>1. \A o \in Client : Phase(o) \notin {"running", "failed"}
    BY <1>3 DEF SwapRepo, Dispatched
  <2>2. \A o \in Client : Lock(o) = "none"
    BY <2>1 DEF Sessions, IsSession, Holds, Lock, Phase
  <2>3. session'[c].lock = "none"
    BY <1>3, SetOne DEF SwapRepo, Swap, EndReset, Say, Answer, Idle
  <2>4. QED BY <1>2, <1>3, <2>2, <2>3 DEF Writes, Unreserved
<1>4. CASE Commit(c)
  <2>1. Unreserved(c)
    BY <1>4 DEF Commit, MayCommit, Unreserved, Alone
  <2>2. session'[c].lock = "none"
    BY <1>4, SetOne DEF Commit, Answer, Idle
  <2>3. QED BY <1>2, <1>4, <2>1, <2>2 DEF Writes
<1>5. CASE Autocommit(c)
  <2>1. ~ReadsOnly(Statement1(c))
    BY <1>5, ReadsChangeNothing DEF Autocommit
  <2>2. Unreserved(c)
    BY <1>5, <2>1 DEF Autocommit, MayCommit, Unreserved, Alone
  <2>3. \/ Failed(c, "none")
        \/ Set(c, Idle)
        \/ \E read : Set(c, [session[c] EXCEPT !.phase = "acquiring", !.pc = @ + 1, !.read = read])
    BY <1>5 DEF Autocommit, Answer
  <2>4. ASSUME NEW read, Set(c, [session[c] EXCEPT !.phase = "acquiring", !.pc = @ + 1, !.read = read])
        PROVE  session'[c].lock = "none"
    <3>1. session'[c] = [session[c] EXCEPT !.phase = "acquiring", !.pc = @ + 1, !.read = read]
      BY <2>4, SetOne
    <3>2. session[c].lock = "none"
      BY <1>5 DEF Autocommit, Sessions, IsSession, Holds, Call
    <3>3. QED BY <3>1, <3>2 DEF Sessions, IsSession, IsRecord, Fields
  <2>5. ASSUME Set(c, Idle) PROVE session'[c].lock = "none"
    BY <2>5, SetOne DEF Idle
  <2>6. session'[c].lock = "none"
    BY <2>3, <2>4, <2>5, FailedUnlocks
  <2>7. QED BY <1>2, <1>5, <2>1, <2>2, <2>6 DEF Writes
<1>6. QED BY <1>1, <1>3, <1>4, <1>5

\* While somebody has the reserved lock the database stays as it is.
LEMMA ReservedKeepsDb ==
  ASSUME Sessions, [Next]_vars, NEW c \in Client, session'[c].lock = "reserved"
  PROVE  db' = db
<1> SUFFICES ASSUME NEW o \in Client, Writes(o) PROVE FALSE
  BY DbMoves
<1>1. o # c
  BY DEF Writes
<1>2. Lock(c) = "reserved"
  BY <1>1 DEF Writes, OthersRest, Lock
<1>3. QED BY <1>1, <1>2 DEF Writes, Unreserved

LEMMA ReadExtends ==
  ASSUME NEW d, NEW id, NEW R, NEW read, read = [t \in R |-> Rows(d, t, id)],
         NEW st, st.do = "Read", st.track = id
  PROVE  ReadAfter(st, d, read) = [t \in R \cup {st.table} |-> Rows(d, t, id)]
<1>1. ReadsOnly(st)
  BY DEF ReadsOnly, Reads
<1>2. Found(st, d, read) = Rows(d, st.table, id)
  BY DEF Found
<1>3. ReadAfter(st, d, read) = [t \in R \cup {st.table} |-> IF t = st.table THEN Found(st, d, read) ELSE read[t]]
  BY <1>1 DEF ReadAfter
<1>4. QED BY <1>2, <1>3

LEMMA SnapshotsStay ==
  ASSUME Sessions, Snapshots, [Next]_vars
  PROVE  Snapshots'
<1> SUFFICES ASSUME NEW c \in Client, session'[c].phase = "running", session'[c].call.do = "DeleteTrack",
                    session'[c].lock # "none"
             PROVE  /\ session'[c].lock = "shared" =>
                         session'[c].read = [t \in ReadSoFar(session'[c]) |-> Rows(session'[c].work, t, session'[c].call.track)]
                    /\ session'[c].lock = "reserved" =>
                         session'[c].read = [t \in ToSet(Owned) |-> Rows(db', t, session'[c].call.track)]
  BY DEF Snapshots, Phase, Call, Lock, ReadSoFar
<1> DEFINE s == session[c]
           z == session'[c]
           id == s.call.track
           st == Statement1(c)
<1>1. CASE z = s
  <2>1. /\ s.lock = "shared" => s.read = [t \in ReadSoFar(s) |-> Rows(s.work, t, id)]
        /\ s.lock = "reserved" => s.read = [t \in ToSet(Owned) |-> Rows(db, t, id)]
    BY <1>1 DEF Snapshots, Phase, Call, Lock
  <2>2. z.lock = "reserved" => db' = db
    BY ReservedKeepsDb
  <2>3. QED BY <1>1, <2>1, <2>2, Zenon
<1>2. CASE Executes(c)
  <2>1. IsSession(s) /\ s.phase = "running" /\ s.call.do = "DeleteTrack" /\ InTransaction(s.call)
        /\ ~Over(s.call, s.pc, s.read)
    BY <1>2 DEF Sessions, Executes, Phase, Call, AllRun
  <2>2. /\ s.pc \in 1 .. 7 /\ (ReadsOnly(st) <=> s.pc < 6)
        /\ s.pc < 6 => st = [do |-> "Read", table |-> Owned[s.pc], track |-> id]
    BY <2>1, NextStatement DEF Statement1, Call
  <2>3. /\ z.call = s.call /\ z.pc = s.pc + 1 /\ z.work = Outcome(c).db
        /\ z.read = ReadAfter(st, View(c), s.read)
        /\ z.lock = (IF s.pc < 6 THEN "shared" ELSE "reserved")
        /\ db' = db
    BY <1>2, <2>2 DEF Executes, Call, LockFor
  <2>4. /\ s.lock \in LockType
        /\ s.lock = "none" => s.pc = 1 /\ s.read = << >>
        /\ s.lock = "shared" => s.pc \in 2 .. 6
        /\ s.lock = "reserved" => s.pc \in {7, 8}
    BY <2>1 DEF IsSession, Holds, Fresh, PageRead, Reading, Writing
  <2>5. /\ s.lock = "shared" => s.read = [t \in ReadSoFar(s) |-> Rows(s.work, t, id)]
        /\ s.lock = "reserved" => s.read = [t \in ToSet(Owned) |-> Rows(db, t, id)]
    BY <2>1 DEF Snapshots, Phase, Call, Lock
  <2>6. CASE s.pc < 6
    <3>1. s.read = [t \in ReadSoFar(s) |-> Rows(View(c), t, id)]
      <4>1. CASE s.lock = "none"
        <5>1. ReadSoFar(s) = {}
          BY <2>4, <4>1 DEF ReadSoFar
        <5>2. [t \in {} |-> Rows(View(c), t, id)] = << >>
          OBVIOUS
        <5>3. QED BY <2>4, <4>1, <5>1, <5>2
      <4>2. CASE s.lock = "shared"
        BY <2>5, <4>2 DEF View, Lock
      <4>3. QED BY <2>4, <2>6, <4>1, <4>2 DEF LockType
    <3>2. z.read = [t \in ReadSoFar(s) \cup {Owned[s.pc]} |-> Rows(View(c), t, id)]
      <4>1. st.do = "Read" /\ st.track = id /\ st.table = Owned[s.pc]
        BY <2>2, <2>6
      <4> HIDE DEF st, id, s, z
      <4>2. \A R : LET read == [t \in R |-> Rows(View(c), t, id)]
                   IN ReadAfter(st, View(c), read) = [t \in R \cup {st.table} |-> Rows(View(c), t, id)]
        BY <4>1, ReadExtends
      <4>3. ReadAfter(st, View(c), s.read) = [t \in ReadSoFar(s) \cup {st.table} |-> Rows(View(c), t, id)]
        BY <3>1, <4>2, Zenon
      <4>4. QED BY <2>3, <4>1, <4>3, Zenon
    <3>3. z.work = View(c)
      BY <2>2, <2>3, <2>6, ReadsChangeNothing DEF Outcome
    <3>4. ReadSoFar(z) = ReadSoFar(s) \cup {Owned[s.pc]}
      <4>1. 1 .. z.pc - 1 = (1 .. s.pc - 1) \cup {s.pc}
        BY <2>2, <2>3
      <4> HIDE DEF z, s
      <4>2. QED BY <4>1 DEF ReadSoFar
    <3>5. z.lock = "shared"
      BY <2>3, <2>6
    <3>6. QED BY <2>3, <3>2, <3>3, <3>4, <3>5, Zenon
  <2>7. CASE s.pc = 6
    <3>1. s.lock = "shared" /\ z.lock = "reserved" /\ ~ReadsOnly(st)
      BY <2>2, <2>3, <2>4, <2>7 DEF LockType
    <3>2. s.work = db
      BY <1>2, <3>1 DEF Executes, CanLock, LockFor, Lock
    <3>3. z.read = s.read
      BY <2>3, <3>1 DEF ReadAfter
    <3>4. ReadSoFar(s) = ToSet(Owned)
      <4>1. DOMAIN Owned = 1 .. 5 /\ 1 .. s.pc - 1 = 1 .. 5
        BY <2>7 DEF Owned
      <4>2. QED BY <4>1 DEF ReadSoFar, ToSet
    <3>5. QED BY <2>3, <2>5, <3>1, <3>2, <3>3, <3>4, Zenon
  <2>8. CASE s.pc = 7
    <3>1. s.lock = "reserved" /\ z.lock = "reserved" /\ ~ReadsOnly(st)
      BY <2>2, <2>3, <2>4, <2>8 DEF LockType
    <3>2. z.read = s.read
      BY <2>3, <3>1 DEF ReadAfter
    <3>3. QED BY <2>3, <2>5, <3>1, <3>2, Zenon
  <2>9. QED BY <2>2, <2>6, <2>7, <2>8
<1>3. QED BY <1>1, <1>2, Progress

LEMMA AlwaysSnapshots == Spec => []Snapshots
<1>1. Init => Snapshots
  BY DEF Init, Idle, Snapshots, Phase
<1>2. Inv /\ Snapshots /\ [Next]_vars => Snapshots'
  BY SnapshotsStay DEF Inv
<1>3. QED BY <1>1, <1>2, AlwaysInv, PTL DEF Spec

\* What delete_track has read, in statements of its own, is still what the
\* database has when it writes its record and removes the track: a deferred
\* transaction whose snapshot has been overtaken is refused the write, and once
\* it may write nobody else can commit (delete_track, sqlite.rs).
THEOREM RecordsAreCurrent == Spec => []ReadsStayCurrent
<1>1. Inv /\ Snapshots => ReadsStayCurrent
  <2> SUFFICES ASSUME Inv, Snapshots, NEW c \in Client, Call(c).do = "DeleteTrack", Lock(c) = "reserved"
               PROVE  \A t \in DOMAIN session[c].read : session[c].read[t] = Rows(db, t, Call(c).track)
    BY DEF ReadsStayCurrent
  <2>1. Phase(c) = "running"
    BY DEF Inv, Sessions, IsSession, Holds, Call, Lock, Phase, LogsInside
  <2>2. session[c].read = [t \in ToSet(Owned) |-> Rows(db, t, Call(c).track)]
    BY <2>1 DEF Snapshots, Call
  <2>3. QED BY <2>2
<1>2. QED BY <1>1, AlwaysInv, AlwaysSnapshots, PTL

\* A command that is a statement of its own, when it writes.
LEMMA SingleStatement ==
  ASSUME Sessions, NEW c \in Client, Phase(c) = "running", ~InTransaction(Call(c)), ~ReadsOnly(Statement1(c))
  PROVE  Statement1(c) = Call(c) /\ Call(c) \in Single
<1> DEFINE s == session[c]
<1>1. IsSession(s) /\ s.phase = "running" /\ s.call = Call(c)
  BY DEF Sessions, Phase, Call
<1>2. s.lock = "none" /\ IsCommand(s.call) /\ s.call.do # "ResetDatabase"
  BY <1>1 DEF IsSession, Holds, Served
<1>3. (s.pc = 1 /\ s.read = << >>) \/ (s.call.do = "GetTracksWithSources" /\ s.pc = 2)
  BY <1>1, <1>2 DEF IsSession, Holds, Fresh, PageRead
<1>4. s.call.do # "GetTracksWithSources"
  <2> SUFFICES ASSUME s.call.do = "GetTracksWithSources" PROVE FALSE
    OBVIOUS
  <2> DEFINE p == Program(s.call)
  <2>1. /\ p[1] = [do |-> "GetTracks", filter |-> s.call.filter, cursor |-> s.call.cursor, limit |-> s.call.limit]
        /\ p[2] = [do |-> "SourcesOfShown"]
    BY PagesProgram, Zenon
  <2> HIDE DEF p
  <2>2. p[s.pc].do \in {"GetTracks", "SourcesOfShown"}
    BY <1>3, <2>1
  <2>3. Statement1(c) = p[s.pc]
    BY DEF Statement1, Call, p
  <2>4. QED BY <2>2, <2>3 DEF ReadsOnly, Reads
<1>5. Program(s.call) = <<s.call>> /\ s.pc = 1
  BY <1>1, <1>3, <1>4, SingleProgram
<1>6. Statement1(c) = s.call
  BY <1>5 DEF Statement1, Call
<1>7. QED BY <1>1, <1>2, <1>4, <1>6, SinglesAre

LEMMA KeepsAgain ==
  ASSUME NEW d, NEW e, NEW f, IsLibrary(d), IsLibrary(e), IsLibrary(f), Keeps(d, e), Keeps(e, f)
  PROVE  Keeps(d, f)
<1>1. d.next.track \in Nat /\ e.next.track \in Nat /\ f.next.track \in Nat
  BY LibraryParts DEF LibraryFits, NextFits
<1>2. QED BY <1>1 DEF Keeps

\* What is committed is a library, in which the counts of listened time agree.
LEMMA DbStays ==
  ASSUME Sessions, Shelf, Copies, [Next]_vars
  PROVE  IsLibrary(db') /\ TotalsAgree(db')
<1>1. CASE db' = db
  BY <1>1 DEF Copies
<1>2. ASSUME NEW c \in Client, Writes(c) PROVE IsLibrary(db') /\ TotalsAgree(db')
  <2> DEFINE s == session[c]
  <2>1. CASE SwapRepo(c)
    BY <2>1, SwapFinds DEF Copies
  <2>2. CASE Commit(c)
    <3>1. Phase(c) = "running" /\ AllRun(c) /\ db' = View(c)
      BY <2>2 DEF Commit
    <3>2. CASE Lock(c) = "none"
      BY <3>1, <3>2 DEF Copies, View
    <3>3. CASE Lock(c) # "none"
      <4>1. db' = s.work /\ Copy(s)
        BY <3>1, <3>3 DEF Copies, View
      <4>2. ~(s.call.do = "AddListenedSeconds" /\ s.pc = 2)
        <5> SUFFICES ASSUME s.call.do = "AddListenedSeconds", s.pc = 2 PROVE FALSE
          OBVIOUS
        <5>1. Len(Program(s.call)) = 2
          BY CreditProgram
        <5>2. QED BY <3>1, <5>1 DEF AllRun, Over, Call
      <4>3. QED BY <4>1, <4>2 DEF Copy
    <3>4. QED BY <3>2, <3>3
  <2>3. CASE Autocommit(c) /\ ~ReadsOnly(Statement1(c))
    <3>1. Statement1(c) \in Single
      BY <2>3, SingleStatement DEF Autocommit
    <3>2. Statement1(c).do # "GetTracks"
      BY <2>3 DEF ReadsOnly, Reads
    <3>3. db' = Change(Statement1(c), db, s.ids, s.read).db
      BY <2>3, <3>2 DEF Autocommit, Execute
    <3>4. Statement1(c) \notin Credit
      BY <3>1 DEF Single, Assignment, SourceEdit, Credit
    <3>5. IsLibrary(db') /\ SameTime(db, db')
      BY <3>1, <3>3, <3>4, WritesKeep DEF Copies
    <3>6. QED BY <3>5, SameTotals DEF Copies
  <2>4. QED BY <1>2, <2>1, <2>2, <2>3 DEF Writes
<1>3. QED BY <1>1, <1>2, DbMoves

\* So is what resets have put aside or opened.
LEMMA ShelfIsOfLibraries ==
  ASSUME Shelf, Copies, [Next]_vars
  PROVE  \A f \in 1 .. Len(shelf') : IsLibrary(shelf'[f].db) /\ TotalsAgree(shelf'[f].db)
<1>1. CASE UNCHANGED <<file, shelf>>
  BY <1>1 DEF Copies
<1>2. CASE shelf' = Append(shelf, NewFile)
  <2> DEFINE sh == Append(shelf, NewFile)
  <2>1. IsLibrary(NewFile.db) /\ TotalsAgree(NewFile.db)
    BY EmptyLibrary DEF NewFile
  <2>2. /\ Len(sh) = Len(shelf) + 1 /\ Len(shelf) \in Nat
        /\ \A f \in 1 .. Len(shelf) : sh[f] = shelf[f]
        /\ sh[Len(shelf) + 1] = NewFile
    BY ShelfAppends DEF Shelf, IsShelf
  <2> HIDE DEF sh
  <2>3. \A f \in 1 .. Len(sh) : f \in 1 .. Len(shelf) \/ f = Len(shelf) + 1
    BY <2>2
  <2>4. \A f \in 1 .. Len(sh) : IsLibrary(sh[f].db) /\ TotalsAgree(sh[f].db)
    BY <2>1, <2>2, <2>3, Zenon DEF Copies
  <2>5. QED BY <1>2, <2>4 DEF sh
<1>3. ASSUME NEW c \in Client, SwapRepo(c), NEW f \in 1 .. Len(shelf')
      PROVE  IsLibrary(shelf'[f].db) /\ TotalsAgree(shelf'[f].db)
  BY <1>3, SwapFinds, Zenon DEF Copies
<1>4. QED BY <1>1, <1>2, <1>3, FilesMove

LEMMA CopiesStay ==
  ASSUME Sessions, Shelf, Snapshots, Copies, [Next]_vars
  PROVE  Copies'
<1> SUFFICES ASSUME NEW c \in Client, session'[c].phase = "running", session'[c].lock # "none"
             PROVE  Copy(session'[c]) /\ (session'[c].lock = "reserved" => Ahead(db', session'[c]))
  BY DbStays, ShelfIsOfLibraries DEF Copies, Phase, Lock, Copy, Ahead
<1> DEFINE s == session[c]
           z == session'[c]
           st == Statement1(c)
           v == View(c)
           out == Outcome(c)
<1>1. CASE z = s
  <2>1. Copy(s) /\ (s.lock = "reserved" => Ahead(db, s))
    BY <1>1 DEF Copies, Phase, Lock
  <2>2. z.lock = "reserved" => db' = db
    BY ReservedKeepsDb
  <2>3. QED BY <1>1, <2>1, <2>2, Zenon
<1>2. CASE Executes(c)
  <2>1. IsSession(s) /\ s.phase = "running" /\ s.call = Call(c) /\ InTransaction(s.call)
        /\ ~Over(s.call, s.pc, s.read) /\ out.ok /\ db' = db
    BY <1>2 DEF Sessions, Executes, Phase, Call, AllRun
  <2>2. /\ z.call = s.call /\ z.pc = s.pc + 1 /\ z.work = out.db
        /\ z.lock = LockFor(c) /\ z.read = ReadAfter(st, v, s.read)
    BY <1>2 DEF Executes, Call
  <2>3. /\ s.lock \in LockType
        /\ s.lock = "none" => s.pc = 1 \/ s.call.do = "GetTracksWithSources"
        /\ s.lock = "shared" => s.call.do = "DeleteTrack" /\ s.pc \in 2 .. 6
        /\ s.lock = "reserved" /\ s.call.do = "DeleteTrack" => s.pc \in {7, 8}
        /\ s.lock = "reserved" /\ s.call.do # "DeleteTrack" => s.pc \in Nat /\ s.pc > 1
    BY <2>1 DEF IsSession, Holds, Fresh, PageRead, Reading, Writing
  <2>4. v = IF s.lock = "none" THEN db ELSE s.work
    BY DEF View, Lock
  <2>5. s.lock # "none" => Copy(s) /\ (s.lock = "reserved" => Ahead(db, s))
    BY <2>1 DEF Copies, Phase, Lock
  <2>6. IsLibrary(v)
    BY <2>4, <2>5 DEF Copies, Copy
  <2>7. s.call.do # "GetTracksWithSources"
    BY <2>1 DEF InTransaction, LogsInside
  <2>8. CASE s.call.do = "DeleteTrack"
    <3>1. /\ s.pc \in 1 .. 7 /\ (ReadsOnly(st) <=> s.pc < 6)
          /\ s.pc = 6 => st = [do |-> "Archive", track |-> s.call.track]
          /\ s.pc = 7 => st = [do |-> "DeleteTrackRow", track |-> s.call.track]
      BY <2>1, <2>8, NextStatement DEF Statement1
    <3>2. z.lock = IF s.pc < 6 THEN "shared" ELSE "reserved"
      BY <2>2, <3>1 DEF LockFor
    <3>3. TotalsAgree(v)
      BY <2>4, <2>5, <2>8 DEF Copies, Copy
    <3>4. CASE s.pc < 6
      <4>1. z.work = v
        BY <2>2, <3>1, <3>4, ReadsChangeNothing DEF Outcome
      <4>2. QED BY <2>2, <2>6, <2>8, <3>2, <3>3, <3>4, <4>1 DEF Copy
    <3>5. CASE s.pc = 6
      <4>1. s.lock = "shared" /\ z.lock = "reserved" /\ ~ReadsOnly(st)
        BY <2>3, <2>8, <3>1, <3>2, <3>5, <2>7 DEF LockType
      <4>2. v = db
        BY <1>2, <2>4, <4>1 DEF Executes, CanLock, LockFor, Lock
      <4>3. st.do = "Archive" /\ z.read = s.read
        BY <2>2, <3>1, <3>5, <4>1 DEF ReadAfter
      <4>4. z.work = Archive(db, z.read).db
        BY <2>2, <4>1, <4>2, <4>3 DEF Outcome, Execute, Change
      <4>5. /\ IsLibrary(z.work) /\ SameTime(db, z.work) /\ z.work.track = db.track /\ z.work.next = db.next
            /\ z.work.removed = Append(db.removed, z.read)
        BY <2>6, <4>2, <4>4, ArchiveKeeps
      <4>6. TotalsAgree(z.work)
        BY <3>3, <4>2, <4>5, SameTotals
      <4>7. z.pc = 7
        BY <2>2, <3>5
      <4>8. QED BY <2>1, <2>2, <2>8, <4>5, <4>6, <4>7 DEF Copy, Ahead
    <3>6. CASE s.pc = 7
      <4>1. s.lock = "reserved" /\ z.lock = "reserved" /\ ~ReadsOnly(st)
        BY <2>3, <2>8, <3>1, <3>2, <3>6, <2>7 DEF LockType
      <4>2. st.do = "DeleteTrackRow" /\ st.track = s.call.track /\ z.read = s.read
        BY <2>2, <3>1, <3>6, <4>1 DEF ReadAfter
      <4>3. z.work = DeleteTrackRow(s.work, s.call.track).db /\ v = s.work
        BY <2>2, <2>4, <4>1, <4>2 DEF Outcome, Execute, Change
      <4>4. /\ IsLibrary(z.work) /\ SameTime(s.work, z.work)
            /\ DOMAIN z.work.track = DOMAIN s.work.track \ {s.call.track}
            /\ z.work.next = s.work.next /\ z.work.removed = s.work.removed
        BY <2>6, <4>3, DeleteTrackRowKeeps
      <4>5. TotalsAgree(z.work)
        BY <3>3, <4>3, <4>4, SameTotals
      <4>6. /\ s.work.removed = Append(db.removed, s.read) /\ s.work.next = db.next
            /\ DOMAIN s.work.track = DOMAIN db.track
        BY <2>5, <2>8, <3>6, <4>1 DEF Ahead
      <4>7. z.pc = 8
        BY <2>2, <3>6
      <4>8. QED BY <2>1, <2>2, <2>8, <4>2, <4>4, <4>5, <4>6, <4>7 DEF Copy, Ahead
    <3>7. QED BY <3>1, <3>4, <3>5, <3>6
  <2>9. CASE s.call.do # "DeleteTrack"
    <3>1. /\ st \in Write /\ ~ReadsOnly(st)
          /\ s.call.do # "AddListenedSeconds" => st \notin Credit
          /\ s.call.do = "AddListenedSeconds" =>
               /\ s.pc \in {1, 2} /\ st \in Credit /\ st.track = s.call.track /\ st.n = s.call.n
               /\ st.do = IF s.pc = 1 THEN "AddToTotal" ELSE "AddToDay"
      BY <2>1, <2>9, NextStatement, WritesAreNoReads DEF Statement1
    <3>2. out = Change(st, v, s.ids, s.read)
      BY <3>1 DEF Outcome, Execute, ReadsOnly, Reads
    <3>3. IsLibrary(z.work) /\ Keeps(v, z.work) /\ (st \notin Credit => SameTime(v, z.work))
      BY <2>2, <2>6, <3>1, <3>2, WritesKeep
    <3>4. Keeps(db, v)
      <4>1. CASE s.lock = "none"
        BY <2>4, <4>1, Same DEF Copies
      <4>2. CASE s.lock = "reserved"
        BY <2>4, <2>5, <2>9, <4>2 DEF Ahead
      <4>3. QED BY <2>3, <2>9, <4>1, <4>2 DEF LockType
    <3>5. Keeps(db, z.work)
      BY <2>6, <3>3, <3>4, KeepsAgain DEF Copies
    <3>6. Ahead(db', z)
      BY <2>1, <2>2, <2>9, <3>5 DEF Ahead
    <3>7. CASE s.call.do # "AddListenedSeconds"
      <4>1. TotalsAgree(v)
        BY <2>4, <2>5, <3>7 DEF Copies, Copy
      <4>2. TotalsAgree(z.work)
        BY <3>1, <3>3, <3>7, <4>1, SameTotals
      <4>3. QED BY <2>2, <3>3, <3>6, <3>7, <4>2 DEF Copy
    <3>8. CASE s.call.do = "AddListenedSeconds" /\ s.pc = 1
      <4>1. v = db
        BY <2>3, <2>4, <2>9, <3>8 DEF LockType
      <4>2. TotalsAhead(z.work, s.call.track, s.call.n)
        BY <2>2, <2>6, <3>1, <3>2, <3>8, <4>1, CreditsCount DEF Copies
      <4>3. z.pc = 2
        BY <2>2, <3>8
      <4>4. QED BY <2>2, <3>3, <3>6, <3>8, <4>2, <4>3 DEF Copy
    <3>9. CASE s.call.do = "AddListenedSeconds" /\ s.pc = 2
      <4>1. s.lock = "reserved"
        BY <2>3, <2>9, <3>9 DEF LockType
      <4>2. TotalsAhead(v, s.call.track, s.call.n)
        BY <2>4, <2>5, <3>9, <4>1 DEF Copy
      <4>3. TotalsAgree(z.work)
        BY <2>1, <2>2, <2>6, <3>1, <3>2, <3>9, <4>2, CreditsCount
      <4>4. z.pc = 3
        BY <2>2, <3>9
      <4>5. QED BY <2>2, <3>3, <3>6, <3>9, <4>3, <4>4 DEF Copy
    <3>10. QED BY <3>1, <3>7, <3>8, <3>9
  <2>10. QED BY <2>8, <2>9
<1>3. QED BY <1>1, <1>2, Progress

LEMMA AlwaysCopies == Spec => []Copies
<1>1. Init => Copies
  <2> SUFFICES ASSUME Init PROVE Copies
    OBVIOUS
  <2>1. Len(shelf) = 1 /\ shelf[1].db = StartDb
    BY DEF Init
  <2>2. \A f \in 1 .. Len(shelf) : IsLibrary(shelf[f].db) /\ TotalsAgree(shelf[f].db)
    BY <2>1, LibraryAssumption
  <2>3. QED BY <2>2, LibraryAssumption DEF Init, Idle, Copies, Phase
<1>2. Inv /\ Snapshots /\ Copies /\ [Next]_vars => Copies'
  BY CopiesStay DEF Inv
<1>3. QED BY <1>1, <1>2, AlwaysInv, AlwaysSnapshots, PTL DEF Spec

\* Whatever commands run at the same time, whichever of them fail half-way or
\* are given up, what is committed satisfies the constraints of the tables: no
\* row refers to a track or a tag that is gone, names and keys are unique, ids
\* are not drawn again (migrations/0001_init.sql, foreign keys and cascades).
THEOREM LibraryStaysALibrary == Spec => []IsLibrary(db)
<1>1. Copies => IsLibrary(db)
  BY DEF Copies
<1>2. QED BY <1>1, AlwaysCopies, PTL

\* The listened seconds of a track are the sum of its daily counts in every
\* committed database: add_listened_seconds raises one and then the other, and
\* nothing that fails or comes in between is committed with only one of them
\* raised (add_listened_seconds, sqlite.rs).
THEOREM TotalsAreKept == Spec => []TotalsAgreeWithDays
<1>1. Copies => TotalsAgreeWithDays
  BY DEF Copies, TotalsAgreeWithDays
<1>2. QED BY <1>1, AlwaysCopies, PTL

\* A track that leaves the library is on record with its name, time, sources, tags,
\* notes and daily counts as they were in the database that it left, unless another
\* file came into use (delete_track and reset_database).  Its listens are not part
\* of the record: they go with the track (listen_info, a cascade).
THEOREM DeletionsAreRecorded == Spec => DeletedTracksAreOnRecord
<1> DEFINE Recorded(id) == \/ file' # file
                           \/ Last(db'.removed) = [t \in ToSet(Owned) |-> Rows(db, t, id)]
<1>1. ASSUME Sessions, Shelf, Snapshots, Copies, [Next]_vars, NEW id \in DOMAIN db.track \ DOMAIN db'.track
      PROVE  Recorded(id)
  <2>1. PICK c \in Client : Writes(c)
    BY <1>1, DbMoves
  <2> DEFINE s == session[c]
  <2>2. CASE SwapRepo(c)
    BY <1>1, <2>2, SwapFinds
  <2>3. CASE Autocommit(c) /\ ~ReadsOnly(Statement1(c))
    <3>1. Statement1(c) \in Single
      BY <1>1, <2>3, SingleStatement DEF Autocommit
    <3>2. Statement1(c).do # "GetTracks"
      BY <2>3 DEF ReadsOnly, Reads
    <3>3. db' = Change(Statement1(c), db, s.ids, s.read).db
      BY <2>3, <3>2 DEF Autocommit, Execute
    <3>4. Keeps(db, db')
      BY <1>1, <3>1, <3>3, WritesKeep DEF Copies
    <3>5. QED BY <1>1, <3>4 DEF Keeps
  <2>4. CASE Commit(c)
    <3>1. IsSession(s) /\ s.phase = "running" /\ s.call = Call(c) /\ db' = View(c)
      BY <1>1, <2>4 DEF Commit, Sessions, Phase, Call
    <3>2. s.lock # "none" /\ View(c) = s.work
      BY <1>1, <3>1 DEF View, Lock
    <3>3. s.lock = "reserved"
      <4> SUFFICES ASSUME s.lock = "shared" PROVE FALSE
        BY <3>1, <3>2 DEF IsSession, Holds, LockType
      <4>1. s.call.do = "DeleteTrack" /\ s.pc \in 2 .. 6
        BY <3>1 DEF IsSession, Holds, Reading
      <4>2. Len(Program(s.call)) = 7
        BY <4>1, DeleteProgram
      <4>3. QED BY <2>4, <3>1, <4>1, <4>2 DEF Commit, AllRun, Over
    <3>4. Ahead(db, s)
      BY <1>1, <3>1, <3>3 DEF Copies, Phase, Lock
    <3>5. s.call.do = "DeleteTrack"
      BY <1>1, <3>1, <3>2, <3>4 DEF Ahead, Keeps
    <3>6. db'.removed = Append(db.removed, s.read) /\ DOMAIN db.track \ DOMAIN db'.track \subseteq {s.call.track}
      BY <3>1, <3>2, <3>4, <3>5 DEF Ahead
    <3>7. id = s.call.track
      BY <1>1, <3>6
    <3>8. s.read = [t \in ToSet(Owned) |-> Rows(db, t, id)]
      BY <1>1, <3>1, <3>3, <3>5, <3>7 DEF Snapshots, Phase, Call, Lock
    <3>9. Last(Append(db.removed, s.read)) = s.read
      <4>1. db.removed \in Seq(ToSet(db.removed))
        BY <1>1, LibraryParts DEF Copies, LibraryFits
      <4> DEFINE T == ToSet(db.removed) \cup {s.read}
      <4>2. db.removed \in Seq(T) /\ s.read \in T
        BY <4>1
      <4>3. QED BY <4>2 DEF Last
    <3>10. QED BY <3>6, <3>8, <3>9
  <2>5. QED BY <2>1, <2>2, <2>3, <2>4 DEF Writes
<1>2. Inv /\ Snapshots /\ Copies /\ [Next]_vars =>
        [\A id \in DOMAIN db.track \ DOMAIN db'.track : Recorded(id)]_vars
  BY <1>1 DEF Inv
<1>3. QED BY <1>2, AlwaysInv, AlwaysSnapshots, AlwaysCopies, PTL DEF Spec, DeletedTracksAreOnRecord

-----------------------------------------------------------------------------
(* The pages of get_tracks_with_sources.                                   *)

\* Ids are drawn upwards as long as the library is the same.
LEMMA IdsGrow ==
  ASSUME Sessions, Copies, [Next]_vars
  PROVE  db.next.track <= db'.next.track \/ \E c \in Client : SwapRepo(c)
<1>1. CASE db' = db
  BY <1>1, Same DEF Copies, Keeps
<1>2. ASSUME NEW c \in Client, Writes(c), ~SwapRepo(c) PROVE db.next.track <= db'.next.track
  <2> DEFINE s == session[c]
  <2>1. CASE Autocommit(c) /\ ~ReadsOnly(Statement1(c))
    <3>1. Statement1(c) \in Single
      BY <2>1, SingleStatement DEF Autocommit
    <3>2. Statement1(c).do # "GetTracks"
      BY <2>1 DEF ReadsOnly, Reads
    <3>3. db' = Change(Statement1(c), db, s.ids, s.read).db
      BY <2>1, <3>2 DEF Autocommit, Execute
    <3>4. QED BY <3>1, <3>3, WritesKeep DEF Copies, Keeps
  <2>2. CASE Commit(c)
    <3>1. IsSession(s) /\ s.phase = "running" /\ s.call = Call(c) /\ db' = View(c)
      BY <2>2 DEF Commit, Sessions, Phase, Call
    <3>2. CASE s.lock = "none"
      BY <3>1, <3>2, Same DEF Copies, Keeps, View, Lock
    <3>3. CASE s.lock = "reserved"
      <4>1. Ahead(db, s) /\ db' = s.work
        BY <3>1, <3>3 DEF Copies, Phase, Lock, View
      <4>2. db.next.track <= db.next.track
        BY Same DEF Copies, Keeps
      <4>3. QED BY <4>1, <4>2 DEF Ahead, Keeps
    <3>4. CASE s.lock = "shared"
      <4>1. s.call.do = "DeleteTrack" /\ s.pc \in 2 .. 6
        BY <3>1, <3>4 DEF IsSession, Holds, Reading
      <4>2. Len(Program(s.call)) = 7
        BY <4>1, DeleteProgram
      <4>3. QED BY <2>2, <3>1, <4>1, <4>2 DEF Commit, AllRun, Over
    <3>5. QED BY <3>1, <3>2, <3>3, <3>4 DEF IsSession, Holds, LockType
  <2>3. QED BY <1>2, <2>1, <2>2 DEF Writes
<1>3. QED BY <1>1, <1>2, DbMoves

\* A page is read by the first statement, and is not touched before the second.
LEMMA PageMoves ==
  ASSUME Sessions, [Next]_vars, NEW c \in Client,
         session'[c].phase \in {"acquiring", "running"}, PageRead(session'[c].call, session'[c].pc)
  PROVE  \/ /\ session[c].phase \in {"acquiring", "running"} /\ session[c].call = session'[c].call
            /\ session[c].pc = session'[c].pc /\ session[c].read = session'[c].read
         \/ /\ Autocommit(c) /\ Execute(Statement1(c), db, session[c].ids, session[c].read).ok
            /\ session[c].call = session'[c].call /\ session[c].pc = 1
            /\ session'[c].read = ReadAfter(Statement1(c), db, session[c].read)
            /\ ~Over(session[c].call, 2, session'[c].read)
<1> DEFINE s == session[c]
           z == session'[c]
           Still == s.phase \in {"acquiring", "running"} /\ s.call = z.call /\ s.pc = z.pc /\ s.read = z.read
           First == /\ Autocommit(c) /\ Execute(Statement1(c), db, s.ids, s.read).ok
                    /\ s.call = z.call /\ s.pc = 1
                    /\ z.read = ReadAfter(Statement1(c), db, s.read) /\ ~Over(s.call, 2, z.read)
<1>1. DOMAIN s = Fields
  BY DEF Sessions, IsSession, IsRecord
<1>2. CASE z = s
  BY <1>2
<1>3. ASSUME NEW cmd \in Command[c], Dispatch(c, cmd) \/ ResetDatabase(c, cmd) PROVE FALSE
  <2>1. \/ Set(c, Idle)
        \/ Set(c, [Idle EXCEPT !.phase = "acquiring", !.call = cmd])
        \/ Set(c, [Idle EXCEPT !.phase = "creating", !.call = cmd, !.file = Len(shelf)])
    BY <1>3 DEF Dispatch, ResetDatabase, Begin, Say, Answer
  <2>2. CASE Set(c, Idle)
    BY <2>2, SetOne DEF Idle, PageRead
  <2>3. CASE Set(c, [Idle EXCEPT !.phase = "acquiring", !.call = cmd])
    <3>1. z = [Idle EXCEPT !.phase = "acquiring", !.call = cmd]
      BY <2>3, SetOne
    <3>2. z.pc = 1
      BY <3>1 DEF Idle
    <3>3. QED BY <3>2 DEF PageRead
  <2>4. CASE Set(c, [Idle EXCEPT !.phase = "creating", !.call = cmd, !.file = Len(shelf)])
    <3>1. z = [Idle EXCEPT !.phase = "creating", !.call = cmd, !.file = Len(shelf)]
      BY <2>4, SetOne
    <3>2. z.phase = "creating"
      BY <3>1 DEF Idle
    <3>3. QED BY <3>2
  <2>5. QED BY <2>1, <2>2, <2>3, <2>4
<1>4. ASSUME Set(c, Idle) PROVE FALSE
  BY <1>4, SetOne DEF Idle
<1>5. ASSUME CreateRepo(c) PROVE FALSE
  BY <1>5, CreateEnds
<1>6. ASSUME Acquire(c) PROVE Still
  <2>1. z = [s EXCEPT !.phase = "running"] /\ s.phase = "acquiring"
    BY <1>6, SetOne DEF Acquire, Phase
  <2>2. QED BY <1>1, <2>1 DEF Fields
<1>7. ASSUME AcquireTimesOut(c) PROVE FALSE
  <2>1. z = [Idle EXCEPT !.phase = "logging", !.call = Call(c), !.read = session[c].read]
    BY <1>7, SetOne DEF AcquireTimesOut, Dropped
  <2>2. QED BY <2>1 DEF Idle
<1>8. ASSUME NEW l, Failed(c, l) PROVE FALSE
  <2>1. CASE Call(c).do \in LogsInside
    <3>1. z = [s EXCEPT !.phase = "failed", !.lock = l]
      BY <1>8, <2>1, SetOne DEF Failed
    <3>2. QED BY <1>1, <3>1 DEF Fields
  <2>2. CASE Call(c).do \notin LogsInside
    <3>1. z = [Idle EXCEPT !.phase = "logging", !.call = Call(c), !.read = session[c].read]
      BY <1>8, <2>2, SetOne DEF Failed, Dropped
    <3>2. QED BY <3>1 DEF Idle
  <2>3. QED BY <2>1, <2>2
<1>9. ASSUME Autocommit(c) PROVE First
  <2> DEFINE read == ReadAfter(Statement1(c), db, s.read)
  <2>1. /\ Execute(Statement1(c), db, s.ids, s.read).ok /\ ~Over(Call(c), s.pc + 1, read)
        /\ Set(c, [s EXCEPT !.phase = "acquiring", !.pc = @ + 1, !.read = read])
    BY <1>4, <1>8, <1>9 DEF Autocommit, Answer
  <2> HIDE DEF read
  <2>2. z = [s EXCEPT !.phase = "acquiring", !.pc = @ + 1, !.read = read]
    BY <2>1, SetOne
  <2>3. z.call = s.call /\ z.read = read /\ z.pc = s.pc + 1
    BY <1>1, <2>2 DEF Fields
  <2>4. s.phase = "running" /\ s.lock = "none" /\ IsSession(s)
    BY <1>9 DEF Autocommit, Sessions, IsSession, Holds, Phase, Call
  <2>5. s.pc \in {1, 2}
    BY <2>4 DEF IsSession, Holds, Fresh, PageRead
  <2>6. s.pc = 1
    BY <2>3, <2>5 DEF PageRead
  <2>7. QED BY <1>9, <2>1, <2>3, <2>6 DEF read, Call
<1>10. ASSUME Statement(c) PROVE FALSE
  <2>1. \/ Failed(c, LockFor(c))
        \/ \E work, ids, read :
             Set(c, [s EXCEPT !.pc = @ + 1, !.lock = LockFor(c), !.work = work, !.ids = ids, !.read = read])
    BY <1>10 DEF Statement
  <2>2. PICK work, ids, read :
          Set(c, [s EXCEPT !.pc = @ + 1, !.lock = LockFor(c), !.work = work, !.ids = ids, !.read = read])
    BY <1>8, <2>1
  <2>3. z = [s EXCEPT !.pc = @ + 1, !.lock = LockFor(c), !.work = work, !.ids = ids, !.read = read]
    BY <2>2, SetOne
  <2>4. z.call = s.call
    BY <1>1, <2>3 DEF Fields
  <2>5. QED BY <1>10, <2>4 DEF Statement, PageRead, InTransaction, LogsInside, Call
<1>11. ASSUME Step(c) PROVE Still \/ First
  <2>1. ASSUME SwapRepo(c) \/ Commit(c) \/ LogError(c) PROVE FALSE
    BY <1>4, <2>1 DEF SwapRepo, Swap, EndReset, Commit, LogError, Say, Answer
  <2>2. ASSUME Busy(c) PROVE FALSE
    BY <1>8, <2>2, DroppedPhase DEF Busy
  <2>3. QED BY <1>5, <1>6, <1>7, <1>9, <1>10, <1>11, <2>1, <2>2 DEF Step
<1>12. ASSUME NEW o \in Client, o # c, LocksMove(o) PROVE Still
  BY <1>2, <1>12 DEF LocksMove, OthersRest
<1>13. ASSUME NEW o \in Client, \/ \E cmd \in Command[o] : Dispatch(o, cmd) \/ ResetDatabase(o, cmd)
                               \/ Step(o)
       PROVE  Still \/ First
  BY <1>3, <1>11, <1>12, <1>13, StepMoves, ArrivalMoves
<1>14. CASE UNCHANGED session
  BY <1>2, <1>14
<1>15. QED BY <1>13, <1>14 DEF Next, Panic, HangUp, IntervalPasses, vars

\* The two statements, and what they find.
LEMMA PageStatements ==
  ASSUME NEW c \in Client, Call(c).do = "GetTracksWithSources"
  PROVE  /\ session[c].pc = 1 =>
              /\ Statement1(c).do = "GetTracks" /\ ReadsOnly(Statement1(c))
              /\ \A d, read : Found(Statement1(c), d, read) \subseteq DOMAIN d.track
         /\ session[c].pc = 2 => Statement1(c) = [do |-> "SourcesOfShown"]
<1> DEFINE p == Program(Call(c))
           first == [do |-> "GetTracks", filter |-> Call(c).filter, cursor |-> Call(c).cursor, limit |-> Call(c).limit]
<1>1. p[1] = first /\ p[2] = [do |-> "SourcesOfShown"]
  BY PagesProgram, Zenon
<1>2. first.do = "GetTracks"
  OBVIOUS
<1> HIDE DEF p, first
<1>3. Statement1(c) = p[session[c].pc]
  BY DEF Statement1, p
<1>4. \A st, d, read : st.do = "GetTracks" => Found(st, d, read) = Page(d, st.filter, st.cursor, st.limit)
  BY DEF Found
<1>5. \A d, f, cursor, n : Page(d, f, cursor, n) \subseteq DOMAIN d.track
  BY DEF Page, Matching, Below, From
<1>6. QED BY <1>1, <1>2, <1>3, <1>4, <1>5 DEF ReadsOnly, Reads

LEMMA PagesStay ==
  ASSUME Sessions, Shelf, Copies, Pages, [Next]_vars
  PROVE  Pages'
<1> SUFFICES ASSUME NEW c \in Client, session'[c].phase \in {"acquiring", "running"},
                    PageRead(session'[c].call, session'[c].pc)
             PROVE  /\ DOMAIN session'[c].read = {"GetTracks"}
                    /\ session'[c].read["GetTracks"] # {}
                    /\ session'[c].read["GetTracks"] \subseteq 1 .. db'.next.track - 1
  BY DEF Pages, Phase, Call
<1> DEFINE s == session[c]
           z == session'[c]
           st == Statement1(c)
<1>1. db.next.track \in Nat /\ db'.next.track \in Nat /\ DOMAIN db.track \subseteq 1 .. db.next.track - 1
  BY DbStays, LibraryParts DEF Copies, LibraryFits, NextFits, TracksFit
<1>2. CASE /\ s.phase \in {"acquiring", "running"} /\ s.call = z.call
           /\ s.pc = z.pc /\ s.read = z.read
  <2>1. c \in Dispatched
    BY <1>2 DEF Dispatched, Phase
  <2>2. db.next.track <= db'.next.track
    BY <2>1, IdsGrow DEF SwapRepo
  <2>3. /\ DOMAIN s.read = {"GetTracks"} /\ s.read["GetTracks"] # {}
        /\ s.read["GetTracks"] \subseteq 1 .. db.next.track - 1
    BY <1>2 DEF Pages, Phase, Call
  <2>4. QED BY <1>1, <1>2, <2>2, <2>3
<1>3. CASE /\ Autocommit(c) /\ Execute(st, db, s.ids, s.read).ok
           /\ s.call = z.call /\ s.pc = 1
           /\ z.read = ReadAfter(st, db, s.read) /\ ~Over(s.call, 2, z.read)
  <2>1. Call(c) = s.call /\ s.call.do = "GetTracksWithSources" /\ IsSession(s) /\ s.phase = "running"
    BY <1>3 DEF Autocommit, Sessions, Phase, Call, PageRead
  <2>2. s.read = << >>
    BY <1>3, <2>1 DEF IsSession, Holds, Fresh, PageRead, Reading, Writing, LockType, Autocommit
  <2>3. st.do = "GetTracks" /\ ReadsOnly(st) /\ Found(st, db, s.read) \subseteq DOMAIN db.track
    BY <1>3, <2>1, PageStatements
  <2>4. db' = db
    BY <1>3, <2>3, ReadsChangeNothing DEF Autocommit
  <2>5. z.read = [t \in {"GetTracks"} |-> Found(st, db, s.read)]
    <3>1. ReadAfter(st, db, s.read)
            = [t \in DOMAIN s.read \cup {"GetTracks"} |-> IF t = "GetTracks" THEN Found(st, db, s.read) ELSE s.read[t]]
      BY <2>3 DEF ReadAfter
    <3>2. DOMAIN s.read = {}
      BY <2>2
    <3>3. QED BY <1>3, <3>1, <3>2
  <2>6. z.read["GetTracks"] # {}
    BY <1>3, <2>1 DEF Over
  <2>7. QED BY <1>1, <2>3, <2>4, <2>5, <2>6
<1>4. QED BY <1>2, <1>3, PageMoves

LEMMA AlwaysPages == Spec => []Pages
<1>1. Init => Pages
  BY DEF Init, Idle, Pages, Phase
<1>2. Inv /\ Copies /\ Pages /\ [Next]_vars => Pages'
  BY PagesStay DEF Inv
<1>3. QED BY <1>1, <1>2, AlwaysInv, AlwaysCopies, PTL DEF Spec

\* An answer reaches the client it is for.
LEMMA AnswerReaches ==
  ASSUME Rest, NEW c \in Client, NEW o \in Client, NEW status, NEW ids, NEW read,
         Answer(o, status, ids, read), reply'[c] # reply[c]
  PROVE  o = c /\ reply'[c].status = status /\ reply'[c].ids = ids /\ reply'[c].read = read
<1> DEFINE r == [status |-> status, ids |-> ids, read |-> read]
<1>1. r.status = status /\ r.ids = ids /\ r.read = read
  OBVIOUS
<1> HIDE DEF r
<1>2. reply' = [reply EXCEPT ![o] = r]
  BY DEF Answer, r
<1>3. QED BY <1>1, <1>2 DEF Rest

\* A command is answered with "ok" when it has run to its end.
Finishes(c) ==
  LET s == session[c]
      read == ReadAfter(Statement1(c), db, s.read)
  IN /\ Autocommit(c) /\ Execute(Statement1(c), db, s.ids, s.read).ok /\ Over(Call(c), s.pc + 1, read)
     /\ reply'[c].ids = s.ids /\ reply'[c].read = Shown(Call(c), read)

LEMMA OkAnswers ==
  ASSUME Sessions, Rest, [Next]_vars, NEW c \in Client, reply'[c] # reply[c], reply'[c].status = "ok"
  PROVE  \/ SwapRepo(c)
         \/ Commit(c) /\ reply'[c].ids = session[c].ids /\ reply'[c].read = Shown(Call(c), session[c].read)
         \/ Finishes(c)
<1> DEFINE Good == \/ SwapRepo(c)
                   \/ Commit(c) /\ reply'[c].ids = session[c].ids /\ reply'[c].read = Shown(Call(c), session[c].read)
                   \/ Finishes(c)
<1>1. ASSUME NEW o \in Client, NEW status \in {"error", "ignored"}, NEW ids, NEW read, Answer(o, status, ids, read)
      PROVE  FALSE
  BY <1>1, AnswerReaches
<1>2. ASSUME NEW o \in Client, NEW cmd \in Command[o], Dispatch(o, cmd) \/ ResetDatabase(o, cmd) PROVE FALSE
  <2>1. \E status \in {"error", "ignored"} : Answer(o, status, << >>, << >>)
    BY <1>2 DEF Dispatch, ResetDatabase, Say
  <2>2. QED BY <1>1, <2>1
<1>3. ASSUME NEW o \in Client, Step(o) PROVE Good
  <2>1. CASE SwapRepo(o)
    BY <2>1, AnswerReaches DEF SwapRepo, Swap, EndReset, Say
  <2>2. CASE Commit(o)
    BY <2>2, AnswerReaches DEF Commit
  <2>3. CASE Autocommit(o)
    <3> DEFINE read == ReadAfter(Statement1(o), db, session[o].read)
    <3>1. /\ Execute(Statement1(o), db, session[o].ids, session[o].read).ok
          /\ Over(Call(o), session[o].pc + 1, read)
          /\ Answer(o, "ok", session[o].ids, Shown(Call(o), read))
      BY <2>3 DEF Autocommit
    <3>2. /\ o = c /\ reply'[c].ids = session[o].ids
          /\ reply'[c].read = Shown(Call(o), read)
      BY <3>1, AnswerReaches
    <3>3. QED BY <2>3, <3>1, <3>2 DEF Finishes
  <2>4. CASE LogError(o)
    BY <1>1, <2>4 DEF LogError, Say
  <2>5. CASE Acquire(o) \/ AcquireTimesOut(o) \/ Statement(o) \/ Busy(o)
    BY <2>5 DEF Acquire, AcquireTimesOut, Statement, Busy
  <2>6. CASE CreateRepo(o)
    <3>1. UNCHANGED reply \/ Answer(o, "error", << >>, << >>)
      BY <2>6 DEF CreateRepo, Open, EndReset, Say
    <3>2. QED BY <1>1, <3>1
  <2>7. QED BY <1>3, <2>1, <2>2, <2>3, <2>4, <2>5, <2>6 DEF Step
<1>4. QED BY <1>2, <1>3 DEF Next, Panic, HangUp, IntervalPasses, vars

\* A track is shown with the sources it has in the database that the second
\* statement of get_tracks_with_sources reads, and its id was drawn there, even
\* when the track was removed or others came in since its page was read: the
\* page outlives no replacement of the database, which waits for the command
\* (get_tracks_with_sources, dispatch.rs; reset_database).
THEOREM TracksAreShownAsTheyAre == Spec => ShownTracksAreOfOneDatabase
<1> DEFINE Of(t) == t.track < db.next.track /\ t.urls = {r.of : r \in RowsOf(db, "sources", t.track)}
           Asked(c) == reply'[c] # reply[c] /\ Call(c).do = "GetTracksWithSources" /\ reply'[c].status = "ok"
<1>1. ASSUME Sessions, Rest, Copies, Pages, [Next]_vars, NEW c \in Client, Asked(c), NEW t \in reply'[c].read.tracks
      PROVE  Of(t)
  <2> DEFINE s == session[c]
             st == Statement1(c)
             read == ReadAfter(st, db, s.read)
  <2>1. Finishes(c)
    <3>1. ASSUME SwapRepo(c) PROVE FALSE
      <4>1. s.phase = "swapping" /\ IsSession(s)
        BY <1>1, <3>1 DEF SwapRepo, Phase, Sessions
      <4>2. QED BY <1>1, <4>1 DEF IsSession, Holds, Served, Call
    <3>2. ASSUME Commit(c) PROVE FALSE
      BY <1>1, <3>2 DEF Commit, InTransaction, LogsInside
    <3>3. QED BY <1>1, <3>1, <3>2, OkAnswers
  <2>2. /\ s.phase = "running" /\ IsSession(s) /\ s.call.do = "GetTracksWithSources"
        /\ Over(Call(c), s.pc + 1, read) /\ reply'[c].read = Shown(Call(c), read)
    BY <1>1, <2>1 DEF Finishes, Autocommit, Sessions, Phase, Call
  <2>3. s.pc = 1 \/ s.pc = 2
    BY <2>2 DEF IsSession, Holds, Fresh, PageRead, InTransaction, LogsInside
  <2> DEFINE page == read["GetTracks"]
             sources == IF page = {} THEN {} ELSE read["SourcesOfShown"]
  <2>4. reply'[c].read = [tracks |-> WithSources(page, sources)]
    BY <1>1, <2>2 DEF Shown, ReadsOnly, Reads
  <2>5. t \in WithSources(page, sources)
    BY <1>1, <2>4
  <2>6. CASE s.pc = 1
    <3>1. Len(Program(Call(c))) = 2
      BY <1>1, PagesProgram
    <3>2. page = {}
      BY <2>2, <2>6, <3>1 DEF Over
    <3>3. QED BY <2>5, <3>2 DEF WithSources
  <2>7. CASE s.pc = 2
    <3>1. /\ DOMAIN s.read = {"GetTracks"} /\ s.read["GetTracks"] # {}
          /\ s.read["GetTracks"] \subseteq 1 .. db.next.track - 1
      BY <1>1, <2>2, <2>7 DEF Pages, PageRead, Phase, Call
    <3>2. st = [do |-> "SourcesOfShown"]
      BY <1>1, <2>7, PageStatements
    <3>3. st.do = "SourcesOfShown" /\ ReadsOnly(st)
      BY <3>2 DEF ReadsOnly, Reads
    <3>4. read = [x \in {"GetTracks", "SourcesOfShown"} |-> IF x = "SourcesOfShown" THEN Found(st, db, s.read) ELSE s.read[x]]
      BY <3>1, <3>3 DEF ReadAfter
    <3>5. Found(st, db, s.read) = {r \in db.rows["sources"] : r.track \in s.read["GetTracks"]}
      BY <3>3 DEF Found, SourcesOfShown
    <3>6. page = s.read["GetTracks"] /\ sources = {r \in db.rows["sources"] : r.track \in page}
      BY <3>1, <3>4, <3>5
    <3> HIDE DEF page, sources
    <3>7. PICK id \in page : t = [track |-> id, urls |-> {r.of : r \in {q \in sources : q.track = id}}]
      BY <2>5 DEF WithSources
    <3>8. t.track = id /\ t.urls = {r.of : r \in {q \in sources : q.track = id}}
      BY <3>7
    <3>9. {q \in sources : q.track = id} = RowsOf(db, "sources", id)
      BY <3>6, <3>7 DEF RowsOf
    <3>10. db.next.track \in Nat
      BY <1>1, LibraryParts DEF Copies, LibraryFits, NextFits
    <3>11. QED BY <3>1, <3>6, <3>8, <3>9, <3>10
  <2>8. QED BY <2>3, <2>6, <2>7
<1>2. Inv /\ Copies /\ Pages /\ [Next]_vars => [\A c \in Client : Asked(c) => \A t \in reply'[c].read.tracks : Of(t)]_vars
  BY <1>1 DEF Inv
<1>3. QED BY <1>2, AlwaysInv, AlwaysCopies, AlwaysPages, PTL DEF Spec, ShownTracksAreOfOneDatabase

\* In every library that commands can make, a page is a window on the tracks
\* that match, in the order of their ids: n before the cursor and n from it on,
\* whether or not those fill the page (get_tracks and get_tracks_filtered, sqlite.rs).
THEOREM PagesFollowTheOrder == Spec => []PagesAreWindows
<1>1. ASSUME Copies PROVE PagesAreWindows
  <2>1. \A f : \A cursor \in Int : \A n \in Nat \ {0} : Page(db, f, cursor, n) = Window(Matching(db, f), cursor, n)
    BY <1>1, PageOfLibrary DEF Copies
  <2>2. \A f : \A cursor \in {2, 4} : \A n \in 1 .. 2 :
          Page(db, f, cursor, n)
            = {id \in Matching(db, f) :
                 /\ Cardinality({o \in Matching(db, f) : o < id}) + n >= Cardinality({o \in Matching(db, f) : o < cursor})
                 /\ Cardinality({o \in Matching(db, f) : o < id}) < Cardinality({o \in Matching(db, f) : o < cursor}) + n}
    BY <2>1 DEF Window, Place
  <2>3. QED BY <2>2 DEF PagesAreWindows
<1>2. QED BY <1>1, AlwaysCopies, PTL

-----------------------------------------------------------------------------
(* What a transaction has done so far is what its statements do alone on   *)
(* the database that it read, which is the committed one once it may write.*)

StateOf(s) == [ok |-> TRUE, db |-> s.work, ids |-> s.ids, read |-> s.read]
Base(d, s) == IF s.lock = "reserved" THEN d ELSE s.work
Ran ==
  \A c \in Client : Phase(c) \in {"acquiring", "running"} =>
    LET s == session[c]
    IN /\ s.lock = "none" => s.ids = << >>
       /\ s.lock # "none" =>
            /\ s.pc - 1 \in 1 .. Len(Program(s.call))
            /\ Run(Program(s.call), Base(db, s), << >>)[s.pc - 1] = StateOf(s)

LEMMA ProgramLength ==
  ASSUME NEW cmd, IsCommand(cmd), InTransaction(cmd)
  PROVE  Len(Program(cmd)) \in Nat
<1>1. CASE cmd.do = "DeleteTrack"
  BY <1>1, DeleteProgram
<1>2. CASE cmd.do = "AddListenedSeconds"
  BY <1>2, CreditProgram
<1>3. CASE cmd.do \notin {"DeleteTrack", "AddListenedSeconds"}
  BY <1>3, WriterPrograms
<1>4. QED BY <1>1, <1>2, <1>3

\* Without a lock there is nothing but what the command came with.
LEMMA UnlockedIds ==
  ASSUME Sessions, [Next]_vars, NEW c \in Client,
         session'[c].phase \in {"acquiring", "running"}, session'[c].lock = "none"
  PROVE  \/ session'[c].ids = << >>
         \/ /\ session[c].phase \in {"acquiring", "running"} /\ session[c].lock = "none"
            /\ session'[c].ids = session[c].ids
<1> DEFINE s == session[c]
           z == session'[c]
           Good == z.ids = << >> \/ (s.phase \in {"acquiring", "running"} /\ s.lock = "none" /\ z.ids = s.ids)
<1>1. DOMAIN s = Fields
  BY DEF Sessions, IsSession, IsRecord
<1>2. CASE z = s
  BY <1>2
<1>3. ASSUME Set(c, Idle) PROVE Good
  BY <1>3, SetOne DEF Idle
<1>4. ASSUME NEW cmd, NEW p, Set(c, [Idle EXCEPT !.phase = p, !.call = cmd]) PROVE Good
  <2>1. z = [Idle EXCEPT !.phase = p, !.call = cmd]
    BY <1>4, SetOne
  <2>2. z.ids = << >>
    BY <2>1 DEF Idle
  <2>3. QED BY <2>2
<1>5. ASSUME NEW cmd, Set(c, [Idle EXCEPT !.phase = "creating", !.call = cmd, !.file = Len(shelf)]) PROVE Good
  <2>1. z = [Idle EXCEPT !.phase = "creating", !.call = cmd, !.file = Len(shelf)]
    BY <1>5, SetOne
  <2>2. z.ids = << >>
    BY <2>1 DEF Idle
  <2>3. QED BY <2>2
<1>6. ASSUME NEW cmd \in Command[c], Dispatch(c, cmd) \/ ResetDatabase(c, cmd) PROVE Good
  <2>1. \/ Set(c, Idle)
        \/ Set(c, [Idle EXCEPT !.phase = "acquiring", !.call = cmd])
        \/ Set(c, [Idle EXCEPT !.phase = "creating", !.call = cmd, !.file = Len(shelf)])
    BY <1>6 DEF Dispatch, ResetDatabase, Begin, Say, Answer
  <2>2. QED BY <1>3, <1>4, <1>5, <2>1
<1>7. ASSUME CreateRepo(c) PROVE Good
  <2>1. z.phase \in {"idle", "swapping"}
    BY <1>7, CreateEnds
  <2>2. QED BY <2>1
<1>8. ASSUME Acquire(c) PROVE Good
  <2>1. z = [s EXCEPT !.phase = "running"] /\ s.phase = "acquiring"
    BY <1>8, SetOne DEF Acquire, Phase
  <2>2. QED BY <1>1, <2>1 DEF Fields
<1>9. ASSUME AcquireTimesOut(c) PROVE FALSE
  <2>1. z = [Idle EXCEPT !.phase = "logging", !.call = Call(c), !.read = session[c].read]
    BY <1>9, SetOne DEF AcquireTimesOut, Dropped
  <2>2. QED BY <2>1 DEF Idle
<1>10. ASSUME NEW l, Failed(c, l) PROVE FALSE
  <2>1. CASE Call(c).do \in LogsInside
    <3>1. z = [s EXCEPT !.phase = "failed", !.lock = l]
      BY <1>10, <2>1, SetOne DEF Failed
    <3>2. QED BY <1>1, <3>1 DEF Fields
  <2>2. CASE Call(c).do \notin LogsInside
    <3>1. z = [Idle EXCEPT !.phase = "logging", !.call = Call(c), !.read = session[c].read]
      BY <1>10, <2>2, SetOne DEF Failed, Dropped
    <3>2. QED BY <3>1 DEF Idle
  <2>3. QED BY <2>1, <2>2
<1>11. ASSUME Autocommit(c) PROVE Good
  <2>1. CASE \E read : Set(c, [s EXCEPT !.phase = "acquiring", !.pc = @ + 1, !.read = read])
    <3>1. PICK read : z = [s EXCEPT !.phase = "acquiring", !.pc = @ + 1, !.read = read]
      BY <2>1, SetOne
    <3>2. z.ids = s.ids /\ z.lock = s.lock
      BY <1>1, <3>1 DEF Fields
    <3>3. QED BY <1>11, <3>2 DEF Autocommit, Phase
  <2>2. QED BY <1>3, <1>10, <1>11, <2>1 DEF Autocommit, Answer
<1>12. ASSUME Statement(c) PROVE FALSE
  <2>1. \/ Failed(c, LockFor(c))
        \/ \E work, ids, read :
             Set(c, [s EXCEPT !.pc = @ + 1, !.lock = LockFor(c), !.work = work, !.ids = ids, !.read = read])
    BY <1>12 DEF Statement
  <2>2. PICK work, ids, read :
          Set(c, [s EXCEPT !.pc = @ + 1, !.lock = LockFor(c), !.work = work, !.ids = ids, !.read = read])
    BY <1>10, <2>1
  <2>3. z = [s EXCEPT !.pc = @ + 1, !.lock = LockFor(c), !.work = work, !.ids = ids, !.read = read]
    BY <2>2, SetOne
  <2>4. z.lock = LockFor(c)
    BY <1>1, <2>3 DEF Fields
  <2>5. QED BY <2>4 DEF LockFor
<1>13. ASSUME Step(c) PROVE Good
  <2>1. ASSUME SwapRepo(c) \/ Commit(c) \/ LogError(c) PROVE Good
    BY <1>3, <2>1 DEF SwapRepo, Swap, EndReset, Commit, LogError, Say, Answer
  <2>2. ASSUME Busy(c) PROVE FALSE
    BY <1>10, <2>2, DroppedPhase DEF Busy
  <2>3. QED BY <1>7, <1>8, <1>9, <1>11, <1>12, <1>13, <2>1, <2>2 DEF Step
<1>14. ASSUME NEW o \in Client, o # c, LocksMove(o) PROVE Good
  BY <1>2, <1>14 DEF LocksMove, OthersRest
<1>15. ASSUME NEW o \in Client, \/ \E cmd \in Command[o] : Dispatch(o, cmd) \/ ResetDatabase(o, cmd)
                               \/ Step(o)
       PROVE  Good
  BY <1>6, <1>13, <1>14, <1>15, StepMoves, ArrivalMoves
<1>16. CASE UNCHANGED session
  BY <1>2, <1>16
<1>17. QED BY <1>15, <1>16 DEF Next, Panic, HangUp, IntervalPasses, vars

LEMMA RunsOn ==
  ASSUME NEW d, NEW ids, NEW read, NEW st, Execute(st, d, ids, read).ok
  PROVE  RunNext([ok |-> TRUE, db |-> d, ids |-> ids, read |-> read], st)
           = [ok |-> TRUE, db |-> Execute(st, d, ids, read).db,
              ids |-> IdsAfter(st, Execute(st, d, ids, read).db, ids), read |-> ReadAfter(st, d, read)]
<1> DEFINE x == [ok |-> TRUE, db |-> d, ids |-> ids, read |-> read]
           out == Execute(st, d, ids, read)
<1>1. x.ok /\ x.db = d /\ x.ids = ids /\ x.read = read
  OBVIOUS
<1> HIDE DEF x
<1>2. RunNext(x, st) = [ok |-> out.ok, db |-> out.db, ids |-> IdsAfter(st, out.db, ids), read |-> ReadAfter(st, d, read)]
  BY <1>1 DEF RunNext
<1>3. out.ok = TRUE
  BY DEF Execute, GetTracks, When, Done, Fail, Change
<1>4. QED BY <1>2, <1>3 DEF x

LEMMA RanStays ==
  ASSUME Sessions, Ran, [Next]_vars
  PROVE  Ran'
<1> SUFFICES ASSUME NEW c \in Client, session'[c].phase \in {"acquiring", "running"}
             PROVE  LET s == session'[c]
                    IN /\ s.lock = "none" => s.ids = << >>
                       /\ s.lock # "none" =>
                            /\ s.pc - 1 \in 1 .. Len(Program(s.call))
                            /\ Run(Program(s.call), Base(db', s), << >>)[s.pc - 1] = StateOf(s)
  BY DEF Ran, Phase, Base, StateOf
<1> DEFINE s == session[c]
           z == session'[c]
           st == Statement1(c)
<1>1. z.lock = "none" => z.ids = << >>
  BY UnlockedIds DEF Ran, Phase
<1>2. ASSUME z.lock # "none"
      PROVE  /\ z.pc - 1 \in 1 .. Len(Program(z.call))
             /\ Run(Program(z.call), Base(db', z), << >>)[z.pc - 1] = StateOf(z)
  <2>1. z.phase = "running"
    BY <1>2, SessionsStay DEF Sessions, IsSession, Holds
  <2>2. z.lock = "reserved" => db' = db
    BY ReservedKeepsDb
  <2>3. CASE z = s
    <3>1. Base(db', z) = Base(db, s)
      BY <2>2, <2>3 DEF Base
    <3>2. /\ s.pc - 1 \in 1 .. Len(Program(s.call))
          /\ Run(Program(s.call), Base(db, s), << >>)[s.pc - 1] = StateOf(s)
      BY <1>2, <2>1, <2>3 DEF Ran, Phase
    <3>3. QED BY <2>3, <3>1, <3>2
  <2>4. CASE Executes(c)
    <3> DEFINE list == Program(s.call)
               start == IF s.lock = "reserved" THEN db ELSE View(c)
    <3>1. IsSession(s) /\ s.phase = "running" /\ InTransaction(s.call) /\ ~Over(s.call, s.pc, s.read)
      BY <2>4 DEF Sessions, Executes, Phase, Call, AllRun
    <3>2. IsCommand(s.call) /\ Len(list) \in Nat
      BY <3>1, ProgramLength DEF IsSession, Holds, NoCall, InTransaction, LogsInside
    <3>3. s.pc \in Nat /\ s.pc > 0 /\ ~(s.pc > Len(list))
      <4>1. /\ s.call.do = "DeleteTrack" => s.pc \in 1 .. 7
            /\ s.call.do # "DeleteTrack" => s.pc \in Nat /\ s.pc > 0
        BY <3>1, NextStatement
      <4>2. ~(s.pc > Len(list))
        BY <3>1 DEF Over
      <4>3. QED BY <4>1, <4>2
    <3>4. /\ s.call.do = "DeleteTrack" => (ReadsOnly(st) <=> s.pc < 6)
          /\ s.call.do # "DeleteTrack" => ~ReadsOnly(st)
      BY <3>1, NextStatement, WritesAreNoReads DEF Statement1, Call
    <3>5. /\ s.lock \in LockType
          /\ s.lock = "none" => s.pc = 1 /\ s.read = << >> /\ s.ids = << >>
          /\ s.lock = "reserved" => ~ReadsOnly(st)
      <4>1. s.call.do # "GetTracksWithSources"
        BY <3>1 DEF InTransaction, LogsInside
      <4>2. s.lock \in LockType /\ (s.lock = "none" => s.pc = 1 /\ s.read = << >>)
        BY <3>1, <4>1 DEF IsSession, Holds, Fresh, PageRead
      <4>3. s.lock = "none" => s.ids = << >>
        BY <3>1 DEF Ran, Phase
      <4>4. s.lock = "reserved" => ~ReadsOnly(st)
        BY <3>1, <3>4 DEF IsSession, Holds, Writing
      <4>5. QED BY <4>2, <4>3, <4>4
    <3>6. Run(list, start, << >>)[s.pc - 1] = [ok |-> TRUE, db |-> View(c), ids |-> s.ids, read |-> s.read]
      <4>1. CASE s.lock = "none"
        <5>1. start = View(c) /\ s.pc - 1 = 0
          BY <3>5, <4>1
        <5>2. Run(list, start, << >>)[0] = RunStart(start, << >>)
          BY <3>2, RunSteps
        <5>3. QED BY <3>5, <4>1, <5>1, <5>2 DEF RunStart
      <4>2. CASE s.lock # "none"
        <5>1. View(c) = s.work /\ start = Base(db, s)
          BY <4>2 DEF View, Lock, Base
        <5>2. Run(list, Base(db, s), << >>)[s.pc - 1] = StateOf(s)
          BY <3>1, <4>2 DEF Ran, Phase
        <5>3. QED BY <5>1, <5>2 DEF StateOf
      <4>3. QED BY <4>1, <4>2
    <3>7. /\ z.call = s.call /\ z.pc = s.pc + 1 /\ z.work = Outcome(c).db
          /\ z.ids = IdsAfter(st, Outcome(c).db, s.ids) /\ z.read = ReadAfter(st, View(c), s.read)
          /\ z.lock = (IF ReadsOnly(st) THEN "shared" ELSE "reserved")
      BY <2>4 DEF Executes, Call, LockFor
    <3>8. start = Base(db', z)
      <4>1. CASE ReadsOnly(st)
        <5>1. Outcome(c).db = View(c)
          BY <4>1, ReadsChangeNothing DEF Outcome
        <5>2. QED BY <3>5, <3>7, <4>1, <5>1 DEF Base
      <4>2. CASE ~ReadsOnly(st)
        <5>1. z.lock = "reserved" /\ db' = db
          BY <2>2, <3>7, <4>2
        <5>2. s.lock = "shared" => s.work = db
          BY <2>4, <4>2 DEF Executes, CanLock, LockFor, Lock
        <5>3. start = db
          BY <3>5, <5>2 DEF View, Lock, LockType
        <5>4. QED BY <5>1, <5>3 DEF Base
      <4>3. QED BY <4>1, <4>2
    <3>9. st = list[s.pc]
      BY DEF Statement1, Call
    <3>10. Run(list, start, << >>)[s.pc] = RunNext(Run(list, start, << >>)[s.pc - 1], st)
      <4>1. \A k \in 1 .. Len(list) : Run(list, start, << >>)[k] = RunNext(Run(list, start, << >>)[k - 1], list[k])
        BY <3>2, RunSteps
      <4>2. s.pc \in 1 .. Len(list)
        BY <3>2, <3>3
      <4>3. QED BY <3>9, <4>1, <4>2
    <3>11. Execute(st, View(c), s.ids, s.read).ok /\ Outcome(c) = Execute(st, View(c), s.ids, s.read)
      BY <2>4 DEF Executes, Outcome
    <3>12. Run(list, start, << >>)[s.pc] = StateOf(z)
      <4> DEFINE x == [ok |-> TRUE, db |-> View(c), ids |-> s.ids, read |-> s.read]
      <4>1. RunNext(x, st) = [ok |-> TRUE, db |-> Outcome(c).db,
                              ids |-> IdsAfter(st, Outcome(c).db, s.ids), read |-> ReadAfter(st, View(c), s.read)]
        BY <3>11, RunsOn
      <4>2. Run(list, start, << >>)[s.pc] = RunNext(x, st)
        BY <3>6, <3>10
      <4> HIDE DEF x
      <4>3. QED BY <3>7, <4>1, <4>2 DEF StateOf
    <3>13. z.pc - 1 = s.pc
      BY <3>3, <3>7
    <3>14. s.pc \in 1 .. Len(list)
      BY <3>2, <3>3
    <3> HIDE DEF z, s, start
    <3>15. QED BY <3>7, <3>8, <3>12, <3>13, <3>14
  <2>5. QED BY <1>2, <2>1, <2>3, <2>4, Progress
<1>3. QED BY <1>1, <1>2

LEMMA AlwaysRan == Spec => []Ran
<1>1. Init => Ran
  BY DEF Init, Idle, Ran, Phase
<1>2. Inv /\ Ran /\ [Next]_vars => Ran'
  BY RanStays DEF Inv
<1>3. QED BY <1>1, <1>2, AlwaysInv, PTL DEF Spec

-----------------------------------------------------------------------------
(* Resets that overlap, and one that does not.                             *)

\* A reset on its own opens a file that nobody else has: the newest one when it
\* begins to sleep is still the newest when it names its own, and nobody puts
\* anything into that one before it comes into use.
Crowds ==
  /\ crowded \subseteq Resetting
  /\ \A c \in Resetting \ crowded :
       /\ Resetting = {c}
       /\ Phase(c) = "creating" => session[c].file = Len(shelf)
       /\ Phase(c) = "swapping" => session[c].file # file /\ shelf[session[c].file].db = EmptyDb

LEMMA OthersKeepCrowds ==
  ASSUME Crowds, NEW c \in Client, OthersRest(c), c \notin Resetting,
         session'[c].phase \notin {"creating", "swapping"}, UNCHANGED files
  PROVE  Crowds'
<1>1. crowded' = crowded /\ file' = file /\ shelf' = shelf
  BY DEF files
<1>2. \A o \in Resetting : session'[o] = session[o]
  BY DEF OthersRest, Resetting
<1>3. Resetting' = Resetting
  BY DEF OthersRest, Resetting, Phase
<1>4. QED BY <1>1, <1>2, <1>3 DEF Crowds, Phase

LEMMA EndKeepsCrowds ==
  ASSUME Crowds, NEW c \in Client, OthersRest(c), c \in Resetting,
         session'[c].phase \notin {"creating", "swapping"}, crowded' = crowded \ {c}
  PROVE  Crowds'
<1>1. Resetting' = Resetting \ {c}
  BY DEF OthersRest, Resetting, Phase
<1>2. Resetting' \ crowded' = {}
  BY <1>1 DEF Crowds
<1>3. QED BY <1>1, <1>2 DEF Crowds

LEMMA StartKeepsCrowds ==
  ASSUME Crowds, NEW c \in Client, OthersRest(c), session'[c].phase = "creating", session'[c].file = Len(shelf),
         crowded' = IF Resetting = {} THEN crowded ELSE crowded \cup Resetting \cup {c}, UNCHANGED <<file, shelf>>
  PROVE  Crowds'
<1>1. Resetting' = Resetting \cup {c}
  BY DEF OthersRest, Resetting, Phase
<1>2. CASE Resetting = {}
  <2>1. Resetting' = {c} /\ crowded' = {}
    BY <1>1, <1>2 DEF Crowds
  <2>2. QED BY <2>1 DEF Crowds, Phase
<1>3. CASE Resetting # {}
  <2>1. crowded' \subseteq Resetting' /\ Resetting' \ crowded' = {}
    BY <1>1, <1>3 DEF Crowds
  <2>2. QED BY <2>1 DEF Crowds
<1>4. QED BY <1>2, <1>3

LEMMA OpenKeepsCrowds ==
  ASSUME Sessions, Shelf, Crowds, [Next]_vars, NEW c \in Client, CreateRepo(c), session'[c].phase = "swapping"
  PROVE  Crowds'
<1>1. c \in Resetting /\ Phase(c) = "creating"
  BY CreateMoves DEF Resetting
<1>2. OthersRest(c)
  BY StepMoves DEF Step, LocksMove
<1>3. Resetting' = Resetting
  BY <1>1, <1>2 DEF Resetting, OthersRest, Phase
<1>4. crowded' = crowded /\ file' = file
  <2>1. ASSUME EndReset(c, "error") PROVE FALSE
    BY <2>1, SetOne DEF EndReset, Say, Answer, Idle
  <2>2. QED BY <2>1 DEF CreateRepo, Open
<1>5. \/ session'[c].file = Len(shelf) + 1 /\ shelf' = Append(shelf, NewFile)
      \/ session'[c].file = Len(shelf) /\ Len(shelf) > session[c].file
  <2>1. session'[c] # session[c]
    BY <1>1 DEF Phase
  <2>2. QED BY <2>1, SwappingMoves, Zenon
<1>6. ASSUME c \notin crowded
      PROVE  Resetting = {c} /\ session'[c].file # file' /\ shelf'[session'[c].file].db = EmptyDb
  <2>1. Resetting = {c} /\ session[c].file = Len(shelf)
    BY <1>1, <1>6 DEF Crowds
  <2>2. Len(shelf) \in Nat /\ file \in 1 .. Len(shelf)
    BY DEF Shelf, IsShelf
  <2>3. session'[c].file = Len(shelf) + 1 /\ shelf' = Append(shelf, NewFile)
    BY <1>5, <2>1, <2>2
  <2>4. Append(shelf, NewFile)[Len(shelf) + 1] = NewFile
    BY ShelfAppends DEF Shelf
  <2>5. NewFile.db = EmptyDb
    BY DEF NewFile
  <2>6. QED BY <1>4, <2>1, <2>2, <2>3, <2>4, <2>5
<1>7. \A o \in Resetting \ crowded : o = c
  BY <1>1 DEF Crowds
<1>8. QED BY <1>3, <1>4, <1>6, <1>7 DEF Crowds, Phase

LEMMA CrowdsStay ==
  ASSUME Sessions, Shelf, Crowds, [Next]_vars
  PROVE  Crowds'
<1>1. ASSUME NEW c \in Client, NEW cmd \in Command[c], Dispatch(c, cmd) PROVE Crowds'
  <2>1. OthersRest(c) /\ c \notin Resetting
    BY <1>1, ArrivalMoves DEF LocksMove, Dispatch, Resetting
  <2>2. Set(c, Idle) \/ Set(c, [Idle EXCEPT !.phase = "acquiring", !.call = cmd])
    BY <1>1 DEF Dispatch, Begin, Say, Answer
  <2>3. Idle.phase = "idle" /\ [Idle EXCEPT !.phase = "acquiring", !.call = cmd].phase = "acquiring"
    BY DEF Idle
  <2>4. session'[c].phase \notin {"creating", "swapping"}
    BY <2>2, <2>3, SetOne
  <2>5. QED BY <1>1, <2>1, <2>4, OthersKeepCrowds DEF Dispatch
<1>2. ASSUME NEW c \in Client, NEW cmd \in Command[c], ResetDatabase(c, cmd) PROVE Crowds'
  <2>1. OthersRest(c) /\ c \notin Resetting
    BY <1>2, ArrivalMoves DEF LocksMove, ResetDatabase, Resetting
  <2>2. CASE is_test
    <3>1. session'[c] = [Idle EXCEPT !.phase = "creating", !.call = cmd, !.file = Len(shelf)]
      BY <1>2, <2>2, SetOne DEF ResetDatabase
    <3>2. session'[c].phase = "creating" /\ session'[c].file = Len(shelf)
      BY <3>1 DEF Idle
    <3>3. QED BY <1>2, <2>1, <2>2, <3>2, StartKeepsCrowds DEF ResetDatabase
  <2>3. CASE ~is_test
    <3>1. session'[c] = Idle /\ UNCHANGED files
      BY <1>2, <2>3, SetOne DEF ResetDatabase, Say, Answer, files
    <3>2. session'[c].phase \notin {"creating", "swapping"}
      BY <3>1 DEF Idle
    <3>3. QED BY <2>1, <3>1, <3>2, OthersKeepCrowds
  <2>4. QED BY <2>2, <2>3
<1>3. ASSUME NEW c \in Client, Step(c) PROVE Crowds'
  <2>1. OthersRest(c)
    BY <1>3, StepMoves DEF LocksMove
  <2>2. CASE CreateRepo(c)
    <3>1. c \in Resetting
      BY <2>2, CreateMoves DEF Resetting
    <3>2. CASE session'[c].phase = "swapping"
      BY <2>2, <3>2, OpenKeepsCrowds
    <3>3. CASE session'[c].phase # "swapping"
      <4>1. session'[c].phase = "idle"
        BY <2>2, <3>3, CreateEnds
      <4>2. ASSUME NEW f, Open(c, f) PROVE FALSE
        <5>1. session'[c] = Opening(session[c], f)
          BY <4>2, SetOne DEF Open, Opening
        <5>2. IsSession(session[c]) /\ session[c].phase = "creating"
          BY <2>2, CreateMoves DEF Sessions, Phase
        <5>3. QED BY <3>3, <5>1, <5>2, OpenIs
      <4>3. crowded' = crowded \ {c}
        BY <2>2, <4>2 DEF CreateRepo, EndReset
      <4>4. QED BY <2>1, <3>1, <4>1, <4>3, EndKeepsCrowds
    <3>4. QED BY <3>2, <3>3
  <2>3. CASE SwapRepo(c)
    <3>1. c \in Resetting /\ session'[c] = Idle /\ crowded' = crowded \ {c}
      BY <2>3, SetOne DEF SwapRepo, Swap, EndReset, Say, Answer, Resetting
    <3>2. session'[c].phase \notin {"creating", "swapping"}
      BY <3>1 DEF Idle
    <3>3. QED BY <2>1, <3>1, <3>2, EndKeepsCrowds
  <2>4. CASE ~CreateRepo(c) /\ ~SwapRepo(c)
    <3>1. c \notin Resetting /\ UNCHANGED files
      BY <1>3, <2>4 DEF Step, Acquire, AcquireTimesOut, Statement, Commit, Autocommit, Busy, LogError, Resetting
    <3>2. session'[c].phase \notin {"creating", "swapping"}
      BY <1>3, <2>4, StepPhases
    <3>3. QED BY <2>1, <3>1, <3>2, OthersKeepCrowds
  <2>5. QED BY <2>2, <2>3, <2>4
<1>4. CASE UNCHANGED <<session, files>>
  BY <1>4 DEF Crowds, Resetting, Phase, files
<1>5. QED BY <1>1, <1>2, <1>3, <1>4 DEF Next, Panic, HangUp, IntervalPasses, vars, files

LEMMA AlwaysCrowds == Spec => []Crowds
<1>1. Init => Crowds
  BY DEF Init, Idle, Crowds, Resetting, Phase
<1>2. Inv /\ Crowds /\ [Next]_vars => Crowds'
  BY CrowdsStay DEF Inv
<1>3. QED BY <1>1, <1>2, AlwaysInv, PTL DEF Spec

-----------------------------------------------------------------------------
(* The library implements its service.                                     *)

PendingCalls == [c \in Client |-> Call(c)]
SeenPages == [c \in Client |-> IF Call(c).do = "GetTracksWithSources" THEN session[c].read ELSE << >>]
Aside == {EmptyDb} \cup {shelf[f].db : f \in DOMAIN shelf \ {file}}

\* Only resets are counted as overlapping.
LEMMA ResettingIs ==
  ASSUME Sessions
  PROVE  Service!Resetting = Resetting
<1>1. \A c \in Client : Call(c).do = "ResetDatabase" <=> Phase(c) \in {"creating", "swapping"}
  BY DEF Sessions, IsSession, Holds, NoCall, Served, Call, Phase
<1>2. QED BY <1>1 DEF Service!Resetting, Resetting, PendingCalls

LEMMA NotCrowded ==
  ASSUME Sessions, Crowds, NEW c \in Client, Call(c).do # "ResetDatabase"
  PROVE  crowded \ {c} = crowded
<1>1. c \notin Resetting
  BY DEF Sessions, IsSession, Holds, NoCall, Served, Call, Phase, Resetting
<1>2. QED BY <1>1 DEF Crowds

LEMMA ServiceMoves ==
  ASSUME Sessions, NEW c \in Client, NEW z, Set(c, z)
  PROVE  /\ PendingCalls' = [PendingCalls EXCEPT ![c] = z.call]
         /\ SeenPages' = [SeenPages EXCEPT ![c] = IF z.call.do = "GetTracksWithSources" THEN z.read ELSE << >>]
<1>1. session'[c] = z /\ \A o \in Client \ {c} : session'[o] = session[o]
  BY SetOne
<1>2. PendingCalls' = [PendingCalls EXCEPT ![c] = z.call]
  BY <1>1 DEF PendingCalls, Call
<1>3. SeenPages' = [SeenPages EXCEPT ![c] = IF z.call.do = "GetTracksWithSources" THEN z.read ELSE << >>]
  BY <1>1 DEF SeenPages, Call
<1>4. QED BY <1>2, <1>3

\* The service does not see a session that keeps its command and its page.
LEMMA ServiceStutters ==
  ASSUME Sessions, NEW c \in Client, NEW z, Set(c, z), z.call = Call(c),
         Call(c).do = "GetTracksWithSources" => z.read = session[c].read
  PROVE  PendingCalls' = PendingCalls /\ SeenPages' = SeenPages
<1>1. session'[c] = z /\ \A o \in Client \ {c} : session'[o] = session[o]
  BY SetOne
<1>2. QED BY <1>1 DEF PendingCalls, SeenPages, Call

LEMMA ServiceAnswers ==
  ASSUME Sessions, NEW c \in Client, NEW status, NEW ids, NEW read, Answer(c, status, ids, read), UNCHANGED left,
         crowded' = crowded \ {c}
  PROVE  Service!Answered(c, status, ids, read)
<1>1. Idle.call = NoCall /\ NoCall.do # "GetTracksWithSources" /\ NoCall = Service!NoCall
  BY DEF Idle, NoCall, Service!NoCall
<1>2. PendingCalls' = [PendingCalls EXCEPT ![c] = Service!NoCall] /\ SeenPages' = [SeenPages EXCEPT ![c] = << >>]
  BY <1>1, ServiceMoves DEF Answer
<1>3. QED BY <1>2 DEF Service!Answered, Answer, PendingCalls, SeenPages

\* A command that has failed is not answered yet.
LEMMA FailedStutters ==
  ASSUME Sessions, NEW c \in Client, NEW l, Failed(c, l)
  PROVE  PendingCalls' = PendingCalls /\ SeenPages' = SeenPages
<1>1. CASE Call(c).do \in LogsInside
  <2> DEFINE z == [session[c] EXCEPT !.phase = "failed", !.lock = l]
  <2>1. z.call = Call(c) /\ z.read = session[c].read
    BY DEF Sessions, IsSession, IsRecord, Fields, Call
  <2>2. Set(c, z)
    BY <1>1 DEF Failed
  <2> HIDE DEF z
  <2>3. QED BY <2>1, <2>2, ServiceStutters
<1>2. CASE Call(c).do \notin LogsInside
  <2> DEFINE z == [Idle EXCEPT !.phase = "logging", !.call = Call(c), !.read = session[c].read]
  <2>1. z.call = Call(c) /\ z.read = session[c].read
    BY DEF Idle
  <2>2. Set(c, z)
    BY <1>2 DEF Failed, Dropped
  <2> HIDE DEF z
  <2>3. QED BY <2>1, <2>2, ServiceStutters
<1>3. QED BY <1>1, <1>2

\* A statement that is refused changes nothing.
LEMMA RefusedChangesNothing ==
  ASSUME NEW st \in Single, NEW d, NEW ids, NEW read, ~Change(st, d, ids, read).ok
  PROVE  Change(st, d, ids, read).db = d
<1>1. \A ok, e : When(ok, d, e).ok \/ When(ok, d, e).db = d
  BY DEF When, Done, Fail
<1>2. \A e : Done(e).ok
  BY DEF Done
<1>3. CASE st.do \in {"UpdateTrack", "AddTag", "EditTag", "AddMeta", "AddListen"}
  BY <1>1, <1>3, Zenon DEF Change, UpdateTrack, AddTag, EditTag, AddListen, InsertNumbered
<1>4. CASE st.do \in {"UpdateMeta", "DeleteMeta", "DeleteTag", "RemoveTag", "RemoveTrackSource"}
  BY <1>2, <1>4, Zenon DEF Change, UpdateMeta, DeleteMeta, DeleteTag, DeleteRow, RemoveTrackSource
<1>5. CASE st.do \in {"AssignTag", "AddTrackSource"}
  BY <1>1, <1>5, Zenon DEF Change, AssignTags, AddTrackSource, InsertRows
<1>6. QED BY <1>3, <1>4, <1>5 DEF Single, Assignment, SourceEdit

LEMMA ServicePerforms ==
  ASSUME Sessions, Crowds, NEW c \in Client, Call(c).do \notin {"None", "ResetDatabase"}, NEW done,
         done = RunAlone(Call(c), db, SeenPages[c]), done.ok, db' = done.db,
         NEW shown, shown = Shown(Call(c), done.read),
         Answer(c, "ok", done.ids, shown), UNCHANGED <<left, files>>
  PROVE  Service!Perform(c)
<1>1. PendingCalls[c] = Call(c)
  BY DEF PendingCalls
<1>2. Service!Answered(c, "ok", done.ids, shown)
  BY NotCrowded, ServiceAnswers DEF files
<1>3. Service!Answered(c, "ok", done.ids, Shown(PendingCalls[c], done.read))
  BY <1>1, <1>2 DEF Service!Answered
<1>4. PendingCalls[c].do \notin {"None", "ResetDatabase"}
  BY <1>1
<1>5. RunAlone(PendingCalls[c], db, SeenPages[c]) = done
  BY <1>1
<1>6. QED BY <1>3, <1>4, <1>5 DEF Service!Perform, Service!Answered, PendingCalls, SeenPages, files

\* A transaction that commits has done what it does alone on the database that
\* is committed.
LEMMA CommitRan ==
  ASSUME Sessions, Ran, NEW c \in Client, Commit(c)
  PROVE  Run(Program(Call(c)), db, << >>)[Len(Program(Call(c)))]
           = [ok |-> TRUE, db |-> View(c), ids |-> session[c].ids, read |-> session[c].read]
<1> DEFINE s == session[c]
           list == Program(Call(c))
           done == [ok |-> TRUE, db |-> View(c), ids |-> s.ids, read |-> s.read]
<1>1. IsSession(s) /\ s.phase = "running" /\ s.call = Call(c) /\ InTransaction(Call(c))
  BY DEF Commit, Sessions, Phase, Call
<1>2. IsCommand(Call(c)) /\ Len(list) \in Nat /\ Call(c).do \notin {"None", "ResetDatabase", "GetTracksWithSources"}
  BY <1>1, ProgramLength DEF IsSession, Holds, NoCall, InTransaction, LogsInside
<1>3. s.pc > Len(list)
  BY <1>2 DEF Commit, AllRun, Over
<1>4. Run(list, db, << >>)[Len(list)] = done
  <2>1. CASE s.lock = "none"
    <3>1. s.pc = 1 /\ s.read = << >> /\ s.ids = << >> /\ View(c) = db
      BY <1>1, <1>2, <2>1 DEF IsSession, Holds, Fresh, PageRead, Ran, Phase, View, Lock
    <3>2. Len(list) = 0
      BY <1>2, <1>3, <3>1
    <3>3. Run(list, db, << >>)[0] = RunStart(db, << >>)
      BY <1>2, RunSteps
    <3>4. QED BY <3>1, <3>2, <3>3 DEF RunStart
  <2>2. CASE s.lock = "reserved"
    <3>1. s.pc - 1 \in 1 .. Len(list) /\ Run(list, Base(db, s), << >>)[s.pc - 1] = StateOf(s)
      BY <1>1, <2>2 DEF Ran, Phase
    <3>2. s.pc \in Int
      BY <1>1, <2>2 DEF IsSession, Holds, Writing
    <3>3. s.pc - 1 = Len(list)
      BY <1>2, <1>3, <3>1, <3>2
    <3>4. Base(db, s) = db /\ View(c) = s.work
      BY <2>2 DEF Base, View, Lock
    <3>5. QED BY <3>1, <3>3, <3>4 DEF StateOf
  <2>3. CASE s.lock = "shared"
    <3>1. s.call.do = "DeleteTrack" /\ s.pc \in 2 .. 6
      BY <1>1, <2>3 DEF IsSession, Holds, Reading
    <3>2. Len(list) = 7
      BY <1>1, <3>1, DeleteProgram
    <3>3. QED BY <1>3, <3>1, <3>2
  <2>4. QED BY <1>1, <2>1, <2>2, <2>3 DEF IsSession, Holds, LockType
<1>5. QED BY <1>4

LEMMA CommitPerforms ==
  ASSUME Sessions, Crowds, Ran, NEW c \in Client, Commit(c)
  PROVE  Service!Perform(c)
<1> DEFINE s == session[c]
           done == [ok |-> TRUE, db |-> View(c), ids |-> s.ids, read |-> s.read]
<1>1. s.call = Call(c) /\ IsSession(s) /\ s.phase = "running" /\ InTransaction(Call(c))
  BY DEF Commit, Sessions, Phase, Call
<1>2. Call(c).do \notin {"None", "ResetDatabase", "GetTracksWithSources"}
  BY <1>1 DEF InTransaction, LogsInside
<1>3. done = RunAlone(Call(c), db, << >>)
  BY CommitRan DEF RunAlone
<1>4. done.ok /\ done.db = View(c) /\ done.ids = s.ids /\ done.read = s.read
  OBVIOUS
<1>5. SeenPages[c] = << >>
  BY <1>2 DEF SeenPages
<1>6. db' = View(c) /\ Answer(c, "ok", s.ids, Shown(Call(c), s.read)) /\ UNCHANGED <<left, files>>
  BY DEF Commit
<1> HIDE DEF done, s
<1>7. QED BY <1>2, <1>3, <1>4, <1>5, <1>6, ServicePerforms

\* The last statement of a command without a transaction.
Ends(c) ==
  /\ Autocommit(c) /\ Execute(Statement1(c), db, session[c].ids, session[c].read).ok
  /\ Over(Call(c), session[c].pc + 1, ReadAfter(Statement1(c), db, session[c].read))

\* A command that is a single statement.
LEMMA SinglePerforms ==
  ASSUME Sessions, Crowds, Ran, NEW c \in Client, Ends(c), Call(c).do # "GetTracksWithSources"
  PROVE  Service!Perform(c)
<1> DEFINE s == session[c]
           cmd == Call(c)
           out == Execute(cmd, db, s.ids, s.read)
           read == ReadAfter(cmd, db, s.read)
           done == [ok |-> TRUE, db |-> out.db, ids |-> << >>, read |-> read]
<1>1. IsSession(s) /\ s.phase = "running" /\ s.call = cmd /\ ~InTransaction(cmd)
  BY DEF Ends, Autocommit, Sessions, Phase, Call
<1>2. IsCommand(cmd) /\ cmd.do \notin {"None", "ResetDatabase"} /\ s.lock = "none"
  BY <1>1 DEF IsSession, Holds, Served, IsCommand, OfOneTrack
<1>3. s.pc = 1 /\ s.read = << >> /\ s.ids = << >>
  BY <1>1, <1>2 DEF IsSession, Holds, Fresh, PageRead, Ran, Phase
<1>4. Program(cmd) = <<cmd>>
  BY <1>1, SingleProgram
<1>5. Statement1(c) = cmd
  BY <1>3, <1>4 DEF Statement1
<1>6. out.ok /\ db' = out.db /\ Answer(c, "ok", s.ids, Shown(cmd, read)) /\ UNCHANGED <<left, files>>
  BY <1>5 DEF Ends, Autocommit
<1>7. Run(<<cmd>>, db, << >>)[1] = done
  <2> DEFINE start == [ok |-> TRUE, db |-> db, ids |-> s.ids, read |-> s.read]
  <2>1. RunStart(db, << >>) = start
    BY <1>3 DEF RunStart
  <2>2. Len(<<cmd>>) = 1 /\ <<cmd>>[1] = cmd
    OBVIOUS
  <2>3. Run(<<cmd>>, db, << >>)[1] = RunNext(Run(<<cmd>>, db, << >>)[0], cmd)
    <3> DEFINE list == <<cmd>>
    <3> HIDE DEF list
    <3>1. \A k \in 1 .. 1 : Run(list, db, << >>)[k] = RunNext(Run(list, db, << >>)[k - 1], list[k])
      BY <2>2, RunSteps DEF list
    <3>2. Run(list, db, << >>)[1] = RunNext(Run(list, db, << >>)[0], list[1])
      BY <3>1
    <3>3. QED BY <2>2, <3>2 DEF list
  <2>4. Run(<<cmd>>, db, << >>)[0] = RunStart(db, << >>)
    BY <2>2, RunSteps
  <2>5. RunNext(start, cmd) = [ok |-> TRUE, db |-> out.db, ids |-> IdsAfter(cmd, out.db, s.ids), read |-> read]
    BY <1>6, RunsOn
  <2>6. cmd.do # "InsertTracks"
    BY <1>2 DEF IsCommand, OfOneTrack
  <2>7. IdsAfter(cmd, out.db, s.ids) = << >>
    BY <1>3, <2>6 DEF IdsAfter
  <2> HIDE DEF start, out, read
  <2>8. QED BY <2>1, <2>3, <2>4, <2>5, <2>7
<1>8. done = RunAlone(cmd, db, << >>)
  <2>1. Len(<<cmd>>) = 1
    OBVIOUS
  <2> HIDE DEF done, cmd
  <2>2. QED BY <1>4, <1>7, <2>1 DEF RunAlone
<1>9. done.ok /\ done.db = out.db /\ done.ids = << >> /\ done.read = read
  OBVIOUS
<1>10. SeenPages[c] = << >>
  BY DEF SeenPages
<1> HIDE DEF done, out, read
<1>11. QED BY <1>2, <1>3, <1>6, <1>8, <1>9, <1>10, ServicePerforms

LEMMA ReadsOn ==
  ASSUME NEW d, NEW ids, NEW read, NEW st, ReadsOnly(st), Execute(st, d, ids, read).ok
  PROVE  RunNext([ok |-> TRUE, db |-> d, ids |-> ids, read |-> read], st)
           = [ok |-> TRUE, db |-> d, ids |-> ids, read |-> ReadAfter(st, d, read)]
<1> DEFINE out == Execute(st, d, ids, read)
<1>1. out.db = d
  BY ReadsChangeNothing
<1>2. IdsAfter(st, d, ids) = ids
  BY DEF IdsAfter, ReadsOnly, Reads
<1>3. RunNext([ok |-> TRUE, db |-> d, ids |-> ids, read |-> read], st)
        = [ok |-> TRUE, db |-> out.db, ids |-> IdsAfter(st, out.db, ids), read |-> ReadAfter(st, d, read)]
  BY RunsOn
<1> HIDE DEF out
<1>4. QED BY <1>1, <1>2, <1>3

LEMMA SourcesAreFound ==
  ASSUME NEW d, NEW ids, NEW read
  PROVE  Execute([do |-> "SourcesOfShown"], d, ids, read).ok
BY DEF Execute, ReadsOnly, Reads, Finds, When, Done

\* get_tracks_with_sources ends with an empty page, which has no sources, or
\* with the sources of the page it has read before.
LEMMA PagePerforms ==
  ASSUME Sessions, Crowds, Ran, Pages, NEW c \in Client, Ends(c), Call(c).do = "GetTracksWithSources"
  PROVE  Service!Perform(c)
<1> DEFINE s == session[c]
           cmd == Call(c)
           list == Program(cmd)
           two == [do |-> "SourcesOfShown"]
           read == ReadAfter(Statement1(c), db, s.read)
<1>1. IsSession(s) /\ s.phase = "running" /\ s.call = cmd /\ ~InTransaction(cmd)
  BY DEF Ends, Autocommit, Sessions, Phase, Call
<1>2. s.lock = "none" /\ s.ids = << >> /\ ((s.pc = 1 /\ s.read = << >>) \/ s.pc = 2)
  <2>1. s.lock = "none"
    BY <1>1 DEF IsSession, Holds
  <2>2. QED BY <1>1, <2>1 DEF IsSession, Holds, Fresh, PageRead, Ran, Phase
<1>3. Len(list) = 2 /\ list[2] = two
  BY PagesProgram
<1>4. /\ Execute(Statement1(c), db, s.ids, s.read).ok /\ Answer(c, "ok", s.ids, Shown(cmd, read))
      /\ db' = Execute(Statement1(c), db, s.ids, s.read).db /\ UNCHANGED <<left, files>>
      /\ Over(cmd, s.pc + 1, read)
  BY DEF Ends, Autocommit
<1>5. two.do = "SourcesOfShown" /\ ReadsOnly(two)
  BY DEF ReadsOnly, Reads
<1>6. \A d, before : /\ Run(list, d, before)[0] = RunStart(d, before)
                     /\ \A k \in 1 .. 2 : Run(list, d, before)[k] = RunNext(Run(list, d, before)[k - 1], list[k])
  BY <1>3, RunSteps
<1>7. CASE s.pc = 1 /\ s.read = << >>
  <2> DEFINE one == list[1]
             all == ReadAfter(two, db, read)
             done == [ok |-> TRUE, db |-> db, ids |-> << >>, read |-> all]
  <2>1. Statement1(c) = one /\ one.do = "GetTracks" /\ ReadsOnly(one)
    BY <1>7, PageStatements DEF Statement1
  <2>2. db' = db
    BY <1>4, <2>1, ReadsChangeNothing
  <2>3. read = ReadAfter(one, db, << >>) /\ Execute(one, db, << >>, << >>).ok
    BY <1>2, <1>4, <1>7, <2>1
  <2>4. Run(list, db, << >>)[1] = [ok |-> TRUE, db |-> db, ids |-> << >>, read |-> read]
    <3>1. RunStart(db, << >>) = [ok |-> TRUE, db |-> db, ids |-> << >>, read |-> << >>]
      BY DEF RunStart
    <3>2. Run(list, db, << >>)[1] = RunNext(Run(list, db, << >>)[0], one) /\ Run(list, db, << >>)[0] = RunStart(db, << >>)
      <4>1. 1 - 1 = 0 /\ 1 \in 1 .. 2
        OBVIOUS
      <4> HIDE DEF list
      <4>2. Run(list, db, << >>)[1] = RunNext(Run(list, db, << >>)[1 - 1], list[1])
        BY <1>6, <4>1
      <4>3. QED BY <1>6, <4>1, <4>2
    <3>3. RunNext([ok |-> TRUE, db |-> db, ids |-> << >>, read |-> << >>], one)
            = [ok |-> TRUE, db |-> db, ids |-> << >>, read |-> ReadAfter(one, db, << >>)]
      BY <2>1, <2>3, ReadsOn
    <3> HIDE DEF one, read
    <3>4. QED BY <2>3, <3>1, <3>2, <3>3
  <2>5. Run(list, db, << >>)[2] = done
    <3>1. Run(list, db, << >>)[2] = RunNext(Run(list, db, << >>)[1], two)
      <4>1. 2 - 1 = 1 /\ 2 \in 1 .. 2
        OBVIOUS
      <4> HIDE DEF list
      <4>2. Run(list, db, << >>)[2] = RunNext(Run(list, db, << >>)[2 - 1], list[2])
        BY <1>6, <4>1
      <4>3. QED BY <1>3, <4>1, <4>2
    <3>2. RunNext([ok |-> TRUE, db |-> db, ids |-> << >>, read |-> read], two) = done
      <4>1. Execute(two, db, << >>, read).ok
        BY SourcesAreFound
      <4> HIDE DEF two
      <4>2. QED BY <1>5, <4>1, ReadsOn
    <3> HIDE DEF read, done
    <3>3. QED BY <2>4, <3>1, <3>2
  <2>6. done = RunAlone(cmd, db, << >>)
    <3> HIDE DEF done, cmd
    <3>1. QED BY <1>3, <2>5 DEF RunAlone
  <2>7. done.ok /\ done.db = db /\ done.ids = << >> /\ done.read = all
    OBVIOUS
  <2>8. SeenPages[c] = << >>
    BY <1>7 DEF SeenPages
  <2>9. read["GetTracks"] = {} /\ "GetTracks" \in DOMAIN read
    <3>1. ~(1 + 1 > Len(list))
      BY <1>3
    <3>2. read["GetTracks"] = {}
      BY <1>4, <1>7, <3>1 DEF Over
    <3>3. DOMAIN read = DOMAIN << >> \cup {"GetTracks"}
      <4> HIDE DEF one
      <4>1. DOMAIN ReadAfter(one, db, << >>) = DOMAIN << >> \cup {"GetTracks"}
        BY <2>1 DEF ReadAfter
      <4>2. QED BY <2>3, <4>1
    <3>4. QED BY <3>2, <3>3
  <2>10. all["GetTracks"] = {}
    <3> HIDE DEF read, two
    <3>1. all = [t \in DOMAIN read \cup {"SourcesOfShown"} |-> IF t = "SourcesOfShown" THEN Found(two, db, read) ELSE read[t]]
      BY <1>5 DEF ReadAfter
    <3> HIDE DEF all
    <3>2. QED BY <2>9, <3>1
  <2>11. Shown(cmd, read) = Shown(cmd, done.read)
    <3> HIDE DEF all, read, done
    <3>1. QED BY <2>7, <2>9, <2>10 DEF Shown, ReadsOnly, Reads
  <2> HIDE DEF done, all, read
  <2>12. QED BY <1>2, <1>4, <2>2, <2>6, <2>7, <2>8, <2>11, ServicePerforms
<1>8. CASE s.pc = 2
  <2> DEFINE done == [ok |-> TRUE, db |-> db, ids |-> << >>, read |-> read]
  <2>1. Statement1(c) = two
    BY <1>8, PageStatements
  <2>2. db' = db
    BY <1>4, <1>5, <2>1, ReadsChangeNothing
  <2>3. DOMAIN s.read = {"GetTracks"}
    BY <1>1, <1>8 DEF Pages, PageRead, Phase, Call
  <2>4. s.read # << >>
    BY <2>3
  <2>5. SeenPages[c] = s.read
    BY DEF SeenPages
  <2>6. Tail(list) = <<two>>
    BY DEF Program, GetTracksWithSources
  <2>7. Run(<<two>>, db, s.read)[1] = done
    <3> DEFINE rest == <<two>>
    <3>1. Len(rest) = 1 /\ rest[1] = two
      OBVIOUS
    <3> HIDE DEF rest
    <3>2. Run(rest, db, s.read)[0] = RunStart(db, s.read)
      BY <3>1, RunSteps
    <3>3. \A k \in 1 .. 1 : Run(rest, db, s.read)[k] = RunNext(Run(rest, db, s.read)[k - 1], rest[k])
      BY <3>1, RunSteps
    <3>4. Run(rest, db, s.read)[1] = RunNext(Run(rest, db, s.read)[0], two)
      BY <3>1, <3>3
    <3>5. RunStart(db, s.read) = [ok |-> TRUE, db |-> db, ids |-> << >>, read |-> s.read]
      BY DEF RunStart
    <3>6. RunNext([ok |-> TRUE, db |-> db, ids |-> << >>, read |-> s.read], two) = done
      <4>1. Execute(two, db, << >>, s.read).ok
        BY SourcesAreFound
      <4> HIDE DEF two
      <4>2. QED BY <1>5, <2>1, <4>1, ReadsOn
    <3> HIDE DEF done
    <3>7. QED BY <3>2, <3>4, <3>5, <3>6 DEF rest
  <2>8. done = RunAlone(cmd, db, s.read)
    <3>1. Len(<<two>>) = 1
      OBVIOUS
    <3> HIDE DEF done, cmd, two
    <3>2. QED BY <2>4, <2>6, <2>7, <3>1 DEF RunAlone
  <2>9. done.ok /\ done.db = db /\ done.ids = << >> /\ done.read = read
    OBVIOUS
  <2> HIDE DEF done, read
  <2>10. QED BY <1>2, <1>4, <2>2, <2>5, <2>8, <2>9, ServicePerforms
<1>9. QED BY <1>2, <1>7, <1>8

\* The first statement of get_tracks_with_sources, when there is a page.
LEMMA PageIsSeen ==
  ASSUME Sessions, NEW c \in Client, Autocommit(c),
         Execute(Statement1(c), db, session[c].ids, session[c].read).ok, ~Ends(c)
  PROVE  Service!Look(c)
<1> DEFINE s == session[c]
           cmd == Call(c)
           read == ReadAfter(Statement1(c), db, s.read)
           z == [s EXCEPT !.phase = "acquiring", !.pc = @ + 1, !.read = read]
<1>1. IsSession(s) /\ s.phase = "running" /\ s.call = cmd /\ ~InTransaction(cmd)
  BY DEF Autocommit, Sessions, Phase, Call
<1>2. s.lock = "none" /\ (Fresh(s.pc, s.read) \/ PageRead(cmd, s.pc))
  <2>1. s.lock = "none"
    BY <1>1 DEF IsSession, Holds
  <2>2. QED BY <1>1, <2>1 DEF IsSession, Holds
<1>3. ~Over(cmd, s.pc + 1, read)
  BY DEF Ends
<1>4. cmd.do = "GetTracksWithSources" /\ s.pc = 1
  <2>1. s.pc \in {1, 2}
    BY <1>2 DEF Fresh, PageRead
  <2> HIDE DEF s, cmd, read
  <2>2. QED BY <1>1, <1>3, <2>1, OnlyPagesGoOn
<1>5. s.read = << >>
  BY <1>2, <1>4 DEF Fresh, PageRead
<1>6. Set(c, z) /\ reply' = reply /\ left' = left /\ UNCHANGED files
  BY <1>3 DEF Autocommit
<1>7. ReadsOnly(Statement1(c)) /\ db' = Execute(Statement1(c), db, s.ids, s.read).db
  BY <1>4, PageStatements DEF Autocommit
<1>8. db' = db
  BY <1>7, ReadsChangeNothing
<1>9. z.call = cmd /\ z.read = read
  BY <1>1 DEF IsSession, IsRecord, Fields
<1>10. read = ReadPage(cmd, db)
  <2>1. Statement1(c) = GetTracksWithSources(cmd)[1]
    BY <1>4 DEF Statement1, Program
  <2>2. QED BY <1>5, <2>1 DEF ReadPage
<1> HIDE DEF z, read
<1>11. PendingCalls' = [PendingCalls EXCEPT ![c] = cmd] /\ SeenPages' = [SeenPages EXCEPT ![c] = read]
  BY <1>4, <1>6, <1>9, ServiceMoves
<1>12. PendingCalls' = PendingCalls
  BY <1>11 DEF PendingCalls
<1>13. PendingCalls[c] = cmd /\ SeenPages[c] = << >>
  BY <1>5 DEF PendingCalls, SeenPages
<1>14. SeenPages' = [SeenPages EXCEPT ![c] = ReadPage(PendingCalls[c], db)]
  BY <1>10, <1>11, <1>13
<1>15. PendingCalls[c].do = "GetTracksWithSources"
  BY <1>4, <1>13
<1>16. QED BY <1>6, <1>8, <1>12, <1>13, <1>14, <1>15 DEF Service!Look, PendingCalls, SeenPages, files

ServiceRests == UNCHANGED <<db, left, PendingCalls, SeenPages, reply, crowded, Aside>>
LEMMA FilesRest == UNCHANGED files => UNCHANGED <<crowded, Aside>>
BY DEF files, Aside

\* Outside a transaction a command is performed by its last statement.
LEMMA AutocommitServes ==
  ASSUME Sessions, Crowds, Ran, Pages, NEW c \in Client, Autocommit(c)
  PROVE  Service!Perform(c) \/ Service!Look(c) \/ ServiceRests
<1> DEFINE st == Statement1(c)
           s == session[c]
           out == Execute(st, db, s.ids, s.read)
<1>1. CASE Ends(c)
  BY <1>1, SinglePerforms, PagePerforms
<1>2. CASE out.ok /\ ~Ends(c)
  BY <1>2, PageIsSeen
<1>3. CASE ~out.ok
  <2>1. Failed(c, "none") /\ reply' = reply /\ left' = left /\ db' = out.db /\ UNCHANGED files
    BY <1>3 DEF Autocommit
  <2>2. db' = db
    <3>1. CASE ReadsOnly(st)
      BY <2>1, <3>1, ReadsChangeNothing
    <3>2. CASE ~ReadsOnly(st)
      <4>1. st \in Single
        BY <3>2, SingleStatement DEF Autocommit
      <4>2. out = Change(st, db, s.ids, s.read)
        BY <3>2 DEF Execute, ReadsOnly, Reads
      <4> HIDE DEF st, s
      <4>3. Change(st, db, s.ids, s.read).db = db
        BY <1>3, <4>1, <4>2, RefusedChangesNothing
      <4>4. QED BY <2>1, <4>2, <4>3
    <3>3. QED BY <3>1, <3>2
  <2>3. QED BY <2>1, <2>2, FailedStutters, FilesRest DEF ServiceRests
<1>4. QED BY <1>1, <1>2, <1>3

\* A command that arrives is taken or answered at once.
LEMMA ArrivalServes ==
  ASSUME Sessions, Crowds, NEW c \in Client, NEW cmd \in Command[c], Dispatch(c, cmd) \/ ResetDatabase(c, cmd)
  PROVE  Service!Ask(c, cmd) \/ Service!Decline(c)
<1> DEFINE Counted == crowded' = IF cmd.do # "ResetDatabase" \/ Resetting = {} THEN crowded
                                 ELSE crowded \cup Resetting \cup {c}
<1>1. Phase(c) = "idle" /\ c \notin left /\ UNCHANGED <<left, db, file, shelf>>
  BY DEF Dispatch, ResetDatabase, files
<1>2. Call(c) = NoCall
  BY <1>1 DEF Sessions, IsSession, Holds, Phase, Call, Served
<1>3. PendingCalls[c] = NoCall /\ SeenPages[c] = << >>
  BY <1>2 DEF PendingCalls, SeenPages, NoCall
<1>4. ASSUME NEW z, Set(c, z), z.call = cmd, z.read = << >>, UNCHANGED reply, Counted
      PROVE  Service!Ask(c, cmd)
  <2>1. /\ PendingCalls' = [PendingCalls EXCEPT ![c] = z.call]
        /\ SeenPages' = [SeenPages EXCEPT ![c] = IF z.call.do = "GetTracksWithSources" THEN z.read ELSE << >>]
    BY <1>4, ServiceMoves
  <2>2. PendingCalls' = [PendingCalls EXCEPT ![c] = cmd] /\ SeenPages' = SeenPages
    BY <1>3, <1>4, <2>1 DEF SeenPages
  <2>3. crowded' = IF cmd.do # "ResetDatabase" \/ Service!Resetting = {} THEN crowded
                   ELSE crowded \cup Service!Resetting \cup {c}
    BY <1>4, ResettingIs, Zenon
  <2>4. Aside' = Aside
    BY <1>1 DEF Aside
  <2>5. QED BY <1>1, <1>3, <1>4, <2>2, <2>3, <2>4 DEF Service!Ask, Service!NoCall, NoCall, PendingCalls, SeenPages, Aside
<1>5. ASSUME NEW status \in {"ignored", "error"}, Answer(c, status, << >>, << >>), crowded' = crowded PROVE Service!Decline(c)
  <2>1. crowded' = crowded \ {c}
    BY <1>2, <1>5, NotCrowded DEF NoCall
  <2>2. Service!Answered(c, status, << >>, << >>)
    BY <1>1, <1>5, <2>1, ServiceAnswers
  <2>3. PendingCalls[c] = Service!NoCall
    BY <1>3 DEF Service!NoCall, NoCall
  <2>4. Aside' = Aside
    BY <1>1 DEF Aside
  <2>5. QED BY <1>1, <2>2, <2>3, <2>4 DEF Service!Decline, Service!Answered, PendingCalls, SeenPages, Aside
<1>6. CASE Dispatch(c, cmd)
  <2>1. cmd.do # "ResetDatabase" /\ crowded' = crowded
    BY <1>6 DEF Dispatch, files
  <2>2. \/ Set(c, [Idle EXCEPT !.phase = "acquiring", !.call = cmd]) /\ UNCHANGED reply
        \/ Answer(c, "ignored", << >>, << >>)
    BY <1>6 DEF Dispatch, Begin, Say
  <2>3. LET z == [Idle EXCEPT !.phase = "acquiring", !.call = cmd] IN z.call = cmd /\ z.read = << >>
    BY DEF Idle
  <2>4. QED BY <1>4, <1>5, <2>1, <2>2, <2>3
<1>7. CASE ResetDatabase(c, cmd)
  <2>1. \/ Set(c, [Idle EXCEPT !.phase = "creating", !.call = cmd, !.file = Len(shelf)]) /\ UNCHANGED reply /\ Counted
        \/ Answer(c, "error", << >>, << >>) /\ crowded' = crowded
    BY <1>7 DEF ResetDatabase, Say
  <2>2. LET z == [Idle EXCEPT !.phase = "creating", !.call = cmd, !.file = Len(shelf)] IN z.call = cmd /\ z.read = << >>
    BY DEF Idle
  <2> HIDE DEF Counted
  <2>3. QED BY <1>4, <1>5, <2>1, <2>2
<1>8. QED BY <1>6, <1>7

\* What a command does on the way is not seen.
LEMMA StepServes ==
  ASSUME Sessions, NEW c \in Client,
         Acquire(c) \/ AcquireTimesOut(c) \/ Statement(c) \/ Busy(c)
  PROVE  ServiceRests
<1>1. UNCHANGED <<db, left, reply, crowded, Aside>>
  BY FilesRest DEF Acquire, AcquireTimesOut, Statement, Busy
<1>2. DOMAIN session[c] = Fields
  BY DEF Sessions, IsSession, IsRecord
<1>3. ASSUME NEW z, Set(c, z), z.call = Call(c), Call(c).do = "GetTracksWithSources" => z.read = session[c].read
      PROVE  ServiceRests
  BY <1>1, <1>3, ServiceStutters DEF ServiceRests
<1>4. ASSUME NEW p, Set(c, [session[c] EXCEPT !.phase = p]) PROVE ServiceRests
  <2> DEFINE z == [session[c] EXCEPT !.phase = p]
  <2>1. z.call = Call(c) /\ z.read = session[c].read
    BY <1>2 DEF Fields, Call
  <2> HIDE DEF z
  <2>2. QED BY <1>3, <1>4, <2>1 DEF z
<1>5. ASSUME Dropped(c) PROVE ServiceRests
  <2> DEFINE z == [Idle EXCEPT !.phase = "logging", !.call = Call(c), !.read = session[c].read]
  <2>1. z.call = Call(c) /\ z.read = session[c].read
    BY DEF Idle
  <2>2. Set(c, z)
    BY <1>5 DEF Dropped
  <2> HIDE DEF z
  <2>3. QED BY <1>3, <2>1, <2>2
<1>6. ASSUME NEW l, Failed(c, l) PROVE ServiceRests
  BY <1>1, <1>6, FailedStutters DEF ServiceRests
<1>7. CASE Statement(c)
  <2>1. \/ \E l : Failed(c, l)
        \/ \E pc, l, work, ids, read :
             Set(c, [session[c] EXCEPT !.pc = pc, !.lock = l, !.work = work, !.ids = ids, !.read = read])
    BY <1>7 DEF Statement
  <2>2. ASSUME NEW pc, NEW l, NEW work, NEW ids, NEW read,
               Set(c, [session[c] EXCEPT !.pc = pc, !.lock = l, !.work = work, !.ids = ids, !.read = read])
        PROVE  ServiceRests
    <3> DEFINE z == [session[c] EXCEPT !.pc = pc, !.lock = l, !.work = work, !.ids = ids, !.read = read]
    <3>1. z.call = Call(c)
      BY <1>2 DEF Fields, Call
    <3>2. Call(c).do # "GetTracksWithSources"
      BY <1>7 DEF Statement, InTransaction, LogsInside
    <3> HIDE DEF z
    <3>3. QED BY <1>3, <2>2, <3>1, <3>2 DEF z
  <2>3. QED BY <1>6, <2>1, <2>2
<1>8. QED BY <1>4, <1>5, <1>6, <1>7 DEF Acquire, AcquireTimesOut, Busy

\* A file that a reset opens is empty, or another reset has opened it.
LEMMA AsideStays ==
  ASSUME Shelf, NEW c \in Client, CreateRepo(c)
  PROVE  Aside' = Aside
<1>1. file' = file
  BY DEF CreateRepo
<1>2. CASE UNCHANGED shelf
  BY <1>1, <1>2 DEF Aside
<1>3. CASE shelf' = Append(shelf, NewFile)
  <2>1. IsShelf(shelf') /\ Len(shelf') = Len(shelf) + 1 /\ Len(shelf) \in Nat /\ file \in 1 .. Len(shelf)
    BY <1>3, ShelfAppends DEF Shelf, IsShelf
  <2>2. (\A f \in 1 .. Len(shelf) : shelf'[f] = shelf[f]) /\ shelf'[Len(shelf) + 1].db = EmptyDb
    BY <1>3, ShelfAppends DEF Shelf, NewFile
  <2>3. DOMAIN shelf = 1 .. Len(shelf) /\ DOMAIN shelf' = 1 .. Len(shelf) + 1
    BY <2>1 DEF Shelf, IsShelf
  <2> DEFINE D == DOMAIN shelf \ {file}
  <2>4. DOMAIN shelf' \ {file'} = D \cup {Len(shelf) + 1}
    BY <1>1, <2>1, <2>3
  <2>5. \A f \in D : shelf'[f] = shelf[f]
    BY <2>2, <2>3
  <2>6. {shelf'[f].db : f \in D \cup {Len(shelf) + 1}} = {shelf[f].db : f \in D} \cup {EmptyDb}
    <3> HIDE DEF D
    <3>1. QED BY <2>2, <2>5
  <2>7. QED BY <2>4, <2>6 DEF Aside
<1>4. QED BY <1>2, <1>3 DEF CreateRepo

LEMMA CreateServes ==
  ASSUME Sessions, Shelf, NEW c \in Client, CreateRepo(c)
  PROVE  ServiceRests \/ Service!Refuse(c)
<1>1. UNCHANGED <<db, left, Aside>>
  BY AsideStays DEF CreateRepo
<1>2. IsSession(session[c]) /\ session[c].phase = "creating"
  BY CreateMoves DEF Sessions, Phase
<1>3. ASSUME NEW f, Open(c, f) PROVE ServiceRests
  <2>1. Set(c, Opening(session[c], f)) /\ UNCHANGED <<reply, crowded>>
    BY <1>3 DEF Open, Opening
  <2>2. Opening(session[c], f).call = Call(c) /\ Opening(session[c], f).read = session[c].read
    BY <1>2, OpenIs DEF Call
  <2>3. PendingCalls' = PendingCalls /\ SeenPages' = SeenPages
    BY <2>1, <2>2, ServiceStutters
  <2>4. QED BY <1>1, <2>1, <2>3 DEF ServiceRests
<1>4. ASSUME EndReset(c, "error") PROVE Service!Refuse(c)
  <2>1. Service!Answered(c, "error", << >>, << >>)
    BY <1>1, <1>4, ServiceAnswers DEF EndReset, Say
  <2>2. PendingCalls[c].do = "ResetDatabase"
    BY <1>2 DEF IsSession, Holds, NoCall, Served, PendingCalls, Call
  <2>3. PendingCalls[c] # Service!NoCall
    BY <2>2 DEF Service!NoCall
  <2>4. QED BY <1>1, <2>1, <2>3 DEF Service!Refuse, Service!Answered, PendingCalls, SeenPages, Aside
<1>5. QED BY <1>3, <1>4 DEF CreateRepo

\* The library that comes into use was put aside, or is new, or is in use already;
\* when no other reset has overlapped with this one it is empty.
LEMMA ResetServes ==
  ASSUME Sessions, Shelf, Crowds, NEW c \in Client, SwapRepo(c)
  PROVE  Service!Reset(c)
<1>1. Call(c).do = "ResetDatabase" /\ Phase(c) = "swapping" /\ c \in Resetting
  BY DEF SwapRepo, Sessions, IsSession, Holds, Phase, Call, Served, Resetting
<1> DEFINE mine == session[c].file
<1>2. /\ mine \in 1 .. Len(shelf) /\ IsShelf(shelf') /\ Len(shelf') = Len(shelf) /\ file' = mine
      /\ shelf'[file].db = db
      /\ \A f \in 1 .. Len(shelf) : f # file => shelf'[f] = shelf[f]
      /\ db' = IF mine = file THEN db ELSE shelf[mine].db
  BY SwapFinds
<1>3. DOMAIN shelf = 1 .. Len(shelf) /\ DOMAIN shelf' = 1 .. Len(shelf)
  BY <1>2 DEF Shelf, IsShelf
<1>4. c \notin crowded => db' = EmptyDb
  BY <1>1, <1>2 DEF Crowds
<1> HIDE DEF mine
<1>5. db' \in Aside \cup {db}
  BY <1>2, <1>3 DEF Aside
<1>6. Aside' \subseteq Aside \cup {db}
  <2>1. \A f \in DOMAIN shelf' \ {file'} : shelf'[f].db \in Aside \cup {db}
    BY <1>2, <1>3 DEF Aside
  <2>2. QED BY <2>1 DEF Aside
<1>7. Service!Answered(c, "ok", << >>, << >>)
  BY ServiceAnswers DEF SwapRepo, Swap, EndReset, Say
<1>8. PendingCalls[c].do = "ResetDatabase"
  BY <1>1 DEF PendingCalls
<1>9. QED BY <1>4, <1>5, <1>6, <1>7, <1>8 DEF Service!Reset, Service!Answered, PendingCalls, SeenPages, Aside

\* A refusal, and a client that goes away.
LEMMA ErrorServes ==
  ASSUME Sessions, Crowds, NEW c \in Client, LogError(c)
  PROVE  Service!Refuse(c)
<1>1. IsCommand(Call(c)) /\ Call(c).do # "ResetDatabase"
  BY DEF LogError, Sessions, IsSession, Holds, Phase, Call, Served
<1>2. Call(c) # NoCall
  BY <1>1 DEF IsCommand, NoCall, OfOneTrack
<1>3. crowded' = crowded \ {c}
  BY <1>1, NotCrowded DEF LogError, files
<1>4. Service!Answered(c, "error", << >>, << >>) /\ db' = db
  BY <1>3, ServiceAnswers DEF LogError, Say
<1>5. Aside' = Aside
  BY FilesRest DEF LogError
<1>6. PendingCalls[c] # Service!NoCall
  BY <1>2 DEF PendingCalls, NoCall, Service!NoCall
<1>7. QED BY <1>4, <1>5, <1>6 DEF Service!Refuse, Service!Answered, PendingCalls, SeenPages, Aside

LEMMA HangUpServes ==
  ASSUME NEW c \in Client, HangUp(c)
  PROVE  Service!Leave(c)
<1>1. PendingCalls' = PendingCalls /\ SeenPages' = SeenPages
  BY DEF HangUp, PendingCalls, SeenPages, Call
<1>2. crowded' = crowded /\ Aside' = Aside
  BY FilesRest DEF HangUp
<1>3. QED BY <1>1, <1>2 DEF HangUp, Service!Leave, PendingCalls, SeenPages, Aside

LEMMA PanicServes ==
  ASSUME NEW c \in Client, NEW cmd \in Command[c], Panic(c, cmd)
  PROVE  Service!Leave(c) \/ ServiceRests
<1>1. PendingCalls' = PendingCalls /\ SeenPages' = SeenPages
  BY DEF Panic, PendingCalls, SeenPages, Call
<1>2. crowded' = crowded /\ Aside' = Aside /\ UNCHANGED <<db, reply>>
  BY FilesRest DEF Panic
<1>3. left' = left \/ left' = left \cup {c}
  BY DEF Panic
<1>4. CASE left' = left
  BY <1>1, <1>2, <1>4 DEF ServiceRests
<1>5. CASE left' = left \cup {c}
  BY <1>1, <1>2, <1>5 DEF Service!Leave, PendingCalls, SeenPages, Aside
<1>6. QED BY <1>3, <1>4, <1>5

LEMMA NextServes ==
  ASSUME Sessions, Shelf, Crowds, Ran, Pages, [Next]_vars
  PROVE  Service!Next \/ ServiceRests
<1>1. ASSUME NEW c \in Client, NEW cmd \in Command[c], Dispatch(c, cmd) \/ ResetDatabase(c, cmd)
      PROVE  Service!Next
  <2>1. Service!Ask(c, cmd) \/ Service!Decline(c)
    BY <1>1, ArrivalServes
  <2>2. QED BY <2>1 DEF Service!Next
<1>2. ASSUME NEW c \in Client, Step(c) PROVE Service!Next \/ ServiceRests
  <2>1. CASE Acquire(c) \/ AcquireTimesOut(c) \/ Statement(c) \/ Busy(c)
    BY <2>1, StepServes
  <2>2. CASE CreateRepo(c)
    BY <2>2, CreateServes DEF Service!Next
  <2>3. CASE SwapRepo(c)
    BY <2>3, ResetServes DEF Service!Next
  <2>4. CASE Commit(c)
    BY <2>4, CommitPerforms DEF Service!Next
  <2>5. CASE Autocommit(c)
    BY <2>5, AutocommitServes DEF Service!Next
  <2>6. CASE LogError(c)
    BY <2>6, ErrorServes DEF Service!Next
  <2>7. QED BY <1>2, <2>1, <2>2, <2>3, <2>4, <2>5, <2>6 DEF Step
<1>3. ASSUME NEW c \in Client, HangUp(c) PROVE Service!Next
  BY <1>3, HangUpServes DEF Service!Next
<1>4. ASSUME NEW c \in Client, NEW cmd \in Command[c], Panic(c, cmd) PROVE Service!Next \/ ServiceRests
  BY <1>4, PanicServes DEF Service!Next
<1>5. ASSUME IntervalPasses \/ UNCHANGED vars PROVE ServiceRests
  <2>1. UNCHANGED <<db, left, session, reply, crowded, Aside>>
    BY <1>5, FilesRest DEF IntervalPasses, vars, files
  <2>2. QED BY <2>1 DEF ServiceRests, PendingCalls, SeenPages, Call
<1>6. QED BY <1>1, <1>2, <1>3, <1>4, <1>5 DEF Next

\* Whatever the clients send at the same time, whoever gives up, is refused or
\* goes away, the library is the one that its commands make one after the
\* other, each as a whole at one moment between its call and its answer, on what
\* is committed then, or not at all; get_tracks_with_sources alone reads its page
\* at an earlier moment than the sources, and a reset that has overlapped with
\* another one may leave a library that is not empty, the file being named by the
\* second (dispatch_with_core, SqliteRepository, reset_database).
THEOREM LibraryRefinesService == Spec => RefinesService
<1>1. Init => Service!Init
  <2> SUFFICES ASSUME Init PROVE Service!Init
    OBVIOUS
  <2>1. PendingCalls = [c \in Client |-> Service!NoCall] /\ SeenPages = [c \in Client |-> << >>]
    BY DEF Init, PendingCalls, SeenPages, Call, Idle, NoCall, Service!NoCall
  <2>2. DOMAIN shelf = {1} /\ file = 1 /\ crowded = {}
    BY DEF Init
  <2>3. Aside = {EmptyDb}
    BY <2>2 DEF Aside
  <2>4. QED BY <2>1, <2>2, <2>3 DEF Init, Service!Init, PendingCalls, SeenPages, Aside
<1>2. Inv /\ Crowds /\ Ran /\ Pages /\ [Next]_vars => [Service!Next]_(Service!vars)
  <2>1. ServiceRests => UNCHANGED Service!vars
    BY DEF ServiceRests, Service!vars, PendingCalls, SeenPages, Aside
  <2>2. QED BY <2>1, NextServes DEF Inv
<1>3. QED BY <1>1, <1>2, AlwaysInv, AlwaysCrowds, AlwaysRan, AlwaysPages, PTL DEF Spec, RefinesService, Service!Spec

\* The ids that add_track and add_tracks answer with name the tracks that were
\* asked for, in their order and with their sources, whatever the batches were
\* and whoever else added tracks in the meantime: what is committed is what the
\* statements make of the database as it is then (add_track, add_tracks,
\* dispatch.rs and sqlite.rs).
THEOREM IdsNameTheTracks == Spec => AnsweredIdsNameTheTracks
<1> DEFINE Asked(c) == reply'[c] # reply[c] /\ Call(c).do \in {"AddTrack", "AddTracks"} /\ reply'[c].status = "ok"
           Kept(c) ==
             LET ids == reply'[c].ids
             IN /\ Len(ids) = Len(Call(c).names)
                /\ \A i \in DOMAIN ids : ids[i] \notin DOMAIN db.track /\ db'.track[ids[i]].name = Call(c).names[i]
                /\ \A i \in DOMAIN ids :
                     {r.of : r \in RowsOf(db', "sources", ids[i])} = ToSet(Call(c).urls[i])
<1>1. ASSUME Inv, Copies, Ran, [Next]_vars, NEW c \in Client, Asked(c)
      PROVE  Kept(c)
  <2> DEFINE s == session[c]
             x == Run(Program(Call(c)), db, << >>)[Len(Program(Call(c)))]
  <2>1. IsSession(s) /\ s.phase = Phase(c) /\ s.call = Call(c) /\ IsLibrary(db)
    BY <1>1 DEF Inv, Sessions, Phase, Call, Copies
  <2>2. InTransaction(Call(c))
    BY <1>1 DEF InTransaction, LogsInside
  <2>3. ~SwapRepo(c) /\ ~Finishes(c)
    <3>1. Phase(c) # "swapping"
      BY <1>1, <2>1 DEF IsSession, Holds, Served
    <3>2. ~SwapRepo(c)
      BY <3>1 DEF SwapRepo
    <3>3. ~Finishes(c)
      BY <2>2 DEF Finishes, Autocommit
    <3>4. QED BY <3>2, <3>3
  <2>4. Commit(c) /\ reply'[c].ids = s.ids
    BY <1>1, <2>3, OkAnswers DEF Inv
  <2>5. x = [ok |-> TRUE, db |-> View(c), ids |-> s.ids, read |-> s.read] /\ db' = View(c)
    BY <1>1, <2>4, CommitRan DEF Commit, Inv
  <2>6. x.ok /\ x.db = db' /\ x.ids = reply'[c].ids
    BY <2>4, <2>5
  <2>7. IsCommand(Call(c))
    BY <2>1, <2>2, <2>4 DEF Commit, IsSession, Holds, NoCall, InTransaction, LogsInside
  <2> HIDE DEF x
  <2>8. TracksAdded(db, Call(c), x.ids, x.db)
    BY <1>1, <2>1, <2>6, <2>7, AddedTracks DEF x
  <2>9. QED BY <2>6, <2>8 DEF TracksAdded
<1>2. Inv /\ Copies /\ Ran /\ [Next]_vars => (\A c \in Client : Asked(c) => Kept(c))
  BY <1>1
<1>3. (\A c \in Client : Asked(c) => Kept(c)) =>
      \A c \in Client : reply'[c] # reply[c] /\ Call(c).do \in {"AddTrack", "AddTracks"} /\ reply'[c].status = "ok" =>
        LET ids == reply'[c].ids
        IN /\ Len(ids) = Len(Call(c).names)
           /\ \A i \in DOMAIN ids : ids[i] \notin DOMAIN db.track /\ db'.track[ids[i]].name = Call(c).names[i]
           /\ \A i \in DOMAIN ids : {r.of : r \in RowsOf(db', "sources", ids[i])} = ToSet(Call(c).urls[i])
  OBVIOUS
<1> HIDE DEF Asked, Kept
<1>4. QED BY <1>2, <1>3, AlwaysInv, AlwaysCopies, AlwaysRan, PTL DEF Spec, AnsweredIdsNameTheTracks
=============================================================================
