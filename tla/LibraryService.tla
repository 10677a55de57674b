--------------------------- MODULE LibraryService ---------------------------
(***************************************************************************)
(* What the library promises a client: a command takes effect as a whole   *)
(* at one moment between the call and its answer, on what is committed at  *)
(* that moment, or it is refused and has no effect at all.                 *)
(***************************************************************************)
CONSTANTS
  Client, Command, StartDb, EmptyDb,
  RunAlone(_, _, _),   \* what a command does to a database on its own
  ReadPage(_, _),      \* what get_tracks_with_sources reads first
  Shown(_, _)          \* what a client is shown of what a command has read

VARIABLES
  db,
  left,     \* clients that do not wait for their answer any more
  pending,  \* the command of each client
  seen,     \* what a command that reads twice has read
  reply,
  crowded,  \* resets that have overlapped with another one
  aside     \* the libraries a reset may find instead of the one in use

vars == <<db, left, pending, seen, reply, crowded, aside>>

NoCall == [do |-> "None"]

Init ==
  /\ db = StartDb /\ left = {}
  /\ pending = [c \in Client |-> NoCall]
  /\ seen = [c \in Client |-> << >>]
  /\ reply = [c \in Client |-> [status |-> "none", ids |-> << >>, read |-> << >>]]
  /\ crowded = {} /\ aside = {EmptyDb}

Answered(c, status, ids, read) ==
  /\ pending' = [pending EXCEPT ![c] = NoCall]
  /\ seen' = [seen EXCEPT ![c] = << >>]
  /\ reply' = IF c \in left THEN reply
              ELSE [reply EXCEPT ![c] = [status |-> status, ids |-> ids, read |-> read]]
  /\ crowded' = crowded \ {c}
  /\ UNCHANGED left

\* Two resets at the same time may meet in one library.
Resetting == {c \in Client : pending[c].do = "ResetDatabase"}
Ask(c, cmd) ==
  /\ pending[c] = NoCall /\ c \notin left
  /\ pending' = [pending EXCEPT ![c] = cmd]
  /\ crowded' = IF cmd.do # "ResetDatabase" \/ Resetting = {} THEN crowded
                ELSE crowded \cup Resetting \cup {c}
  /\ UNCHANGED <<db, left, seen, reply, aside>>

\* A call that is answered at once without an effect: a repeated credit is
\* ignored, a reset outside of tests refused.
Decline(c) ==
  /\ pending[c] = NoCall
  /\ \E status \in {"ignored", "error"} : Answered(c, status, << >>, << >>)
  /\ UNCHANGED <<db, aside>>

\* The page of get_tracks_with_sources is of an earlier moment than the sources.
Look(c) ==
  /\ pending[c].do = "GetTracksWithSources" /\ seen[c] = << >>
  /\ seen' = [seen EXCEPT ![c] = ReadPage(pending[c], db)]
  /\ UNCHANGED <<db, left, pending, reply, crowded, aside>>

Perform(c) ==
  /\ pending[c].do \notin {"None", "ResetDatabase"}
  /\ LET done == RunAlone(pending[c], db, seen[c])
     IN /\ done.ok
        /\ db' = done.db
        /\ Answered(c, "ok", done.ids, Shown(pending[c], done.read))
  /\ UNCHANGED aside

\* A reset on its own leaves an empty library; one that has overlapped with
\* another may leave what the other has opened and commands have written to.
Reset(c) ==
  /\ pending[c].do = "ResetDatabase"
  /\ db' \in aside \cup {db} /\ (c \notin crowded => db' = EmptyDb)
  /\ aside' \subseteq aside \cup {db}
  /\ Answered(c, "ok", << >>, << >>)

Refuse(c) ==
  /\ pending[c] # NoCall
  /\ Answered(c, "error", << >>, << >>)
  /\ UNCHANGED <<db, aside>>

Leave(c) ==
  /\ left' = left \cup {c}
  /\ UNCHANGED <<db, pending, seen, reply, crowded, aside>>

Next ==
  \E c \in Client :
    \/ \E cmd \in Command[c] : Ask(c, cmd)
    \/ Decline(c) \/ Look(c) \/ Perform(c) \/ Reset(c) \/ Refuse(c) \/ Leave(c)

Spec == Init /\ [][Next]_vars
=============================================================================
