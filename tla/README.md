# Specifications of vamp

TLA+ models of vamp (a music library with a Rust backend, a browser frontend, and
a signalling server through which the two find each other), the TLC runs that
check them on small instances and the TLAPS proofs about them for all instances.

## Running it

    tlc -workers 2 -config signalling_safety.cfg MCSignallingServer.tla
    tlapm SignallingServerProofs.tla

`PROJECT.json` lists every run with its module, configuration and expected
outcome, maps every definition to the source lines it models, and gives for every
property of a passing run a *mutant*: a variation of one definition, the way a
plausible bug would change it, under which TLC finds the property violated. The
mutants stand beside the definitions they vary, with a comment that begins `mutant:`
and says what the bug is. External parts (sqlx, SQLite, the browser's and webrtc-rs's
peer connection, tokio, sockets) are modelled from how the code uses them, and `map`
marks them.

## The system

| Component | State it keeps | Operations | What is hard |
|---|---|---|---|
| **Signalling server** `signalling/ws_server.rs` | connection table `ct`, routing table `rtt` under one lock; per connection three tasks, a bounded queue, a rate limiter, a cancellation token | accept, receive and route a message, send, check idleness, tear down | tasks run before the connection is recorded; a handle outlives the lock; sockets that block; order of clean-up |
| **Transport handlers** `rtc/ws_node_handler.rs` (Rust), `rtc-ts/transport_handler.ts` (browser) | sequence numbers, `SnFilter`, two bounded acknowledgement queues, the delivery being awaited | send until acknowledged, receive, acknowledge, abort, stop | lost, repeated, reordered and late messages, full queues, restart of one end |
| **WsNode** `rtc/ws_node.rs` | connected flag, queue of 64, two tasks per connection | connect, reconnect, send, stop | messages across a reconnection, a stale flag, stopping while something waits |
| **Backend RTC connector** `rtc/rtc_connector.rs`, `debouncer.rs` | current offer and negotiation id, peer connection, map of data channels and their owners | answer an offer, exchange candidates, restart, hand out a channel, cancel | `select!` arms that await, notifications that are not stored, queues that drop |
| **Browser RTC connector** `connectors/rtc_connector.ts`, `ws_signalling_connector.ts`, `data_transport.ts` | peer connection, channel, negotiation id, debounce timer, queue of signalling messages | offer, restart, send, close | state read before an `await` and used after it; timers that survive `close` |
| **Library database** `db/sqlite.rs` and the migrations | tracks, artists, sources, tags, listens, errors | add, update, delete, list by page, record a listen | several statements that must agree; failure in the middle; log written beside a transaction |
| **Application core, dispatch** `app_core.rs`, `commands/` | the repository behind a lock, the listen guard | dispatch a request, reset the database | requests across a reset |
| **Listen tracker and guard** `useListenTracker.ts`, `commands/listen_guard.rs` | accumulated seconds, time of the last credit | tick, credit | track changes, retries, a failed write |
| **Frontend** `App.tsx`, `store.ts`, players, widgets, `dispatchClient.ts` | playlists, current track, pending requests | play, delete, request | callbacks about a track that is gone |
| **Legacy** `signalling-server/`, `transport/sserver.ts`, `rtc/client.rs`, `rtc/plan_impl/` | an older router and its clients | | |

Paths are relative to `src/src-tauri/` and `src/src/`. The browser and the backend
each open a websocket to the signalling server and register under the same routing
tag. Over it their transport handlers exchange offers, answers and ICE candidates
for the RTC connectors, and once a data channel is open a second pair of transport
handlers carries the library requests over it. Inside the backend components share
memory (locks, atomics, channels); inside the browser everything runs in one thread
that is interleaved at `await`s, timers and events.

What makes each of them correct: rooms of two live members and payloads that stay
in their room, in order, and every connection torn down in the end (signalling); a
confirmed send was let through to the other program, at most once and in order (transport); no message
lost without its sender noticing and `stop` returning (WsNode); one negotiation at a
time whose answer belongs to the current offer, and one owner per data channel (RTC);
sums that agree, deletions that are on record (all but the listens, which are dropped without
one), each command as a whole or not at all (database); listened time
credited once, to the right track (listen).

## Modules

| Module | What it is |
|---|---|
| `TwoPersonRooms` | abstract: the service the signalling server promises its clients |
| `SignallingServer` | the server as it is written, one action per critical section or await |
| `MCSignallingServer` | the instance for TLC, with its symmetry |
| `SignallingServerProofs` | inductive invariant, types, room invariants, teardown |
| `SignallingRefinement` | the server implements `TwoPersonRooms`; what it holds is in order |
| `OrderedDelivery` | abstract: ordered delivery with gaps and reliable confirmation |
| `ReliableTransport` | the Rust and the TypeScript transport handler over an unreliable channel |
| `MCReliableTransport` | the instance for TLC |
| `ReliableTransportProofs` | inductive invariant, types, confirmation, refinement of `OrderedDelivery` |
| `FrameChannel` | abstract: a channel that may lose frames but keeps their order across reconnections |
| `WsNode` | the reconnecting websocket, its tasks and the users of its queue |
| `WsNodeProofs` | inductive invariant, types, lifetime of tasks, order of stop, refinement of `FrameChannel` |
| `OfferAnswer` | abstract: what a negotiation is |
| `RtcLinks` | the two signalling links and the messages on them |
| `BrowserRtc`, `BackendRtc` | the two `RtcConnector`s |
| `Negotiation` | the two composed with the network between them, and its properties |
| `NegotiationProofs` | inductive invariant, types and bounds, ids and candidates, the debouncer's blind window, refinement of `OfferAnswer` |
| `LibraryData` | the tables, and every statement as a function from a database to an outcome |
| `LibraryCommands` | every command as its list of statements |
| `LibraryService` | abstract: a command takes effect at one moment, as it does alone, or is refused |
| `Library` | sessions, pool, locks, transactions, the errors table, the listen guard, the reset |
| `MCLibrary` | the instance for TLC: a small library and commands that meet on it |
| `FoldProofs` | lemmas: what the folds of the library's model compute, for every finite set and every sequence |
| `LibraryDataProofs` | programs and statements: every statement keeps a library a library; pages; what adding tracks makes of a library |
| `LibraryProofs` | inductive invariant of the sessions, snapshots and copies; records, totals, constraints, pages, ids; refinement of `LibraryService` |

### SignallingServer

`phase` is where `run_connection` is; `listen`, `egress` and `idle` are what the three
tasks await; `dst` is the handle `listen_task` got from the table and uses after the
unlock; `queue` and `wire` are the mpsc channel and the message inside
`ws_egress.send`; `brand`, `total` and `window` are the `MsgRateLimiter`; `ct` and
`rtt` are the two tables. A routing record is a set: the `Vec` has no duplicates and its
order is never read.

One critical section is one action: `RecordConnection`, `RemoveRecordsFor`, and
`RecordRtrAndGetForwardingQueue` with every early return of
`record_rtr_and_get_forwarding_queue`, including the branch for a member that is not in
the connection table, which the proof shows is never taken. `process` is three
actions, because it awaits the lock: `AcceptMessage` (or `RefuseMessage`,
`DropRateLimited`), the lookup, `TrySend`. A client is free: it may connect, send
anything, close or break at any time; a client in `Stalling` may also stop reading.
Time is abstract: a timer may fire when armed, a rate window may have expired whenever
a message arrives. `incoming()` and `forwarded()` are read by the idle checker only in
comparisons, so the model keeps their outcomes (branded or not, forwarded since the
last check or not).

### ReliableTransport

`seq`, `cur`, `task` are the sender: idle, handing the frame to the connection
(`transmit`), waiting for the acknowledgement. `filter` is `SnFilter` (empty, or the
payload accepted last). `ackOut` and `ackIn` are the backend's two bounded queues;
`stopped` the cancellation token and the `ack_send` task. The browser is
single-threaded and has none of them: `handle_incoming` is one step. The channel `net`
counts copies of messages and loses, repeats (a resend adds a copy) and reorders them.
It stands for `WsNode`, sockets and the signalling server, and for the data channel.
`Restart` replaces a handler: a reloaded page or a restarted backend gets a new
`node_id` and counts from the start. The backend numbers from 0, the browser from 1;
`Serial` removes that difference for the abstract service.

`accepted` and `confirmed` are history: payloads that the filter has let through, and sends
that returned Ok. They are compared with each other and with the abstract service, and no
guard reads them.

The backend queues its acknowledgement before the filter and before it calls
`message_handler` (`ws_node_handler.rs:158-164`), and its `ack_send` task is another one: the
acknowledgement may be sent, arrive and confirm the send while the handler is still to be
called. `handing` is that moment, `BackendHandOver` the call. So "confirmed" means let through
by the filter; if the backend ends in between, the payload is confirmed and lost. The browser
also acknowledges first, but in one step with the rest.

### WsNode

`loop` is what `run_loop` awaits; `sender`, `receiver`, `hand`, `up` and `local` are kept
per connection (the two tasks, the frame inside `ws_sender.send`, the socket, the
`local_stopper`), so a task that outlives its connection would show. `queue` is the mpsc
channel behind `send_tx`, its elements are the numbers of the frames; `flag` is
`is_connected`. `owner` and `acker` are the two who put frames into the queue, the
program's `send` and the `ack_send` task; `stopping` follows `TransportHandler::stop`.
`submitted`, `sent` and `serving` are history. The branches of a `select!` are
alternatives without a preference: a sender that is cancelled may take another frame
first. A connection may break at any moment; each half notices on its own, a receiver may
still read what had arrived, and a write that fails may have been transmitted or not.
The connection numbers are the model's own. `run_loop`'s `Err(_) => break` branches
need a message handler that panics, none of the handlers that are passed does. The
transport's model has this node as part of its channel: what `FrameChannel` leaves open
(losing frames, repeating a connection's tail through a resend, reordering by two
connections that the server reads at the same time) is within what that channel does.

### Negotiation

The browser initiates every negotiation, from a debounce timer; the backend answers.

*Browser.* `step` is the await `onDebounceTimeout` is in (`createOffer`,
`setLocalDescription`, the rollback); `had` are its locals, what it saw of the connection
when it began, and what it compares after each await. `desc` is the pending local offer,
the last agreed one, and their ICE credentials: credentials are named by the negotiation
that drew them, and an offer with `iceRestart` draws new ones. `timer` is the debouncer: `debounceTimer` is
never cleared, so a timer that has fired keeps its age, which `StartDebounceIfFaster`
reads. `pending` and `sending` are the queue of `sendSignallingMessage`.

*Time* counts the thresholds the code compares with: 0.5, 1, 5 and 10 s. It passes
while nothing is under way. That something under way (a message, an answer, ICE)
outlasts a timer is a fault, and the age then jumps to the timer's end. No time passes
inside `createOffer` and `setLocalDescription`.

*Backend.* `offers` and `signals` are the two queues behind `message_handler`, `offer` and
`current` the locals of `run`, `task` whether `run` is in its `select!` or inside a send,
where it sees neither queue. `peer` is the peer connection: its remote credentials, the
offer it handled last, its state. `dcMap` is the channel in the map, `debouncing` and `restarts` the debouncer and
its notifications, `answered` history. `HandleOffer` is the whole arm up to the
acknowledgement it awaits; `Restart` closes the channels and the peer connection and
resets offer and id. A candidate goes out under the id that `run` holds when it sends it
(`rtc_connector.rs:533-539`), which may be the id of a later offer than the one that drew its
credentials: if the answer to offer 1 was given up and offer 2 came, the browser accepts
candidates of offer 1's credentials although it never applied that answer. `CandidatesFollowTheirAnswer` is about the other case, candidates with the pending
offer's own credentials, which are never ahead of its answer.

*Between them* are two links that lose what is aborted and otherwise deliver
in any order. `Network` is what ICE and the data channel do on their own: come up while
both ends hold the same credentials (`Agreed`), break when they do not. `Trouble` is what
goes wrong: something rejected, lost, disconnected, closed; each but the consequences of a
`Close` or a `Cancel` costs one of `MaxFaults`.

### Library

A client is the application's window or a websocket connection (`Remote`); commands of
different clients run at the same time. `db` is what is committed. A `session` says where a
command is: waiting for a connection of the pool, running statement `pc`, failed
and about to write the errors table, or resetting; and what it holds: the `lock` of its
transaction, its uncommitted `work`, the `ids` it has drawn, what it has `read`. `reply` is
the last answer, `last` the listen guard's time stamp, `left` the websockets closed while
a command of theirs ran: the command goes on, its answer reaches nobody.

`LibraryCommands` lists each command's statements in the code's order, with batches
(`BatchSize`), which commands open a transaction, and which call `try_log` while it is still
open. `LibraryData` has the statements: unique keys, foreign keys with their cascades,
`last_insert_rowid`, the keyset paging, and what an absent row does. A track is its name and
listened seconds. `get_tracks` with a tag condition is refused, as in the code: the query
it builds has an empty `WHERE`, or one placeholder more than values. A page is up to `limit`
tracks before the cursor and up to `limit` from it on; a negative limit is none. `TagsAll`
compares the tags found with the length of the list, so a repeated id matches no track.
`add_track` takes the first source for its error context before it does anything else:
without sources it panics (`Panic`), a websocket dies with the command's task, and the window
is never answered. Listens (`listen_info`) cascade away with their track and are
not part of the record in `removed_tracks`.

SQLite and the pool are external: a statement that writes takes the one writer's lock, a snapshot
that is no longer current cannot be written to, and a commit into a rollback journal waits
for every reader, one into a write-ahead log (`is_test`) does not. Waiting for a lock or a
connection may time out at any moment (`Busy`, `AcquireTimesOut`); the command then fails,
its transaction is dropped (a commit that fails drops it before the error is logged), and
`LogError` tries one more insert through the pool, which may fail in turn, unnoticed.

`ResetDatabase` is refused unless `is_test`. It sleeps, names a file by the second, opens it,
which may fail (`CreateRepo`), and then waits for all commands that hold the read lock
(`SwapRepo`); commands that come while it waits wait behind it. `shelf` holds the files there
are, `file` is the one in use. Two resets whose sleeps overlap may name the same file: the
second opens what the first has created, and if commands have written to it in between, the
second reset is answered ok and leaves a library that is not empty. `crowded` is history, the
resets that have overlapped with another one; `LibraryService` promises an empty library to
the others only, and to these one that some reset has put aside or that is in use. The clock
is taken to run forward: a file of the time before this process, or one named by a clock that was
set back, is not met.

`get_tracks_with_sources` reads twice without a transaction; `LibraryService` lets it.
What it shows can miss a track's sources if the track was removed in between, and nothing
else: `ShownTracksAreOfOneDatabase`.

## Runs

| Run | Shows | Instance |
|---|---|---|
| `signalling_safety` | `RoomsHoldLiveMembers`, `PutStaysInsideTheRoom`, `MembershipEndsWithTeardown`, implements `TwoPersonRooms` | 3 connections, 2 tags, queue of 1 |
| `signalling_liveness` | `EveryConnectionEnds`, `InFlightIsOrdered` | 2 connections, 2 tags, 2 messages each, one client that stalls |
| `signalling_stalled` | violated: `StaleConnectionIsRemoved` | a client that stops reading |
| `transport_safety` | `ConfirmedWasDelivered` with stops at both ends and a receiver that restarts | 1 send each, 2 lives of the browser |
| `transport_delivery` | `ConfirmedWasDelivered`, implements `OrderedDelivery`, `EverySendEnds` | 2 sends each, no restart |
| `transport_restart` | violated: `AckMeansDelivered` | 2 sends, 2 lives of the browser |
| `node` | `NoTaskOutlivesItsConnection`, `UsersEndFirst`, implements `FrameChannel`, `QueueDrains`, `StopEnds` | 3 connections, 4 frames, queue of 2 |
| `node_reconnecting` | violated: `NobodyWaitsForReconnection` | 2 connections, 5 frames, queue of 2 |
| `negotiation` | `NegotiationHasItsOffer`, `CandidatesFollowTheirAnswer`, implements `OfferAnswer`, `OnlyRecentTimersHideTrouble`, `RecoversIfAttended`, `CancelEnds` | 2 faults, 5 negotiations, queues of 1 |
| `negotiation_missed` | violated: `Recovers` | the same |
| `library` | `TotalsAgreeWithDays`, `ReadsStayCurrent`, `PagesAreWindows`, `DeletedTracksAreOnRecord`, `AnsweredIdsNameTheTracks`, `ShownTracksAreOfOneDatabase`, implements `LibraryService` | 3 clients with one command each, 2 tracks, batches of 2, pool of 2 |
| `library_pages` | violated: `PagesStartAtTheCursor` | 2 clients, a page that is full from the cursor on, and a condition on tags |

Bounds. Three connections are the fewest that can compete for a room of two; a room
never looks at another tag's record, so two tags are enough to mix them up. A queue of one
is full and empty within two steps, the proofs do without the bound. Two sends in each
direction are what a late acknowledgement of the first needs to meet the second; one copy
of each message suffices because a resend puts it back. Deadlock is not checked in any
of these runs: a system whose connections have all ended, or whose sends, negotiations or
commands are used up, stops. For the node, three connections are a first one, one that inherits the queue, and
one more that may never come; four frames fill the queue, the sender's hand and one
waiting user. Attempts beyond `MaxConnections` fail, like those at a server that is gone
for good. For the negotiation, two faults are one that starts a recovery and one that
meets it. A queue of 1 (8 in the code) is full as soon as the backend is busy, so an
offer that was acknowledged is dropped; recovering from two such faults takes up to five
negotiations, so the bound is never what ends a recovery. For the library, two
commands compete and the third client (a credit, or the reset) comes in at any point; the
second has a command that deletes, one that edits, one that credits, one that panics and one that adds
under the same name, the first has every command there is; a pool of two lets two run
and one wait; three tracks in batches of two are a full batch and the rest.

Fairness. The tokio runtime polls every task that is ready, so a task that waits for
nothing but a lock, the token, a timer or its queue is weakly fair (`Run`, `Listen`,
`Egress`, `IdleCheck`); what clients do is not fair. For the transport the timers and
the tasks are weakly fair; taking an acknowledgement is strongly fair because `select!`
chooses at random between an expired timer and a ready queue and so does not always
choose the timer; and a message that is put into the channel again and again is
received some time (strong fairness of `ReceiveAwaited` and `ReceiveAwaitedAck`), which
is what the handlers ask of the channel. No fairness is assumed of starting or aborting a
send. For the node: every task is weakly fair, a random `select!` does not pass over the
cancellation for ever, a write ends (TCP gives up in the end), and a server that is
tried again and again answers some time, within `MaxConnections`. For the negotiation the
browser's event loop, the backend's task and the network are weakly fair, each as a whole;
faults, `Close` and `Cancel` are not. The library's run states no fairness: it checks
safety only.

## Proofs

All theorems hold for every value of the constants that satisfies the named
assumptions: any number of connections, tags, queue capacities, limits, sends, lives, commands,
batches, and any library to begin with.

*Signalling.* `RoomsHoldLiveMembers` is not inductive: that a member is recorded only
while its connection is live rests on the order of a connection's life (`Lifecycle`:
recorded after the tasks are spawned, removed after they are done, at most once), and
that its tag is the record's rests on branding being permanent (`Branded`). With them,
`RoomsHoldLiveMembers` and `PutStaysInsideTheRoom` are preserved by every action:
nothing takes a member out of a record but its own teardown, which needs the
`listen_task` that holds a handle to have ended, and the queue of a destination that was
torn down is closed. `SignallingRefinement` maps rooms to routing records and held
payloads to `wire` followed by `queue`; each action is a room step or invisible.

*Transport.* `ConfirmedWasDelivered` needs the whole path of an acknowledgement: what is
under way or let through was sent by the running handler (`Issued`), the filter
remembers something that it let through (`Filtered`), hence whatever is acknowledged,
be it dropped by the filter, was reached by what was let through (`AckedWasReached`, of
acknowledgements in the channel and in both queues). A send that is confirmed has the
highest number there is, so what reached it is that payload itself. All of it is said of
senders that are not restarted; `transport_restart` shows what happens to the others.
`TransportRefinesDelivery` adds that the filter of a receiver that is not restarted
remembers the newest payload (`Newest`), and assumes that neither end restarts.

*Node.* `NoTaskOutlivesItsConnection` rests on what is known at each place of `run_loop`
(`Tasks`: where it joins the sender the receiver has ended, and the other way round;
connections not made yet have no tasks). `UsersEndFirst` rests on how far `stop` has come
(`Stopped`). That frames keep their order is the one statement that what is on the wire,
in the sender's hand and in the queue ascends, in this order (`Frames`), with at most one
sender that writes, by the first invariant. Each write is then a `GoOut` of `FrameChannel`,
each call of the handler a `ComeIn`, and no task is left when the channel is closed. That
`HasRoom`'s test for a closed queue never decides is what `QueueOutlivesItsUsers` says.

*Negotiation.* The id the backend keeps goes with its offer (`Held`), because `run` sets and
resets them together. That the answer which the browser applies is the one to its pending
offer is a statement about the whole path of an offer, and ids alone do not give it: the
browser compares ids, but the answer under way must also be to the offer as it was sent.
`Ordered` says that offers ascend from the last one answered over the one held, those
queued and those on the link; `Begun` that all of this, and what the backend
sends, is of negotiations that have begun, and `Fresh` that before the current offer is sent
it is of earlier ones; `Queued` that `pendingRequests` holds at most one offer, of the
current negotiation; `Offered` that the local description is the offer that was sent,
unless it is still being made. `CandidatesFollowTheirAnswer` needs `Credentials`: the task
has at most one message under way, credentials are told only once the offer that drew
them is answered, and the answer to the current offer is under way until the browser has
it. Each step of the connectors is then a step of `OfferAnswer` or invisible to it. The
network's and the time's steps change none of this (`Quiet`), so the theorems hold for
any behaviour of ICE.

`LateTroubleIsAttended` is about the browser's timer alone (`Clock`): whatever is reported
while no timer is pending and nothing is under way starts one, unless a timer was started
less than five seconds ago.

*Library.* A library (`IsLibrary`) is what the constraints of the tables make of the data:
unique names and keys, references that resolve, ids below those that come next.
`LibraryAssumption` asks that of the database the application starts with, that the counts of
listened time agree in it, and of the commands that their arguments have the types of `Command`
in dispatch.rs (`IsCommand`). `IsLibrary` also says that the tables without a number hold 0 in
its place: two rows with one key are then one row, as the model's sets have it.

`LibraryDataProofs` first computes the programs: which statements a command's list consists of,
however long its lists of tracks, urls and pairs are and whatever the batches (`WriterPrograms`,
`DeleteProgram`, ...). Then one lemma per statement shows what it keeps of a library, where it
succeeds and where it fails, and `WritesKeep` puts them together. Listened time is a sum over
rows, a recursive fold; that it can be taken apart row by row is an induction, which
`FoldProofs` (lemmas about the library's folds, not about the program) makes on the set of those numbers for which the claim holds, since the theorems
that take a predicate cannot be instantiated: the minimum of its complement is the
contradiction.

On top of this, the inductive invariant of `LibraryProofs` says how far a session can be with
the lock it has (`Sessions`: no lock before the first statement, a shared one only between
the reads of `delete_track`, a reserved one after the first write), that one connection
has the reserved lock (`OneWriter`), what `delete_track` has read (`Snapshots`: of its own
snapshot while the lock is shared, of the database itself once it is reserved, because the
lock is refused when the snapshot has been overtaken and nobody else commits
afterwards), which files there are (`Shelf`; that each holds a library whose counts agree is part of
`Copies`), and what a transaction has made of the database so far (`Copies`: its
work is a library, the counts agree in it but between the two statements of a credit, and it
is ahead of what is committed by this transaction only). `TotalsAreKept`,
`LibraryStaysALibrary` and `DeletionsAreRecorded` follow from `Copies` at the commit,
`RecordsAreCurrent` from `Snapshots`. `Pages` says that the page of `get_tracks_with_sources`
is of ids drawn in the database that is still there when the sources are read: ids only
grow, and a reset waits for the command (`TracksAreShownAsTheyAre`).

`LibraryRefinesService` compares the statements of a transaction, run one by one among those
of others, with the command run alone. `Run` is what a list of statements does to a database
one after the other; the invariant `Ran` says that a session's copy, its ids and what it has
read are what `Run` makes, in as many steps, of the database the transaction rests on
(`Base`): its snapshot while the lock is shared, what is committed once it is reserved. When
the last statement has run, this is what the command does alone to the committed database,
and `Commit` is the abstract `Perform`. A command of a single statement performs at that
statement, `get_tracks_with_sources` at its second read, after a `Look` at the first. Commands that give
up, fail or are told to wait are refused or change nothing there. `LibraryService` knows
nothing of statements: what a command does alone is a parameter of it. That a reset on its own finds an empty file is
`Crowds`: nobody else names a file while it sleeps, and nobody writes to the one it has opened.

`IdsNameTheTracks` rests on the same invariant and on `AddedTracks`, a theorem about `Run`
and no session: a list's pieces are the list, cut at ascending places (`Cut`), each batch of
names draws the next ids and each batch of sources refers to ids that have been drawn
(`Named`, `Sourced`, by induction over the statements), so that the batch size does not show.

*Only model-checked.* The liveness properties (`EveryConnectionEnds`, `EverySendEnds`,
`QueueDrains`, `StopEnds`, `RecoversIfAttended`, `CancelEnds`): fairness is out of the
prover's reach. Every safety property and every refinement that a passing run checks is also
a theorem.

## Findings

`signalling_stalled`: a client that stops reading is never removed, because
`egress_task` awaits the socket outside its `select!`; memo.md says it is.
`transport_restart`: an acknowledgement is matched by number alone, so one that belongs to the
page before a reload confirms the new page's first message, which the backend then drops.
`node_reconnecting`: `is_connected` stays set while the node reconnects, so sends fill the
queue and then wait in it, and so may `stop`; memo.md says nobody waits for a
reconnection. `negotiation_missed`: recovery can be missed for good. `startDebounceIfFaster`
takes a timer that has fired for one that is pending. A slow exchange outlasts the first
timer; the late answer arrives during the renegotiation, ICE connects, and the FAILOVER
timer (500 ms) finds everything fine; a channel that closes less than a second after that
timer was started then starts no timer, and nobody negotiates again, while memo.md says that
any problem with the connection must be addressed by the frontend.
`OnlyRecentTimersHideTrouble` bounds the window (five seconds after a start) and
`RecoversIfAttended` shows that outside it recovery succeeds.

`library_pages` holds two disagreements, one in each conjunct of `PagesStartAtTheCursor`.
The comment at `sqlite.rs:627` has the tracks before the cursor fill up a page that is short,
and `testDb.tsx` pages through the library with the tracks from the cursor on, going on at the
last id plus one; the query always adds up to `limit` tracks before the cursor, so such a walk
is shown what it has seen again (`PagesAreWindows` says what is shown, and passes; the trace asks
for one track from 2 on and gets 1 and 2). And `get_tracks` refuses a condition on tags, which
`schema.rs:156-160` describes, `testdb.rs:127-133` unwraps and `testDb.tsx:110-114` pages by.

Seen while modelling, without a run of their own. *Signalling*: forwarding to a peer that is
just being closed closes the sender as well (`try_send` into a closed queue is an error of
`process`, `ws_server.rs:143`); memo.md says of a connection that is dropped: "Don't touch the
other participant". `TrySend` has it. *Reset*: the comment of `reset_database` says that the
file name "is guaranteed to be unique" and the database brand-new; two resets whose sleeps
overlap can name one file (`app_core.rs:27`), and the second then answers ok with what was
written after the first. `CreateRepo` has it, and it is why `LibraryService` promises an empty
library only to a reset that none has overlapped with. *add_track* panics without sources
(`sqlite.rs:237`), which `TrackInfo.tsx:120` can send.

In parts the models leave out: `RtcConnector.state()`
(`rtc_connector.ts:341`) reports Connected only while the channel is not open.
`wait_for_a_data_channel_connector` can give an owner to a channel that has just been
replaced in the map, whose control nobody will cancel.

## Not modelled

*Partly modelled components.* Of the backend connector, the owner's side of a data channel
(`wait_for_connected`, `wait_for_a_data_channel_connector`, `RtcSender`, `RtcReceiver`) and what
`handle_incoming_candidate` does to the peer connection; of the browser connector, sending over
the channel, `ws_signalling_connector.ts` and `data_transport.ts`; of the library, textual
search criteria, the time stamps `add_listen` parses, and `add_error` and
`add_track_conflict`, which no command reaches; of the application core, parsing and framing in
the two front ends and the commands that touch no library state.

*Components left out.* The listen tracker (React timers in front of the credit that `Library`
models), the dispatch client (a map from request ids to promises on one thread), players,
playlists, widgets and forms (one event at a time, and rendering), the
legacy router and clients and the pseudocode (superseded or not built), start-up code.

*Throughout.* Metrics, logging, parsing and wording of messages. The numbers of the transport do
not wrap (2^32 sends); scheduling is fair or absent, so loops that spin are not told from
loops that wait.

What would come next: the ownership of data channels with tokio's `Notify` (a
notification that is not stored), above `Negotiation` and below a second `ReliableTransport`;
and the browser's websocket and its restart timer.
