# A verification project for vokusz

vokusz is a chat server (`Server/`, Rust, axum and tokio) with a Flutter client
(`Client/`, whose gateway connection is the package `accordkit`), a tray
application that hosts the server and a Windows media worker. This directory
models the parts of it whose correctness depends on the order in which tasks,
requests, sockets, servers and failures take their turns, checks them with TLC on
small instances, and proves the main safety properties with TLAPS for every
instance.

Paths below are relative to `src/`; `mod.rs` alone is
`Server/src/gateway/mod.rs`, and other paths without a directory are below
`Server/src/`.

Contents: [the system](#the-system) - [the models](#the-models) -
[what the runs show](#what-the-runs-show) - [bounds](#bounds) -
[fairness](#fairness) - [what is proved](#what-is-proved) -
[divergences](#divergences-between-code-and-documentation) -
[what else the code does not keep](#what-else-the-code-does-not-keep) -
[not modelled](#what-is-not-modelled) - [plan](#plan) - [running it](#running-it)

## The system

| Component | State it keeps | Operations | Talks to | What is hard | What makes it correct | Module |
|---|---|---|---|---|---|---|
| Gateway session life cycle (`gateway/mod.rs`, `gateway/resume.rs`, `presence.rs`, `security.rs`) | one task per WebSocket; registry of parked sessions; the dispatcher's table of live ones; presence; admission permits | IDENTIFY, RESUME, serve, drop, hang up, clean up, park, claim, hand over, lapse | event stream, voice, every REST handler that broadcasts | tasks race for one session; five-second claim and 60-second window run against each other; several exits of one long function | one task holds a session; tables match the tasks; presence is answered for; permits are returned | `GatewaySession` |
| Gateway event stream (`gateway/dispatcher.rs`, `gateway/resume.rs`, `mod.rs`) | broadcast channel of 1024 events; a session's seq, replay buffer and receiver; the client's `_sequence` | publish, number, send, collect while parked, replay, confirm | session life cycle, `gateway_socket.dart` | frames lost in flight, failed sends, lag, a second break in the middle of a replay | the client has every event up to `_sequence`, once and in order | `SessionStream`, `EventDelivery` |
| Client gateway socket (`gateway_socket.dart`) | connection state, heartbeat, probe, sleeping reconnects, attempts | connect, shake hands, heartbeat, probe, back off, disconnect | event stream, application | two causes of one reconnect; sleeping handlers that outlive a socket | never stranded; comes to rest on one live session | `GatewayClient` |
| Voice access and eviction (`voice/`, `routes/voice.rs`, `security.rs`) | voice states in memory; `voice_evictions` in the database; participants at LiveKit | join, leave, revoke, evict, sweep every two seconds | gateway, REST, LiveKit | state read before an await and used after it; LiveKit and database fail; a restart forgets memory | nobody stays in a room unaccounted for; who lost access leaves | `VoiceAccess` |
| Snowflake ids (`snowflake.rs`) | two atomics | `generate` | every creation | threads between two atomics, exhausted milliseconds, a clock set back | ids unique and increasing | `Snowflake` |
| Federation outbox and inbox (`federation/outbound.rs`, `sender.rs`, `inbox.rs`, `apply.rs`, `db/federation.rs`) | `federation_outbox`, `federation_inbox_dedup`, the replica's rows | fan out, claim, post, retry, dead-letter; record, apply, roll back, prune | message handlers, peers | at-least-once delivery, a timeout racing a late answer, crashes of either side, events overtaking each other | an event is delivered or accounted for; replica and home agree | `FederationDelivery` |
| Federated spaces (`federation/handshake.rs`, `forward.rs`, `apply.rs`) | the mirror's rows | join with a snapshot, leave, kick, ban, forwarded writes, application of events | outbox, members | snapshot against running fan-out; an answer that is lost after the write; events in any order | copies and members agree with the home | `FederatedSpace` |
| Federated direct messages (`federation/dm.rs`) | channels on two servers | open from either side, announce, block, send, forward | peers | both open at once; a refusal rolled back; an answer lost | one conversation, held by both or by none | `FederatedDirect` |
| Accounts (`routes/auth.rs`, `routes/users.rs`, `admin.rs`, `db/auth.rs`, `state.rs`) | users, tokens, MFA tickets, counters of failures | log in in one or two steps, change and reset passwords, 2FA, disable | everything | statements of several requests outside transactions | limits hold; a revoked session is gone; a ticket serves once | `Accounts` |
| Membership of spaces (`db/members.rs`, `invites.rs`, `bans.rs`, routes) | members, bans, invites, owner | join, leave, kick, ban, new owner, delete | gateway, voice, federation | checks and writes apart; broadcasts in another order than writes | the banned are out; invites are counted; clients' rosters end right | `Membership` |
| Permissions and roles (`middleware/permissions.rs`, `routes/roles.rs`, `db/roles.rs`) | roles, holders, overwrites | resolve; create, change, order, assign | everything | what was checked is stale when written | documented precedence; nobody gives more than they had | `Permissions` |
| Relationships (`routes/relationships.rs`) | two rows per pair | request, accept, block, remove | gateway, direct messages | two rows written one after the other | rows and clients agree | `Relationships` |
| Direct and group channels (`db/dm_participants.rs`, `routes/channels.rs`) | participants, owner | create, add, remove, leave, hand on | gateway | counted before written | no group empty, ownerless or too large | `DirectChannels` |
| Plugins (`routes/plugins.rs`, `db/plugins.rs`) | sessions, participants, slots, leaderboards | start, join, change, end; submit, window | gateway | players counted and slots chosen outside transactions | slots distinct; records right | `PluginSessions`, `Leaderboard` |
| Messages and read states (`routes/messages.rs`, `routes/read_states.rs`, `db/`, `accord_messages.dart`) | rows, pointer, cooldowns, badges; the client's copies | send, edit, delete, pin, preview, acknowledge, load | gateway, federation, AutoMod | ids taken before the write; handlers read back what others wrote | slow mode, unread marks, badges and copies are right | `Messages`, `MessageViews` |
| AutoMod and files (`automod/`, `storage.rs`, `db/attachments.rs`) | policies, held uploads, files on disk, deletion queue | hold, scan, decide, review, expire, delete, sweep | messages | disk, tables and three locks with no transaction over them; a crash | nothing undecided is shown; evidence is kept; a decision comes | `AutoMod` |
| Desktop server (`Server/desktop/src-tauri`) | two sidecar processes, update status | supervise, stop, check, install | operating system | stop against spawn; two checks at once | nothing runs twice or is left behind | `Desktop` |
| Windows media worker (`WindowsClient/MediaWorker`) | a LiveKit session or a loopback | join, mute, deafen, quality, devices | LiveKit, devices | the room's events meet requests; callbacks must not wait | controls kept; the deaf hear nothing; no allocation | `MediaWorker`, `JitterQueue` |
| Rate limiter (`middleware/rate_limit.rs`) | token buckets | take | every request | refill in whole seconds | never above capacity | - |
| Client voice, calls, updates, uploads | controller state | join, leave, call, download | LiveKit, gateway | stale continuations after an await | the last request wins | - |
| MCP server, master directory, link previews, landing pages, client views, vendored packages | | | | stateless or third-party | | - |

How they meet: a REST handler writes a row whose id is a *snowflake*, broadcasts
the event on the dispatcher's channel, from which every *session task* takes it
into its *event stream* towards a *client socket*, and hands it to
`fanout_to_space`, which enqueues it in the *outbox*; the peer's *inbox* applies it
to the *mirror* and broadcasts it on its own dispatcher. Handlers that take away
access call into *voice access*, and so does a session task when its socket ends.
Uploads pass *AutoMod* before their message is shown.

## The models

In all of them an action is the stretch of code between two awaits, two SQL
statements or two atomic accesses, because that is where another task may run.
Requests of several statements keep what they have read and what they still have to
do in a record of their own (`task`, `requests`, `calls`, `gates`, ...).
Variables marked *history* record what the code does not store, so that a promise
can say which overlaps it leaves out. Definitions commented "Mutant:" stand before
the definition they vary; they are faulty variants, used only to confirm that the
properties notice the fault.

### GatewaySession

A WebSocket is one member of `Conn`, one run of `handle_socket`; `pc` is where it
stands. A session is named by the socket that identified it (the code draws a
snowflake), so `sid[c] = c` says `c` is no resume.

| Variable | Code |
|---|---|
| `pc`, `sid`, `resumable` | the task: its position, `session_id`, and whether the close was of the resumable kind |
| `registry` | `state.gateway_resume`, session id to the parked task's claim sender |
| `mailbox`, `answer` | the `mpsc` claim of one parked task and the `oneshot` reply to one claimant |
| `permits` | `security.gateway_users` |
| `dispatcher`, `presence`, `voice` | the dispatcher's sessions, `state.presences`, `state.voice_states` |
| `orphaned` | history: users of whom a handover was answered to a claimant that had given up, or whose claimant then failed |

`FailHandshake`, `Identify`, `RequestResume` are `await_handshake`; `Claim`,
`GiveUpClaim`, `AcceptHandover` are `claim_parked_session` and what follows it;
`Admit`, `Announce`, `Greet`, `Register` the way to the live loop; `Drop` and
`HangUp` leave it (the first resumable, the second not); `CleanVoice`,
`Unregister`, `Park` are the cleanup; `HandOver` and `Lapse` end the parked loop;
`CheckOthers`, `ClearPresence`, `Return` the end. The ownership check and the
removal of the registry entry are two steps, as are `user_has_other_sessions` and
`remove_presence`. Left out: guests (neither presence nor resume), event contents.

### SessionStream and EventDelivery

Events are numbered by their place in the broadcast channel; `mine` are those
`classify_broadcast` sends to the session (intents and permissions are not
computed). `cursor` is the receiver's position: it cannot be more than
`ChannelCap` behind, and `SkipLagged` is `RecvError::Lagged`. `seq` and `buffer`
are `resume.rs`; `wire`, `open` a socket; `last`, `pending`, `got` the client's
`_sequence`, `_resumePending` and what it received; `stamped`, `lagged`, `lost`
are histories of what was numbered, lagged over, and numbered without being
retained. `Deliver` numbers, sends and retains; `DeliverFails` is the send that
fails after the number was given (mod.rs:1131-1135); `Collect` is the parked loop;
`Replay` and `ConfirmResume` are `send_resumed`, frame by frame, so that a socket
can break anywhere in it. `EventDelivery` promises: numbers 1, 2, ..., each seen
at most once, in order, passed over only if dropped when it was numbered. The
refinement maps `assigned <- seq, dropped <- lost, upto <- last, seen <- got`.

### GatewayClient

`GatewaySocket` of the client; Dart runs one handler at a time, so that an action is
a handler up to its next await. `conn` is what the one connection has come to,
`closing` that the client called close on it, `silent` that the other side is gone
without a close frame. `backoffs` and `invalids` count the sleeping calls of
`_attemptReconnect` and `_handleInvalidSession`, which outlive the connection that
caused them: `OnClosed` and `InvalidSession` each start one, `WakeBackoff` tears
down whatever is open. `Hello`, `Accepted`, `Ack` are the frames that matter;
`SendHeartbeat` and `EndProbe` close a connection whose last beat is unanswered;
`ConnectToGateway`, `EnsureConnected`, `DisconnectFromGateway`, `Dispose`, `Update`
are the application. A heartbeat of a healthy connection is answered before the next
is due, unless a fault delays it. Left out: the numbers of events (SessionStream), a
server without RESUME, and a connect that does not await the disconnect before it,
whose subscription is lost (gateway_socket.dart:367).

### VoiceAccess

`voice` is `state.voice_states`, `queue` the table `voice_evictions`, `room` the
participants at LiveKit, `allowed` what the permission check answers. `task` holds
the requests in flight, each with what its handler has read so far; the sweep is
the task `Sweeper`, one at a time (`try_lock`). `AskJoin`, `AskLeave`,
`AskGatewayJoin`, `Revoke` are handlers up to the last await before they touch
memory, `Join`, `Leave`, `GatewayLeave`, `FindSession` what they do there, and
`Remove` (REST: fire and forget), `Enqueue`, `Evict`, `Dequeue`, `Clear`
(evictions) what follows. `StartSweep`, `DrainRow`, `CopyStates`, `CheckState`,
`EndSweep` are `reconcile_voice_access`. `Connect`, `Disconnect` are clients at
LiveKit, `Abandon` a handler dropped with its connection, `Crash` a restart, which
keeps only `queue` and `room`. `stray` is a history: participants the server lost
track of through a failed fire-and-forget call, a failed insert, an abandoned
handler or a crash. A failed call to LiveKit or the database is a `Fault`. `move_member`
(routes/voice.rs:370) checks and then calls `join_voice` for the member, so that its
effect is an `AskJoin`, also for a member who left meanwhile.

### Snowflake

`ReadClock`, `Load`, `Add`, `Spin`, `Keep`, `Renew`, `Reset` are the loads, stores
and the `fetch_add` of `generate`, one action each; `SetClock` is the system
clock, which moves on or is set back by at most `Setback`. An id keeps the order
of its timestamp and number, not its bits.

### FederationDelivery

`log` is what happened on the home server, `home` and `replica` name the event
that wrote each message's row. `outbox`, `attempts`, `waiting` are the rows of
`federation_outbox`; `batch` and `sending` the sender's tick; `req` the requests
on their way or inside `handle_inbox`, so that a request whose sender gave up
after fifteen seconds is still at work while its retry arrives. The sender is
`Claim`, `Post`, `Accept`, `Fail`, `Reschedule`, `DeadLetter`; the inbox `Refuse`,
`Begin`, `AckDuplicate`, then `StoreMessage`/`FindStored` (create),
`FindRow`/`IgnoreAbsent`, `WriteUpdate`, `WriteDelete` (the rest),
`TakeForAbsent` (a lookup's error taken for absence), `Tell` (broadcast), and on
errors `Reject`, `RollbackDedup`. `Break`, `CrashHome`, `CrashPeer`, `Prune` are
the environment. One trusted peer mirrors the channel. The home server's write
and its fan-out are one step: arrival order is arbitrary anyway. A tick claims
all due rows in any order (`next_attempt_at` counts seconds, the batch limit of 32
is not reached). Signatures and rates appear only as `Refuse`.

Three histories make the promise statable: `touched`, events that had their effect
on the peer's row; `late`, those that had it after a later event of the message;
`lost`, those hit by something that may keep them from the peer - a fan-out that
failed, a dead letter, a failed lookup, a record not rolled back, a handler that
was stopped, a duplicate acknowledged while the first request is at work.

### FederatedSpace and FederatedDirect

`FederatedSpace`: one space, its home server and one mirror. `content` and `copy` name
the change that wrote each item (messages, reactions, emojis, the roster's entries) on
either side, `events` what was fanned out and is not applied yet, in no order; that
each is applied once is `FederationDelivery`'s concern. A join is the request, the
member's row, the snapshot, its answer and the statements that store it
(`serve_join`, `request_join`); a write by a fan goes through `forward.rs`, and fails
after the home's write when the answer is lost. `FederatedDirect`: each server stands
for its one user; `opens` are requests to open, `cut`, `undone`, `overlapped` the
openings that ended without an answer, were rolled back, or met.

### Accounts, Membership, Permissions, Relationships, DirectChannels

`Accounts` runs each handler of `routes/auth.rs` statement by statement (`todo`);
a session is a token and its place in the order of creation. `Membership` keeps the
tables of one space and what one client was told (`roster`). `Permissions` computes
the resolution of `middleware/permissions.rs` and has each request check before it
writes: `pending` holds what was checked, and a request is stale once another wrote
what it has read. `Relationships` has the two rows `rel` of each pair beside what the two
clients show; `DirectChannels` the participants of each channel.

### Messages and MessageViews

`Messages`: a message takes its id, reads the clock, is admitted in one transaction
with the cooldown and the channel's pointer, then counts its mentions one by one and
is told. Acknowledgements move `read` and clear `badge`. `MessageViews`: handlers write a
row, read it back and tell what they read; previews come later; the client applies
events in order (`told`) and loads the list over REST. Messages do not interact in
it: each has its row, its events and its place in the cache, and the handlers name
one message; the run therefore has one.

### AutoMod

A file is uploaded with its message; `disk` (`private`, `public`) and the tables
(`status`, `rows`, `queue`, ...) are written in separate steps under three locks. The worker
and the reviewer are actors with a `job`; the drain of the deletion queue, the two sweeps for
orphans, retention and a crash take their own steps. `PassHour` ages only files
whose upload and decision are through, as the code's grace of an hour intends.

### PluginSessions, Leaderboard

A session's participants, roles and slots by the statements of `routes/plugins.rs`;
one record per user and the window around a user, with ties named by the property.

### Desktop, MediaWorker, JitterQueue

`Desktop`: `run_supervised` for each service against `stop()`, and the update checks of
the loop and of clicks. `MediaWorker`: requests from standard input, split where
LiveKit or a device may fail, against the event task. `JitterQueue`: the two
callbacks, where who finds the lock taken gives way.

## What the runs show

Components that share no state are checked in one run where that saves nothing but a
start: the MC module then picks a `focus` in the initial state and only that
component moves, so that the run explores each by itself.

| Run | Configuration | Distinct states | Properties | Shows |
|---|---|---|---|---|
| `sessions` | `GatewaySession_sessions` | 164,558 | `HandoverSafe`, `TablesExact`, `GhostsAreOrphans`, `VoiceEndsWithSession`, `TaskCompletes` | However RESUMEs, deadlines, claims and cleanups race: one task holds a session and it stays its user's; registry, claims, dispatcher and permits say what the tasks do; a user without a task keeps presence only after an abandoned handover; voice ends with its socket; no two tasks wait for each other. |
| `stream_delivery` | `SessionStream_delivery` | 308,893 | `NoSilentGap`, `StampedOnce`, `ImplementsDelivery`, `StableSessionCatchesUp` | The client has every event up to `_sequence` except exactly those whose live send failed; each event is numbered once across handovers; the stream implements `EventDelivery`; a session that stays live catches up, lag included. |
| `voice_rooms` | `VoiceAccess_rooms` | 183,172 | `TypeOK`, `RoomAccounted`, `RevokedLeaves`, `QueueDrains` | A participant who is no member has a row or a task on the way, or is a named failure; a lasting revocation wins over joins checked before it; every row is worked off. |
| `federation_delivery` | `FederationDelivery_delivery` | 2,090,859 | `TypeOK`, `EventsAccounted`, `Converged` | Every event is queued, has had its effect, or was hit by a named failure; once the outbox is empty the peer's row equals the home's unless an event of it was lost or late. |
| `federation_drains` | `FederationDelivery_drains` | 15,311 | `OutboxDrains` | Every row is delivered or dead-lettered. |
| `federation_spaces` | `FederatedSpaces_shared` | 624,609 | `MirrorHolds`, `ConversationHolds` | A mirror's copies and members are the home's once nothing is under way, save for what it was not told, or not in order; a conversation opened from both sides under blocks is one, and both servers hold it, unless an opening was cut off or two met. |
| `accounts` | `Accounts_sessions` | 1,767,985 | `SignInsHold`, `RevocationsHold` | The limit of sessions, tickets used once and failures counted hold with two requests at once; sessions older than a change of password are gone when it is through; 2FA is as the last settled request left it. |
| `memberships` | `Memberships_people` | 1,111,135 | `RolesHold`, `RightsRespected`, `SpaceHolds`, `PairsHold`, `GroupsHold`, `ActivityHolds`, `BoardHolds` | Six components with two requests in flight each (focus): resolution equals the documented precedence and no write exceeds what its author had; the tables of a space, of pairs, of groups, of plugin sessions and of leaderboards keep their relations, and clients end with what the tables hold. |
| `messages` | `Messages_channel` | 831,411 | `ChannelHolds`, `ViewsHold`, `IdsIncrease` | Slow mode lets one message through per cooldown; unread marks, badges and positions are right but for named overlaps; a client that was told everything holds what the rows hold; one thread's ids increase. |
| `uploads` | `AutoMod_uploads` | 130,702 | `FilesHold`, `ReviewWins`, `Decided` | What is held has no public row, evidence stays until decided, every listed attachment has its file and every leftover is queued; a review is not overruled by the scan it crossed; a pending file is decided. |
| `own_machine` | `Desktop_client` | 132,799 | `HostHolds`, `WorkerHolds`, `QueueHolds`, `SocketHolds`, `ServicesRespawned`, `SocketSettles` | Services, update checks, the client's gateway socket, the media worker and its queue, by focus. The socket is never stranded offline without a reason, sends only to a connection that answered, watches what it established, and comes to rest on one live session when failures and calls are over. |
| `ids_two_threads` | `Snowflake_threads` | - | `Unique` (violated) | Two threads return one id, [below](#divergences-between-code-and-documentation). |

Several properties are conjunctions of named parts that belong together
(`TablesExact` = `TypeOK`, `RegistryExact`, `ClaimsExact`, `DispatcherExact`,
`PermitsExact`; `FilesHold` = `HeldIsHidden`, `EvidenceKept`, `ListedIsThere`,
`LeftoversListed`, `HeldBudget`; ...): each part has its comment where it is
defined, and the merged one says what they have in common. Every property has a
mutant in `PROJECT.json` with which TLC refutes it.

`CHECK_DEADLOCK FALSE` is set where ids, messages, events or requests are bounded: when
they are used up nothing is left to do. In `sessions`, `stream_delivery`,
`voice_rooms` and `accounts`, deadlock is checked.

## Bounds

- **sessions**: four sockets, three of user x and one of y, of which three are used in
  any one behaviour; `PerUserLimit` 2 and `GlobalLimit` 3, so that the user's limit
  refuses somebody. Three sockets are one parked session and two that race for it, or
  one that asks for another user's. The code's limits are 8 and 512.
- **stream**: `Limit` 2 and `ChannelCap` 2 (code: 256 and 1024) with five events:
  the buffer evicts, the receiver lags, and both with a replay after them.
- **voice**: one user, two channels (a move leaves a room behind), one gateway
  session beside REST, one handler and the sweep, two joins (a rejoin), one
  failure or crash. `RoomAccounted` for any number of concurrent handlers is proved.
- **ids**: three numbers in a millisecond instead of 4096, so that they run out;
  nine ids over six milliseconds. The run with two threads has three ids and a
  clock that may be set back by one.
- **federation**: one message (messages do not interact), three events (create,
  update, delete), two requests at once (a request and its own retry), two
  attempts, two failures. The liveness run has two events and one failure. Spaces: two
  fans, one item of each kind, three changes, two requests; conversations: two
  servers, two channels and two openings, which is both at once.
- **accounts**: one user, two requests, one session allowed, one failure before a
  lockout, three tokens, two passwords.
- **memberships**: two requests in each component; two roles and three members in two
  setups (a manager above a member, two managers of one rank), two writes; two joiners
  and an invite of one use, and no further request once two about each have met; six peers and a group of at most three, so that requests that
  overlap can pass the limit as far as `GroupLimit` says they may (peers are alike: only
  one creates, with a fixed list for either kind of channel); three users, two players and two slots, and no third request once two have met; three
  scores and limits of the window from one to three.
- **messages**: two requests, a cooldown of two over four instants, three messages; one
  message with two texts, two events on their way, two handlers.
- **uploads**: two files, of which two meet only in the worker's turns; one held file
  allowed, two reviews, one change of policy, one crash.
- **own machine**: two checks, two remote tracks, a queue of three frames; for the socket
  three attempts (code: 10), three faults and three calls, so that two reconnects
  overlap, a disconnect meets sleeping ones, and attempts run out.

`MaxEvents`, `MaxJoins`, `MaxFaults`, `MaxClock`, `MaxIds`, `MaxCalls` and the like
bound only what the environment may do, and appear only in guards.

## Fairness

- `GatewaySession`: weak fairness of the steps the server takes by itself
  (`Serve`) and of its timers (`Expire`), per task: tokio polls every woken task
  and fires every timer. None for clients: they may stay silent for ever.
- `SessionStream`: of reading the channel, of sending, and of the client reading
  its socket. Sockets need not stay open; `StableSessionCatchesUp` is conditional
  on one that does.
- `VoiceAccess`: of each handler's progress, of the sweep that
  `main.rs:289-301` starts every two seconds. LiveKit and the database answer all
  but `MaxFaults` calls.
- `FederationDelivery`: of the sender's tick, the end of a backoff, the inbox's
  handling of a request, and the end of a connection its sender gave up on. Not of
  success: each attempt may fail while failures remain, and the peer may be
  refusing.
- `AutoMod`: weak fairness of requests and of the drain; strong fairness of who waits for
  a lock (a tokio mutex is first come, first served) and of a scan's result (a scanner
  that works now and then). The worker takes pending files in turn.
- `Desktop`: weak fairness of a supervisor's task, strong fairness of a spawn: one that is
  tried for ever succeeds.
- `GatewayClient`: weak fairness of what happens by itself (sleeping handlers wake, frames
  arrive, closes are delivered), of the answer to a heartbeat and of the heartbeat.
  What the network or the server does wrong is bounded by `MaxFaults`. A connection
  that falls silent before its HELLO is named by the property: no timer runs there.

## What is proved

For every value of the constants that satisfies the named assumptions. A module's
theorems are in `<module>_proofs`; those of the components of `MCMemberships` and of
`MCDesktop` are in `Memberships_proofs` and `Desktop_proofs`, those of both sides of
federation (`FederationDelivery`, `FederatedSpace`, `FederatedDirect`) in
`Federation_proofs`, those of messages and their files (`Snowflake`, `Messages`,
`MessageViews`, `AutoMod`) in `Messages_proofs`. Every invariant that a passing run
checks, and every action property, has a theorem.

**GatewaySession** (`ConnAssumption`: every socket has a user, the sentinels are
no sockets). `TypeCorrect`, `HandoverIsExclusive`
(`HandoverSafe`), `TablesAreExact` (`TablesExact`) and its parts, `ResumeKeepsUser`,
`VoiceFollowsSocket` (`VoiceEndsWithSession`), `PresenceIsAnswered`
(`GhostsAreOrphans`). The invariant is the conjunction of all
safety invariants; none stands alone. `OneHolder` needs `RegistryExact` (an entry
leads to a task that is parked and unclaimed) and `ClaimsExact` (a claim is for the
task's own session); `GhostsAreOrphans` needs `DispatcherExact`, to know that
"other sessions" are sessions somebody answers for, and `SessionKeepsUser`. The
proof that a step preserves it has one lemma per action that disturbs several
parts; the others go part by part.

**SessionStream** (`LimitAssumption`, `BoundAssumption`). `TypeCorrect`,
`ResumeIsWhole` (`NoSilentGap`), `HandoverStampsOnce` (`StampedOnce`),
`BufferDecides` (`BufferIsSuffix`), and `Refinement`: every behaviour satisfies
`EventDelivery`. `NoSilentGap` speaks of what the client has; what makes it
inductive is what is under way: frames in flight leave no gap before any of them
(`WireInOrder`), a live session has sent all there is (`LiveSent`), a replaying one
has sent it or still holds it (`ReplaySent`), and the buffer has no hole its first
entry does not tell of (`BufferIsSuffix`, `BufferKept`). For the refinement,
`Receive` is `See` or a stutter, `Deliver`, `DeliverFails`, `Collect` are `Assign`,
`Identify` is `Restart`, everything else stutters.

**VoiceAccess** (`ConstantsAssumption`, `SentinelAssumption`: the sentinels are not
values they are told from). `TypeCorrect`, `RoomsAreAccounted`. A task that deletes
a row or a membership relies on what its own call to LiveKit did, possibly
overtaken by others: `EvictionDone`; and `JobsCarryState` says which tasks hold a
voice state.

**FederationDelivery** (`ConstantsAssumption`, `SentinelAssumption`). `TypeCorrect`,
`EveryEventAccounted` (`EventsAccounted`). An event leaves the outbox on an
answer, so the invariant follows it back: an accepted answer means the effect was
made or a failure is recorded (`OkIsSettled`); a duplicate is acknowledged on the
strength of the record, and a recorded event is done, in work or hit
(`RecordedIsSettled`); the broadcast follows the write (`ToldIsTouched`); the row
being delivered is the one of its request (`SendingIsRow`).
`CopiesConverge` (`Converged`) holds as soon as the outbox is empty, also while requests
are still at work. Its invariant follows the two rows of a message separately: the
home's is the last of its events (`HomeIsLast`), the peer's the last of those that took
effect, as long as none took effect after a later one (`ReplicaFollows`); with
`EventsAccounted`, all of them did, or one was lost.

**FederatedDirect** (`ServersAssumption`: two servers, the sentinels are no values).
`ConversationIsOne` (`ConversationHolds`) about the component's own specification, and
`ConversationKept` about the run's. The invariant, `Conversation`, knows which server has
which channel (`Channels`: a channel is the home's, and what the mirror has, the home has
had), what a request has found at each of its stages (`FoundSoFar`), that only one is
about to create the channel, and only when there is none, unless two looked at once
(`OneAtATime`), that an opener counted as blocked still is (`LateIsBlocked`), and that what
is under way to the mirror was stored (`UnderWayIsPosted`).

**FederatedSpace** (`ItemsAssumption`: each item is of one of the four kinds, a reaction is
on a message, the id of a user as it leaves their server is no id of that server's table).
`MirrorIsFaithful` (`MirrorHolds`) and `MirrorKept`, its form for the run. Events are a set
and are applied in any order, so no order can be relied on. The invariant, `Mirror`, says
instead (`Copies`): for every item there are two times, those of its last change and of its
creation, which no variable keeps, such that whatever the mirror, a snapshot or an event
says of a message or an emoji lies between them, one that the home has is as of the last
change, and until the mirror has been shown the last change of an item its event is under
way. With no event under way the copy can only be the last change. A create that follows
the delete it should precede is what `apart` excuses. Of members, `MovesKnown`: a fan who is not in `broken`
(removed by the home, an answer unheard, two requests met) has one request at most, and
its stage says on which servers they are a member. TLC checked `Mirror`, with the two times
quantified, on all 624,609 states before it was proved. `RowsEndByLeaving`
(`OnlyLeavingRemoves`) is the general form of divergence 6 below: nothing the home
announces takes away a fan's row, so that a kick arrives nowhere, for any users and items.

**Snowflake** (`LimitsAssumption` of `MCMessages`: the bounds are numbers, a millisecond
has at least one id). `IdsOfOneThreadIncrease` (`IdsIncrease`), for one thread and a clock
that is not set back; with a second thread, or a clock set back, TLC finds a repetition
(divergence 1). Between two ids the thread may run out of numbers, wait, renew the
time and reset the counter; the invariant says for each place in `generate` how far all
ids so far stay below the next one (`UpTo`), and that the counter is what the thread
took last, or 0.

**Messages** (`AbsenceAssumption`, `LimitsAssumption`). `ChannelOfManyHolds` and
`ChannelKept` (`ChannelHolds`). Added to what is checked: a send in progress has taken an
id of its own that is not in the table yet (`IdsTaken`), the time of a member's last
message and the channel's pointer are those of some row after which there is none that
counts (`LastSaid`, `PointsAtLast`; the rows are in order of commit, not of ids), a badge
counts no more than what was counted (`BadgeBounded`), and unless acknowledgements met,
the one that is about to tell the devices carries the position stored (`ToldInOrder`).

**MessageViews** (`AbsenceAssumption`). `ViewsOfOneChannelHold` and `ViewsKept`
(`ViewsHold`). A message's rows are followed to the client through whatever is on the
way: `Followed` says that from the list that was sent, or the cache once it is loaded, the
events not yet applied lead to the row, or to what the one handler in progress is about
to tell. For that a message is not there before its creation nor after its deletion (`Once`),
and, unless its handlers met or it was deleted in bulk, one handler at a time has
something to tell (`OneWriter`) and its creation is told before anything else (`CreatedFirst`). Of pins,
`PinsFollow`: the table is as the one pinning handler left it, and the flag follows when
it ends.

**Memberships** (`PermAssumption`, `MembershipsAssumption`: the founder is a member, users and
requests are finitely many where they are counted, a group may hold two, scores are at
least 0, a window shows at least one record, and what marks a free slot is no request).
Each component of `MCMemberships` has its invariant; the theorems are about the
components' own specifications, without the run's `focus`, its bounds and its symmetry.

- *Roles*: `TypeCorrect`, `PrecedenceHolds` (`RolesHold`: the resolution equals the
  documented order for any roles and overwrites), `RankIsRespected`, `GrantsAreOwned`,
  `OverwritesAreOwned` and together `RightsAreRespected` (`RightsRespected`): a write
  changes only what its author ranked above and gives only what they had, unless it is
  stale. A write relies on a check made earlier, so the invariant adds `Backed`: what a
  request checked still holds while it is not stale. Each kind of write then has a
  lemma that it keeps the requests of others backed or makes them stale.
- *Space*: `MembersAreKept` (`SpaceHolds`). `SpaceInv` says of each user of whom no two
  requests overlapped (`Known`) what the one request about them will find (`Finds`: who
  is to be announced is a member, who is to be banned is none, ...), and whether clients
  are still to be told (`Untold`), and of every user, overlaps included, that
  whoever has claimed their introduction alone may post it (`Introduced`). One lemma
  says that a step of a request about one user leaves all others as they were.
- *Pairs*: `PairsAreKept` (`PairsHold`). `PairInv` has the programs a request may run and
  how far it has come (`Progress`): which of the four cells, two rows and what two clients
  show, are final; all other pairs agree meanwhile (`Halfway`).
- *Groups*: `GroupsAreKept` (`GroupsHold`). A channel without participants is waited for by
  a request that will fill or count it (`Waited`); without overlaps the owner takes part,
  or a named heir is about to (`Owned`), and what will be inserted has room (`Fits`). With
  overlaps the limit is `2 * MaxGroup + Cardinality(Call) - 3`: all inserting requests
  but the creator's insert one participant each (`Bounded`), and the creator's list,
  which is not in the table yet, is not counted by those who find room. The limit and the
  number of requests would be too low a bound: with six peers TLC passes it.
- *Activities*: `ActivityIsKept` (`ActivityHolds`): without overlaps, what a request has read
  (the count, the slot, the participants) is still so (`ReadOK`).
- *Boards*: `BoardIsKept` (`BoardHolds`): without overlaps a submission's record is the one
  it read (`OneEach`). That the window shows its user needs no invariant, but an argument
  that counts: whoever is as good or better stands, in every order, on the places up to
  the user's, so that the place is the rank where scores are not shared.

**Accounts** (`BoundsAssumption`: finitely many workers and limits that are numbers;
`SentinelAssumption`). `SignInsAreKept` (`SignInsHold`), `RevocationsAreKept`
(`RevocationsHold`). The invariant lists the programs a handler may be in the middle of
(`Programmed`) and what they have secured: room for the token they will issue
(`RoomKept`), a ticket's number in at most one place (`FromTickets`), at most one
failure more per login that has read the account (`FailuresToCome`), no session older
than a change of password once the deletion is through, and for 2FA what each statement
finds of those before it (`TwoFactorSteps`).

**AutoMod** (`FilesAssumption`: finitely many files, a limit that is a number;
`BoundsAssumption`, `SentinelAssumption`). `FilesAgree` (`FilesHold`),
`NothingSlipsThrough` (`ReviewWins`). Rows and bytes are written in separate steps, so
the invariant says who holds which lock where (`Locked`), that what a decision read
under it is still so (`Current`), that bytes precede the rows that speak of them
(`BytesFirst`), that a file on its way in is in no other table (`Fresh`), and that a
file admitted has its place (`PlaceKept`).

**Desktop** (`BoundsAssumption` of `GatewayClient`, `DesktopAssumption`: sentinels are no
values, the queue has at least one frame). About the four components of `MCDesktop`:
`ServicesAreKept` (`HostHolds`; added: who has asked whom to stop and, while checks do not
overlap, what the one check will still write), `SessionIsKept` (`WorkerHolds`; added: what
the request in progress has still to restore, and which tracks the event task has not
handled), `QueueIsKept` (`QueueHolds`; added: every buffer is in exactly one of queue and
stack, and frames rise from the one played to the last one put), and `SocketIsSafe`
(`SocketHolds`) for any budget of attempts; added: the only connection of a socket that
is disconnected, or was told to be, is one whose session was refused, since otherwise a
probe that ends could leave an established connection unwatched.

**Only model-checked**: the liveness properties and with them fairness
(`TaskCompletes`, `StableSessionCatchesUp`, `RevokedLeaves`, `QueueDrains`,
`OutboxDrains`, `Decided`, `ServicesRespawned`, `SocketSettles`): the proof system has
no rules for `WF_`, `SF_` and `ENABLED`. The divergences below are TLC's too, but for the
sixth: a counterexample on one instance is all it takes. What the models bound (`MaxFaults`,
`MaxClock` and the like) is a constant in the theorems, so that they hold for any bound.

## Divergences between code and documentation

The first has a run in which TLC exhibits it. The next eight are stated as definitions
beside the models, and TLC refutes each when it is added to the configuration of its
module's run; the other properties name the same overlaps as exceptions.

1. **Ids repeat** (`Unique` of `Snowflake`, run `ids_two_threads`).
   `Server/README.md:16`: "unique ID generation for all entities". Two threads that
   find a new millisecond both return its number 0 (snowflake.rs:19, 32-36). A clock set
   back by a millisecond repeats them with one thread, too.
2. **Presence after a failed resume** (`PresenceEndsWithWindow` of `GatewaySession`).
   `gateway/resume.rs:7-9`: the window "is also how long the user keeps their presence
   after the socket goes away". A parked task that answers a claim returns without
   touching presence (mod.rs:1602-1610); when the claimant has given up, is refused a
   permit (mod.rs:904-915) or is told INVALID_SESSION (mod.rs:176-197), nobody is left
   to remove it. The parked task also still holds its own permit when it answers.
3. **Events lost while parked** (`NothingLostBetweenSockets` of `SessionStream`).
   mod.rs:862-864: "nothing dispatched between the two sockets is lost or delivered
   twice". A parked session that falls behind the channel drops the overwritten events
   without a trace (mod.rs:1571, 1576), and the resume succeeds.
4. **Evictions share a row** (`FailedEvictionsStay` of `VoiceAccess`).
   `security.rs:230`: "Failed evictions remain in a durable queue for the periodic
   worker." The DELETE after a success names only channel and user
   (security.rs:295-300) and so removes the row a later, failing eviction of the same
   participant counts on.
5. **Acknowledged, not applied** (`AckedIsApplied` of `FederationDelivery`).
   `inbox.rs:56`: "Already applied; acknowledge without re-applying." The record is
   inserted before the event is applied (inbox.rs:51, 69), so a retry is acknowledged
   when the first request was dropped, stopped by a crash or is still at work.
6. **A kick that does not arrive** (`KickArrives` of `FederatedSpace`).
   `federation/outbound.rs:32-36` and routes/members.rs:287-289 have the departing
   member's server told. The event names the member by the id they have at home, with
   their server's name, under which that server has no row for one of its own users:
   they stay a member of the mirror. `RowsEndByLeaving` proves that only a leave of their
   own ends it.
7. **A conversation undone** (`HomeHasIt` of `FederatedDirect`). `federation/dm.rs:72`:
   "Open (or reuse)". The home that takes back an opening its peer refused deletes the
   channel, also one it reused.
8. **Players limited** (`PlayersLimited` of `PluginSessions`). `Server/README.md:351`:
   "Max player slots". The players are counted before the statement that adds one, and
   in no transaction with it.
9. **A block lifted by the other** (`BlockStays` of `Relationships`).
   routes/relationships.rs:183: the row taken away is "a pending/friend" one. The DELETE
   names no kind (db/relationships.rs:127), so that who blocks back lifts the block set
   on them.

Others are visible in the same models:

- mod.rs:1538-1540 has presence stand while a session is parked, but a second
  session of the user that ends asks `user_has_other_sessions`, which does not see
  parked sessions, and removes it. The check and the removal are also two steps,
  between which a session may announce itself.
- `gateway/resume.rs:43-46` wants no partial replay. An event whose live send fails
  was numbered and is not retained (mod.rs:1131-1139), and `missed_since` looks at
  the oldest retained number only: the client is told it resumed, with a hole.
  `NoSilentGap` says that these are the only holes.
- `Server/README.md:278`: READY begins the event stream. The task subscribes to
  the channel after READY was sent (mod.rs:1000, 1065): an event between the two is
  in neither.
- `voice/state.rs:70-72`: a late leave must not evict the room just joined. The
  membership is compared, but the removal runs later (routes/voice.rs:108, 174) and
  is not: a user who is back in the channel by then is put out.
- `security.rs:146-148`: an entry is cleared only when it still matches. All joins
  over one gateway session carry its id, so the membership of a user who left,
  was allowed again and came back matches (security.rs:160).
- `inbox.rs:83-85` wants transient failures retried. The lookups at apply.rs:199,
  299 and 343 take an error for a missing row, and the event is acknowledged.
- `apply.rs:248`: an existing message is "already stored and broadcast". One whose
  insert was followed by a failing statement (db/messages.rs:312-320) is found by
  its own retry and never broadcast.
- `apply.rs:61`: what is ignored is a harmless no-op. An update or delete that
  overtakes its create is ignored, and the create then restores what was changed
  or deleted. `Converged` names these events `late` and `lost`.
- `federation/dm.rs:44`: "the DM is created exactly once". Two openings at once
  make two channels.
- `db/dm_participants.rs:156` re-adds a creator who left, but the search before it wants
  both to be participants still, so that a new channel is made instead.

## What else the code does not keep

No document promises these; the properties leave them out by name, as histories
(`stale`, `overlapped`, `late`, ...) or by what they compare.

- **Client socket.** After RESUMED `_state` stays `resuming`, so that `ensureConnected`
  never probes a resumed session (gateway_socket.dart:395-397, 784). A probe that slept
  through a reconnect may close the connection that replaced its own (:411-418). Two
  reconnects at once tear down a live session (:569, :751-770). `handleInvalidSession`
  does not look at the budget after its sleep, so that attempts may pass
  `maxReconnectAttempts`. `_sessionStartedAt` survives the teardown, so that a failed
  handshake may count as a long session. A disconnect leaves `_sessionLive` set, and a
  quick connect after it revives a sleeping reconnect. The teardown leaves the heartbeat
  running, and a probe may start it again after a disconnect. A silence before HELLO
  while resuming is noticed by nobody.
- **Spaces.** A ban removes the member and then records the ban (bans.rs:115): a join in
  between stays. A ban does not tell peers that the member left; a kick does. An owner
  set by an administrator becomes a member unannounced (db/admin.rs:92). Roles are
  replaced by a DELETE and INSERTs outside a transaction (db/members.rs:311), positions
  of new roles are the maximum plus one read before (db/roles.rs:53).
- **Accounts.** `verify_2fa` may complete after a disable or a reset (auth.rs:1138);
  two administrators may demote each other (admin.rs:141); trimming may go below the
  limit of sessions when two logins meet (auth.rs:1204-1205); a backup code is read and
  then marked (auth.rs:1168-1194); guests are counted when their token is issued and
  discounted when a socket ends (auth.rs:1284, mod.rs:1499). An icon is deleted before
  its replacement is stored (spaces.rs:129-133).
- **Plugins.** A change of state is checked against the state read before: an end and a
  start at once leave the session running. A kicked member stays a participant. Removing
  a plugin removes its sessions without telling their players. Two submissions at once
  may lose one.
- **Federation.** Between the home's row and the stored snapshot a joiner misses
  events; reordering may restore a deleted message, and a later snapshot does not
  refresh copies that are there. A forwarded write whose answer is lost was made. An opening
  that ends in a transport error is held by one side only.
- **Desktop.** A `stop()` between the look at `should_run` and the storing of the child
  leaves a process behind (`missed`). Two update checks at once overwrite "ready" and
  install twice; the status file is written outside the lock.
- **Media worker.** A change of quality that fails leaves no microphone, and asking for
  the former quality again returns early. A track subscribed while the user ends being
  deafened may stay silenced.
- **Messages.** Ids are compared as texts, which misorders them when they grow by a digit. An
  acknowledgement's event carries the id given, not the stored maximum, and one of an
  older message clears the badge of newer mentions. The channel's pointer may go back when
  two creations cross, and does not when its message is deleted. A member exempt from
  slow mode may set back a cooldown. Edits and deletions in direct messages name no target
  users. A list that loads overwrites events applied meanwhile; a preview may overwrite
  embeds; the answer to an edit may be applied after a newer event. Bulk deletion is not
  broadcast at all (routes/messages.rs:716-730).
- **AutoMod.** The sweep for orphans (storage.rs:549) may take a released file whose name
  an earlier crash left on disk; a review's copy that a crash cuts off leaves a private
  original.

## What is not modelled

Gateway: guest sessions, the computation of intents and permissions, servers without
LiveKit, LiveKit tokens that outlive a membership (docs/security-operations.md states
that limit), the sweep's `LIMIT 100`, the race of `delete_room_if_empty`, which is a
`Disconnect` here. Federation: signatures and rates (a `Refuse`), the 50 messages per
channel of a snapshot, typing, other servers' members, mirrored profiles, unbans.
Accounts: registration, guests, bots, backup codes. Messages: threads' own read states,
reactions at home, search. Files: several files in one message, avatars, icons and
sounds, which are plain saves. The rate limiter, the client's voice session, calls,
updates and uploads have no model yet. The MCP server, the master directory, previews'
fetching and landing pages are stateless or I/O; the client's views display state kept
elsewhere; vendored packages are not this project's code. `PROJECT.json` says for
each component what is left out.

## Plan

Done, in the order written: `GatewaySession`, `SessionStream` with `EventDelivery`,
`VoiceAccess`, `Snowflake`, `FederationDelivery`, their proofs;
`Accounts`, `Membership`, `Relationships`, `DirectChannels`, `PluginSessions`,
`Leaderboard`, `Permissions`, `AutoMod`, `FederatedSpace`, `FederatedDirect`, `Desktop`,
`MediaWorker`, `JitterQueue`, `Messages`, `MessageViews`, `GatewayClient`; then their
proofs, in `Accounts_proofs`, `Desktop_proofs` (host, worker, queue and socket),
`Memberships_proofs` (roles, spaces, pairs, groups, activities, boards),
`Messages_proofs` (files, ids, channel, views) and `Federation_proofs` (outbox and inbox,
conversations, mirrors).

Next, most important first:

1. `GatewayLink`: `GatewayClient`, `GatewaySession` and `SessionStream` as one system.
2. The client's voice session and calls, and its pending uploads, against answers and
   gateway events in either order.
3. Registration, guest counts and backup codes in `Accounts`; two users in
   `VoiceAccess`.
4. The token bucket of the rate limiter, which drops fractions of a second at each
   refill (rate_limit.rs:60-68), against a continuous one.

## Running it

    tlc -workers 2 -config Desktop_client.cfg MCDesktop.tla
    tlapm GatewaySession_proofs.tla

Which module goes with which configuration is in `PROJECT.json` under `runs`;
`mutants` lists, for every property, a faulty variant of a definition that
violates it; `map` the source lines of each definition; `hazards` what the
properties are for. The longest runs take two to three minutes on two cores.
