# Verification of WoClaw

WoClaw connects AI agents through a *hub*: a Node.js server with a WebSocket
port for agents and a REST port for tools. Around it the repository keeps the
integrations through which coding tools use the hub, and 22 *mutation-matrix
drivers*, programs that plant defects in the hub's own sources to see whether
its tests notice. This directory holds TLA+ models of the hub's core, of the
Codex CLI integration and of those drivers, the TLC runs that check them on
small instances, and theorems that TLAPS proves for every value of their
constants. Paths below are relative to the repository's source root;
`ws_server.ts`, `rest_server.ts`, `topics.ts`, `memory.ts`, `session_store.ts`,
`scheduler.ts` and `db.ts` are those of `hub/src/`.

To repeat the checks, in this directory:

    tlc -workers 2 -config topics.cfg MCTopics.tla      # one run
    tlapm TopicsProofs.tla                              # one proof module

`PROJECT.json` names, for each run, its module, configuration and properties;
for each definition that models code, the lines it stands for; and for each
checked property, a change to the model (a *mutant*, kept beside the definition
it changes) that breaks it.

## 1. The system

The hub is one Node.js process, hence one event loop. A handler runs without
interruption to its first `await`; the continuation after it is a task (or
microtask) of its own, and handlers of other sockets and requests run in
between. This is the only concurrency inside the hub, and where most of its
hard behaviour comes from. Outside it, hooks and drivers are processes of their
own: they can be killed between any two steps, and others change the files they
work on. Two storages implement one interface: SQLite, whose
calls are done when they return, and MySQL, whose calls go through a pool of
connections and are answered in any order.

| Component | State | Operations | Talks to | What makes it correct |
|---|---|---|---|---|
| TopicsManager (`topics.ts`) | topics with members, privacy, one invite slot; topics per agent | create, join, private join, invite, leave, remove agent | called by WSServer and REST, synchronously | the two maps agree; private topics admit by invite only; a token admits once and in time |
| WSServer sessions (`ws_server.ts`) | agents by id (socket, topics); sockets | connect, close, error, join, leave, chat | TopicsManager (calls), database (awaits), other agents (frames) | nobody registered on a dead socket; no ghost members; no gap between history and live messages |
| Delegations (`ws_server.ts`, `rest_server.ts`) | records by id | request, response, progress, result, cancel; REST create, cancel | sessions (lookup, frames), database (result on a topic) | finished stays finished; nothing runs unaccepted; the delegator knows the status |
| MemoryPool (`memory.ts`, `db.ts`) | rows with TTL, version history, memory nodes of the graph store | write, delete, read, expiry, eviction | database (awaits), GraphStore (calls), agents (`memory_update`) | no write lost; table, agents and graph store agree when a key is quiet; a delete deletes |
| FederationManager (`federation.ts`) | peers, sockets, reconnect and ping timers | connect, relay, memory exchange | other hubs, MemoryPool | one connection per peer; stop stops; messages do not circulate |
| SessionStore (`session_store.ts`) | session records in the database | register, read (which counts), update, flag, delete | REST, scheduler | no change lost or mixed, no deleted session revived |
| SessionArchiver (`session_archive.ts`) | files by month and session id | archive, restore, list | file system | what is removed was archived |
| ForgettingScheduler (`scheduler.ts`) | timers, run flags | weekly eviction, daily extraction scan | SessionStore, memory table, queue | evicts only what still qualifies |
| Extraction queue (`extraction/engine.ts`, `db.ts`) | queue rows: status, retry count | enqueue, take, finish, fail, retry | AI providers | each session extracted once, retries bounded |
| GraphStore (`graph/store.ts`) | nodes, edges, adjacency lists | add, remove, traverse | MemoryPool, REST | adjacency lists and edges agree |
| Token rotation (`ws_server.ts`) | token, one previous token with a grace time | rotate, authorise | REST, connections | an announced grace period is kept |
| Rate limiting (`ws_server.ts`) | send times per agent | admit | every frame | at most the limit in any window |
| Agent streams (`ws_server.ts`, `agent_stream.ts`) | runs and events in the database | publish, replay | database, topic members | no event journalled and not sent without an error |
| REST server (`rest_server.ts`) | none of its own | routes to the parts above | all | same predicates as the WebSocket side |
| Channel plugin (`plugin/src/channel.ts`) | socket, timers, pending reads | connect, reconnect, send, read memory | the hub | one socket; answers go to the right read |
| MCP bridge (`mcp-bridge/src/index.js`) | socket, pending requests | request, time out | the hub | each request is answered or times out |
| Codex CLI integration (`packages/codex-woclaw/`) | scripts, `hooks.json` and `config.toml` in `~/.codex`; keys of the hub's memory | install, uninstall; session start, stop, compaction | Codex (files), hub (REST) | an interrupted install can be repeated; what one session hands on, the next receives |
| Mutation-matrix drivers (`hub/scripts/*_matrix.py`, `scripts/r485_matrix.py`) | a snapshot, some of them copies inside the tree; the tracked files they mutate | check, snapshot, control, plant, run, restore | git, the test suite, whoever else works in the checkout | no defect is left behind or taken for the original; nobody's edit is lost; a pass means that the suite noticed |

Encryption, OTLP and log formatting, startup and configuration, extraction
providers, the static UI, the other installers, hooks and scripts, and the site keep no state
that interleaves with anything. `PROJECT.json` lists all of them under
"components", and under "hazards" the places in the code that are hard to test,
each with the properties that would catch it going wrong.

## 2. The modules

    Topics  <- HubSessions          EXTENDS Topics and calls its actions
    Delegations                     sessions reduced to off / closing / open
    MemoryPool
    SessionRecords  <- SessionStore SessionStore implements SessionRecords (RecordsSpec)
    CodexHooks                      installer, hooks, and the hub's memory between them
    MutationDriver, MatrixScripts   what drivers do; which driver does what
    MC*                             instances for TLC      *Proofs    theorems for TLAPS

### Topics (`topics.ts`, and the REST handlers that call it)

One action per method; each method is synchronous, so each is one step.

* `created`, `isPrivate`, `agents`, `agentTopics`, `invitedAgents`,
  `inviteToken`, `inviteExpiresAt` are the fields of the two maps. As in the
  code a topic has **one** token and **one** expiry, beside a set of invited
  agents, and each invite overwrites both.
* A token is the number of the invite (the code draws a random UUID; that all
  are different is assumed). `issued` is what inviters were answered,
  `admissions` the successful private joins: only properties read them.
* `now` is a clock that advances on its own. The REST handler hands the `ttlMs` of
  a body on as it is, so a `Ttl` is any integer, or a text that stands for one
  (`TtlValue`); `ExpiresAt` is what `Date.now() + ttlMs` makes of it: a sum, or the
  digits appended to those of the clock, or no number, which no time is before. As
  the code tests `!inviteExpiresAt` before it compares, an expiry of exactly 0 is
  none; `AdmittedBeforeExpiry` excepts the ttl that hits it, and texts of digits.
* `JoinTopic` creates a missing topic, and is disabled on a private one, where
  the code throws before it changes anything.

### HubSessions (`ws_server.ts`: connections, join, leave, chat, disconnect)

EXTENDS `Topics` and calls its actions, as WSServer calls TopicsManager: that the
hub keeps to Topics is how it is written, and claimed by no property. Each
`await` splits a handler: `HandleJoin` / `ReadHistory` / `AnswerJoin`, and
`HandleChat` / `SaveChat` / `BroadcastChat`; `JoinFails` and `ChatFails` are the
rejected database calls.

* The close and error callbacks of a socket captured an **agent id**, not a
  session: `SocketClosed(s)` acts on whatever session `owner[s]` has by then.
  So do `Receives` (a closing socket still delivers frames) and the
  continuations of joins, which hold the socket of the moment of the request.
* `synced`, `seen` and `roster` are what the frames sent to a session amount
  to. They are the observer that `NoGap` and `RosterComplete` speak of.
* Not modelled: `agentByWs` (written, never read); the rate limit (a limited
  frame is one that never arrives); the trim of the message table beyond 10000
  rows, except that it may fail (`unsent`). Messages are numbered in the order
  of their timestamps, which are taken to be different.
* A member list may name agents that have gone, since an arrival is announced
  without asking whether the agent is still there; and a join whose history
  query fails leaves a member nobody was told of. `RosterComplete` claims
  neither.

### Delegations (`ws_server.ts` `handleDelegate*`, `rest_server.ts` POST and DELETE)

A delegation is an *object*, and the hub's map takes an id to the object stored
last under it: callers choose ids and may use one twice, while a result handler
waits for the database holding the old object. `Unstorable` are the objects
whose result the database rejects. `Create` is shared by both
interfaces. `HandleDelegateResult` with a topic awaits `db.saveMessage`;
`PublishResult` goes on after it and looks the id up **again**. Of a session
the module keeps `link`: no session, a socket that is not OPEN, or open; it
moves freely, which allows everything HubSessions does and more. Progress
numbers, notes and results are left out. An agent that takes the name
`rest-api` is not modelled. A target that disconnects leaves its delegations as
they are, there are no timeouts.

### MemoryPool (`memory.ts`, `db.ts`, `handleMemoryWrite` of `ws_server.ts`)

A write is three database calls: `StartWrite` (the read that decides about
duplicates), `SetMemory` (one transaction, which finds the replaced row
itself), `Reread`, and then `FinishWrite` broadcasts the row read back and
copies the value into the graph store. `InProcess` selects the storage:

* **SQLite**: a call is done when it returns, and its handler resumes in a
  microtask. Handlers therefore resume in the order of their calls, and only
  frames pipelined on one socket overlap; `ahead` keeps that order (an access
  that met an expired row takes some microtasks more), `Between` keeps other
  tasks and the clock out of it.
* **MySQL**: answers come in any order; an expired row is read by one
  statement and deleted by another (`DeleteExpired`, `ReadDeletes`), by key.
  The transaction locks the row, so `SetMemory` is one step. A commit whose
  acknowledgement is lost is a `DbFails` after `SetMemory`.

A value is named by the write that stored it. Expiry (`Expire`,
`CleanupExpired`) and eviction (`Evict`) are steps of their own, and, as in the
code, never remove the memory node. `MemoryPool.subscribe` has no caller: writes
over REST or federation, and all deletes, are silent.

`mirror` is the list of a key's memory nodes in the graph store, oldest first. The
pool writes to the oldest (`Synced`) and a delete removes the oldest (`Unmirrored`),
whoever made it: clients add nodes of any key and remove any node over
`/graph/nodes` (`AddNode`, `RemoveNode`). `cut` remembers that the oldest one was
removed so; until the next write the key then has no copy, or a client's node in its
place, which `MirrorIsCurrent` excepts.

### SessionStore (`session_store.ts`, `/sessions` of `rest_server.ts`, `runWeeklyEviction`)

A change of a session is a SELECT, an `await` and an upsert of the whole record:
`Start`, for a GET also `ReadAgain` (`incrementAccessCount` reads what its caller
has just read), and `WriteBack`. `storage` is chosen in Init: with SQLite,
`MayStart` keeps other requests out until a request, or an eviction run, is done
(the handlers resume in microtasks); that holds because a request's body is in
before its handler reads the table. With MySQL they interleave freely, and so do
eviction runs, which nothing keeps apart. An eviction (`StartEviction`, `Evict`)
lists its candidates with the record it saw and deletes them one by one, by id.

The body of a PUT is spread over the record as it is: `Op` gives the importance (in
three classes, and out of range), the access count, the flag, any of them or
several at once; they stand for the summary, topics and the other fields an update
merges. Fields are numbers and booleans: the hub checks no types, a text given as
access count is appended to by the next read. `base` and `reads` remember the count
a session was registered with, or the last PUT gave, and the reads since; that is
what `EveryReadCounts` compares the record with. The scores that order the
candidates are left open: any choice of the permitted size is allowed.

`SessionRecords` is what this amounts to for a client: a session has one record,
and whatever is written is one change away from a record it has had; where
operations are atomic, from the present one. The refinement maps `atomic` to
"the storage is SQLite": with it no change is lost and no deleted session comes
back unless it is registered again. With MySQL both can happen, and what remains
is that no write mixes two records.

### CodexHooks (`packages/codex-woclaw/`: `install.py`, three hooks)

`setup` is the installer, one file at a time in the order of its `main`; every
write may be the last thing it does and leaves a prefix of the file. `script`,
`hooks` and `config` are the files in `~/.codex`. `config.toml` is the sequence
of the lines that matter, divided where a write may stop; `hooks.json` is reduced
to whose commands run on which event. A user edits both files in between.

A hook runs if `HooksEnabled`, if `hooks.json` names it and its script is whole.
`StartSession`, `StopSession` and `PreCompact` are the three hooks, `Post` their
call to the hub: stored and acknowledged, or given up and perhaps stored later
(`Lands`), which may be after newer writes. Checkpoints are numbered; the key of one
is the second of the local time and nothing else, so that two of one session or of
two may share it, and the clock may be set back (`Tick`). A row of the memory may be
evicted, deleted or overwritten by other clients at any time (`Removed`).
`CheckpointsKept` is what that leaves of an acknowledged checkpoint: it stays unless
its row is removed or another checkpoint was made under the same second.

`WellFormed` is what a user's `config.toml` may be: one `codex_hooks` below a
`[features]` line. Dotted keys, inline tables and headers written with blanks are
not among them; beside those the installer sets a second one. Codex reads its files at every
event here; the files of a session that has started may be changed under it.
How Codex reads TOML (`HooksEnabled`) is outside the repository and marked
external.

### MutationDriver and MatrixScripts (22 drivers)

The drivers are written one by one but are made of the same steps. A
`Discipline` is the record of their choices (what is compared with git and when,
how the snapshot is kept, how a file is written, which ways out restore, how the
suite's output is scored), `MutationDriver` what those steps do, and
`MatrixScripts` gives the record of each script, divided as the script is: its
main (`FlowN`), its reading and writing of files (`WritesN`), its parser
(`ReadsN`) and its table of mutations (`ArmsN`).

* A file is the set of the other agent's edits that it holds, whether a defect is
  in it, and whether it is whole: `open(p, 'w')` truncates before it writes, and a
  kill in between leaves the file empty (`Write` with `torn`).
* `Outcomes` are the ways a run of the suite can end, as far as any parser tells
  them apart; `killed`, `survived` and `raises` are what each parser makes of them.
* `Edit`, `Stage`, `Commit` and `Checkout` are the other agent. Of `Checkout` it is
  assumed that it looks at damage and takes a file back from git only while no
  driver is past its own check: during a run, the damage is the run's business.
* `snap` is what a driver writes back, `expect` what its checks compare with. In
  r482, r488 and some others these are two readings of the files (`ReadExpected`),
  and an edit made between them (`Gap`) passes every check and is written over;
  r517 and r520 compare with what the gate saw. `Exposed` names the edits that a
  discipline may lose, these among them.
* The exit status of some drivers depends on a last look at the files (`final`):
  before the last restore (`Finish`), or after it (`StillDiffers`: r517 and r515; r530
  against HEAD). That of r479 and r498b does not.
* `Interrupt` (SIGINT, a Python exception), `Terminate` and `Kill` may come at any
  step. `Raise` and `Leave` are the `finally` blocks of an arm and of the run.
* `r504_matrix.py` works on a copy in a temporary directory that nobody else
  sees, and is not among the drivers.

## 3. Runs

| Run | Instance | What it shows |
|---|---|---|
| `topics` | 2 agents, 2 topics, 3 invites, clock 1..3, ttl -2, 0 or 2, or a text of "0" or "-1" | membership, privacy and invites under every order of calls (1.1 million states) |
| `sessions_gap` | 2 agents, 3 sockets, 1 topic, 2 messages, history of 1, one join at a time, 1 invite, saving may fail | `NoGap`, and that nobody is sent anything of a private topic without having been admitted (1.9 million) |
| `sessions` | the same without messages, 3 joins in flight, 1 invite, history queries may fail | `SessionIsAlive`, `PublicMembersConnected`, `JoinedIsMember`, `RosterComplete` (0.66 million) |
| `delegations` | 2 agents and REST, 1 id, 2 objects, the first one's result rejected by the database | no finished delegation reopened or cancelled, none running unaccepted, the delegator told (0.65 million) |
| `memory_inprocess` | SQLite, 1 key, 2 values, 4 calls, clients adding nodes up to 2 and removing any | agents, graph store and table agree when a key is quiet, a delete removes the copy; nothing without a TTL expires (2.7 million) |
| `memory_pool` | MySQL, 1 key, 1 value, 3 calls, failures | no committed write is lost or reordered in the history (5.2 million) |
| `matrix` | all 22 drivers, 2 files, 2 runs of 2 arms, 1 edit, 1 commit | no defect left behind or taken for a baseline, edits that git does not hold are written over only where a driver's discipline exposes them, verdicts and passes are earned (8.2 million) |
| `session_store` | both storages, 2 sessions, 2 agents, 2 reading requests, 2 registrations, 2 eviction runs of one session each, PUTs of any of the fields, failures | every write is one change away from a record that was there; with SQLite every read counts and evictions delete what they saw (1.0 million) |
| `codex_hooks` | 1 session, 4 initial `config.toml`, 3 runs of the installer, 1 edit, 2 checkpoints, 2 seconds | an interrupted install can be repeated, and is complete when it says so; checkpoints are kept (2.9 million) |

Three runs show a disagreement between the code and what the repository says:

| Run | Property | Disagreement |
|---|---|---|
| `sessions_replaced` | `ReplacementStaysRegistered` | the late close of a replaced socket unregisters the replacement (`ws_server.ts:208`; `hub/test/r470_replacement_socket_eviction.test.ts:28`) |
| `matrix_recovery` | `RecoveryRestores` | a driver killed while it writes its pristine copies leaves an empty one, which the next run writes over the source (`hub/scripts/r523_matrix.py:168`; the same file, 138 and 157) |
| `codex_pick_up` | `SessionsPickUp` | the start hook wants a field `exists` that the hub does not send, so that no session is given the shared context (`packages/codex-woclaw/session_start.py:42`; the package's `README.md:14`) |

### Why the bounds are enough

* Two agents are the joiner and the other one; every property of sessions,
  topics and delegations relates at most two. Topics has two topics, because a
  token of one must not serve the other; the session properties are about one.
* Three sockets: one agent reconnects while its first socket is still closing,
  and the other agent is there to see it.
* A history of **one** row and **two** messages: the limit is reached, which
  with 50 rows would take 51 messages. `sessions` needs no messages, since none
  of its properties is about them.
* Three invites: reuse of one token after a second and a third one; ticks 1 to 3
  put an expiry before, at and after the moment of use, and -2 makes it 0 at the
  second. The hub's runs have one invite, enough to be let in and to be turned
  away.
* Two objects under one id: the id is taken over while a result of the first
  object is being published. `MaxPublishing = 1` is a bound on results of *one*
  object in publication; two objects can be publishing at once. One of the two
  is `Unstorable`, so that what goes unreported can be told from what must not.
* Four calls in process: two overlapping writes, a write before (so that
  there is something to replace) and a delete. Two nodes: one of a client may be
  older than the pool's, or younger. With MySQL three writes give a history of two
  versions, which can be out of order; they interleave with reads, expiry and
  eviction. Which values they store and over which interface makes no difference
  to the history, so one of each is enough there.
* Two sessions of the session store, two requests: two changes of one session overlap, or a change
  and an eviction, while another session is there to be left alone. Two
  registrations let one session be replaced. Two runs of an eviction overlap.
* Three runs of the installer: one that dies, one that dies on what it left, one
  that finishes; or an install, an uninstall and an install. The four contents
  of `config.toml` are those its two tests tell apart. Two seconds put two
  checkpoints into one second or apart. One session: files and installer do not
  tell sessions apart, and a checkpoint's key does not name one; `codex_pick_up`
  has two.
* Two files: an arm's target and one that another arm mutates. Two runs: the
  second one finds what the first one left. Two arms: the second begins on what
  the first one restored. One edit and one commit can be made at any step; two
  edits relate to each other in no property. `matrix_recovery` needs no edits.
* Every bound is a conjunct of a guard or the size of a constant; no run uses a
  state constraint. Symmetry is used where all properties are safety properties.
  Deadlock is checked except where bounded calls, runs and sessions all end:
  MemoryPool, SessionStore, CodexHooks, MutationDriver.

### Fairness

Only `ResultIsReported` needs any: weak fairness of `PublishResult`. It says
that a database call that does not fail is answered and that Node.js then
resumes the handler. Nothing is assumed of agents, sockets or REST callers. Of
a delegation whose result the database rejects nothing is claimed: the status is
set before the call, and the delegator is never told. Nothing has to happen in
the other modules: a driver, an installer or a session may be killed for good,
and a client may never call again.

## 4. Proofs

TLAPS checks these for all values of the constants that satisfy the named
assumptions (`BoundsAssumption`, `SessionsAssumption`, `DelegationsAssumption`,
`MemoryAssumption`, `StoreAssumption`, `HooksAssumption`,
`DisciplineAssumption`: bounds are naturals, null values are not members, a user's
`config.toml` is TOML, a discipline is a record of the declared choices; the code
gives no reason to ask for more, and TLC evaluates them on each run).

* **TopicsProofs.** `TopicsTyping`, `MembershipMirrorHolds`,
  `TokenAdmitsOnceHolds`, `AdmittedBeforeExpiryHolds`,
  `PrivateMembersAdmittedHolds`, `PrivacyIsFixedHolds`. The invariants are not
  inductive alone: that a token admits once follows from where it went. So
  `TopicsInv` adds that the token in a topic's slot is that of an invite to that
  topic with that expiry (`SlotMatchesInvite`, for any ttl), that a spent token is in
  no slot (`SpentTokensGone`), and that only existing topics have members
  (`MembersOfCreated`: otherwise a topic could become private around one).
  `AdmissionsBackedByInvitesHolds` counts: an agent may use the token of an invite
  to another, so the invariant is that its admissions, and one more while it is on
  the invited list, are no more than its invites (`InvitationsLeft`).
* **HubSessionsProofs.** A lemma (`TopicsInHub`) takes TopicsInv over to the hub,
  whose handlers call the actions of Topics; with its `MembershipMirror` the session half `SessionInv` is
  inductive: `SessionIsAliveHolds`, `PublicMembersConnectedHolds`,
  `JoinedIsMemberHolds`. The mirror is needed where `handleDisconnect` removes an
  agent by `agentTopics` and the property speaks of `agents`.
  `HubAdmitsByInvite` carries what is promised of invites over to the hub: through
  sessions and REST calls too, members of private topics were invited, in time.
  `RegisteredUnlessReplacedHolds` is what is left of the violated
  `ReplacementStaysRegistered`: an open socket loses its registration only when
  another socket of the same agent closed or began to.
* **HubDeliveryProofs.** `NoGapHolds` and `RosterCompleteHolds`, for any number of
  agents, sockets, messages and joins in flight, whichever database calls fail.
  Both rest on `MemberInv`: a session that waits for the answer to its latest join
  of a topic, or has got it (`Expects`), is a member. So a broadcast finds it. A
  message broadcast before it was a member is in the rows that its join has read or
  will read, or too old for them (`MissedIsRead`), and once the join is answered
  nothing else is missing (`NothingMissed`). In the same way the answer
  lists the members of its moment, the agent among them (`SelfListed`), and who
  joins later is announced to it when that join is answered (`NobodyUnlisted`).
  `Old` is kept because rows are only ever added. `SessionsTyping` is the type
  invariant. `PrivateSeenByAdmittedHolds`: whatever an agent is sent of a private
  topic, it had been admitted to it. A join is answered after an await, so the
  invariant (`EntitledInv`) says of every join under way, and of all that anybody
  has seen, that the topic exists and, if it is private, that the agent was admitted;
  since no topic becomes private later, no step takes this away.
* **DelegationsProofs.** Every step is one of a creation, an accepted move of a
  status, and a report (`HandledMoves`, `NextKinds`); `MayFollow` states which
  status may follow which. `DelegationsTyping`, `LiveWasOfferedHolds`, `FinishedStaysFinishedHolds`
  and `CalledOffStaysOffHolds` follow. `DelegatorUpToDateHolds`
  goes id by id (`UpToDate`): a step that changes the record of an id reports its
  status, starts a publication, or is the refusal of an `Unstorable` one.
  `ResultStaysDueHolds` is the safety half of `ResultIsReported`: while a result is
  being published no step takes from the delegator what it is owed, and the step
  that resumes the handler tells it the end. What fairness adds is that the step
  is taken.
* **MemoryPoolProofs.** `MemoryTyping` and `HistoryIsFaithfulHolds`, for any
  number of overlapping calls, with both storages and failing calls.
  `HistoryInv` adds that what is stored was committed, that the versions of a
  key are older than its present row, and that a call before its transaction has
  no commit: so appending the replaced row keeps the order. `NoTtlNoExpiryHolds` is
  about SQLite (`ASSUME InProcess`): `ExpiryInv` says that no read is between the
  SELECT of an expired row and its DELETE, so that what it deletes is what it saw.
  `AnnouncedIsCurrentHolds`, `MirrorIsCurrentHolds` and `DeletedIsUnmirroredHolds`
  are about SQLite too, without rejected calls (`ASSUME InProcess, ~DbMayFail`; with
  MySQL they fail, and a write whose read back is rejected is neither announced nor
  copied). `OrderInv` says why: a committed write in flight has its row, or a later
  one, in the table, and of two committed writes the earlier is ahead of the later
  (`FinishInOrder`), so that the last to be announced and copied is the one that
  prevails; a delete runs alone. Whatever nodes clients add and remove, only the
  oldest node of a key holds what a write stored (`CopyIsOldest`), so that the one a
  delete removes is the copy.
* **SessionStoreProofs.** `StoreImplementsRecords`: every behaviour of the session
  memory is one of SessionRecords. `StoreInv` adds that what a request read is a
  record the session has had, and that with SQLite it is the present one and no
  other request or eviction is under way; each action is then one of the
  abstract operations or a stutter. `EveryReadCountsHolds` and
  `EvictsWhatItSawHolds` follow from the same invariant.
* **CodexHooksProofs.** The invariant is in two halves that touch different
  variables. `InstallInv` relates the position of the installer to the files it
  has written (up to there the scripts are whole, and `hooks.json` names nothing
  else) and says that `config.toml` stays well formed in the sense of
  `WellFormed`, torn or not: from it `NamedScriptsExistHolds`,
  `InstalledMeansInstalledHolds` and `SetOnceHolds`. `HubInv` says that whatever may still
  land under a checkpoint's key was sent in its second (`Filed`), and under which
  key an acknowledged checkpoint is (`KeptByKey`): `CheckpointsKeptHolds`.
  `HooksTyping` is the type invariant.
* **MutationDriverProofs.** For any set of drivers with any disciplines.
  `MatrixTyping` needs that an arm under way is counted in `left`.
  `PassIsEarnedHolds` (`PassInv`): an arm that went wrong has made a verdict wrong
  or raised an exception, which leads to another exit status. What it asks of the
  driver is that its exit status stands for its verdicts (`honest`) and that its
  parser scores only suites that ran (`Discerning`; r479, r497, r498b and others are
  not); the last look at the files only adds to that.
  `BaselineIsPristineHolds` (`BaselineInv`): until damage is staged git holds none,
  and what passes a comparison with git is what is read after it.
  `NoResidueAtRestHolds` is the largest, for disciplines that restore
  (`Restoring`, which `MCMatrix` has TLC check of the 22 scripts). Unless damage was
  staged, or a process ended where its script has no cover, one can say at every
  point of a run which files may be damaged (`Damageable`), and that whatever
  ends the run there writes at least those back from pristine bytes
  (`ResidueInv`: the snapshot, git and the kept copies are pristine, the write
  loops still have these files to do).
  `VerdictIsAttributableHolds` says in the same way which files may hold a defect
  that the snapshot does not (`MayHold`), for disciplines that write back or compare
  the files of an arm before the next one, or plant the next one over them
  (`Separating`, checked of the 22 scripts as well: r517 is the one that plants over).
  What the comparison is with matters, and `Settled` says when it is with what was
  read: not when it is with what the gate saw.
  `OnlyExposedEditsLostHolds` is for disciplines that preserve (`Preserving`,
  checked of the 22 scripts). `TornInv` and `CopyInv` say how the write loops and
  the copies in the tree stand to each other, `DatedInv` that no file holds an edit
  before it is made, and `PreserveInv` where an unexposed edit is to be found while
  the driver may write over its file. A driver that compares with git and then reads
  has it in its snapshot (`CarefulInv`); for one that looks before every arm
  (`LooksInv`) that need only be so of the arm's files and of those it would find
  unchanged (`Relies`); what it compares with is its snapshot (`ExpectInv`), or a
  later reading, and edits from between the two are exposed; one that reads before it
  compares, or writes back what an earlier run left (`RoundInv`), has it in every
  whole file if git has it at all. The last case is why `Exposed` speaks of staged
  damage: when the other agent stages an empty file over its own edit, such a driver
  may take the empty file for the baseline and lose the edit. It takes one commit
  more than the run has.
  `RecoveryUnplantsHolds` is what is left of the violated `RecoveryRestores`, for
  disciplines that recover (`Recovering`, checked too): wherever a run was killed, no
  defect is in an owned file once the next one has written the copies back. A file
  with a defect has its copy, and the loop after which the copies are removed has
  still to write it (`Awaited`).

**Only model-checked:** `ResultIsReported` (liveness, out of the prover's
reach; `ResultStaysDueHolds` is its safety half), and the three violated
properties, which are false. Every other property of a run is a theorem.

## 5. Also seen

Met while modelling, and kept out of the runs: places where the code and what
the repository says of it differ, or where a reader should not expect more than
the code does.

* **Topics.** A second invite takes the first invitee's unexpired token
  (`topics.ts:95`, against `docs/ROADMAP.md:1084`). `ttlMs` is not checked
  (`rest_server.ts:1372-1380`, `topics.ts:94`): a text of digits makes an invite that
  practically never expires, any other text one that is never valid, and the one
  negative number that makes the sum 0 an invite without expiry (`topics.ts:58`).
* **Sessions.** The sender of a message gets a copy of it (`ws_server.ts:437`,
  against `docs/API.md:91`). A member list may name agents that have gone.
* **Delegations.** A result overrules a cancelled or rejected delegation (849),
  and a request with a used id replaces a finished one (763), against the states
  of `docs/S12-1-DELEGATION-PROTOCOL.md`.
* **Memory.** A duplicate write is stored and versioned all the same
  (`memory.ts:139`, against `docs/ROADMAP.md:1201`), on a verdict from a read that
  may be stale; a write whose row is gone at the read-back (`memory.ts:140`) is
  stored and not broadcast (against `docs/API.md:172`). With MySQL, a read that met
  an expired row deletes a newer row that never expires (`db.ts:1398`, against
  `types.ts:142`), and a delete between a write's transaction and its mirroring
  leaves the deleted value in the graph store (`memory.ts:148`, against 181-184).
  `POST /graph/nodes` gives a key a second memory node (`rest_server.ts:985`), which a
  delete leaves behind, and `DELETE /graph/nodes/:id` (1007) removes the copy of a
  value that is still there.
* **Session memory.** A PUT may overwrite the access count, the flag and any other
  field, with values of any type (`session_store.ts:46-58`,
  `rest_server.ts:1135`): a text given as access count is appended to by every
  read. Eviction ignores the feedback that is collected for it, `minAccessCount`
  and `recencyHalfLifeDays`; the recency term of `getEvictionCandidates` favours
  the wrong end; `enabled: false` stops the timer and not the deletion; the
  archiver is never called before an eviction; the daily scan sees the 200 newest
  sessions only.
* **Federation.** The connector sends `hubId` and `token` (`federation.ts:107`),
  the acceptor requires `agentId` (`ws_server.ts:164`): two hubs of this version do
  not connect.
* **Drivers.** r482 and r488 read the bytes they restore and the sums they compare
  with one after the other (`r482_matrix.py:17-22`, `r488_matrix.py:52-53`): an edit in
  between is written over by the first arm, after every check has passed. r479 scores
  a run without a summary as a pass (`r479_matrix.py:31-38`).
* **Codex integration.** The uninstaller looks for a command where entries have
  none, one character at a time (`install.py:141-147`), so WoClaw's hooks stay in
  `hooks.json` and name scripts that were removed (against
  `docs/CODEX-CLI-HOOKS.md:197`); `config.toml` is not reverted. A user's
  `codex_hooks = false` is taken for enabled, and an existing `[features]` table
  gets a second one beside it. A user's hooks are overwritten. A Stop hook that
  gave up may still store its summary over a newer one. A second checkpoint of the
  same second replaces the first (`precompact.py:64`), though both were reported
  saved. Checkpoints are never read back, and may hold another session's
  transcript. `SKILL.md:81` says PUT where the code sends POST.
  `codex_example.py:36` takes an attribute of a string and fails when loaded.

## 6. What is not modelled

Of the modelled components: read-only methods and endpoints, message counts,
search, tags and scopes, encryption of values, contents and formats; what an
arm's text says, and which line of a file it changes. Of SessionStore the
feedback, `markExtracted` (called by nothing), lists and searches; of the database
layer the trim of the message table beyond 10000 rows, except that it may fail.

Of the rest of the system, with the reason; `PROJECT.json` gives it for each part.

* **Not reached by the program as it is:** the exchange between federated hubs
  (they cannot connect), the archiver (built by tests only), the extraction queue's
  consumer and its providers (`index.ts` passes no engine). A model would describe
  states this code is never in.
* **One synchronous step, no interleaving:** token rotation, rate limiting, edges
  and adjacency lists of the graph store. What can go wrong there takes two or
  three calls in a row and is listed under "hazards".
* **A protocol already covered:** agent streams are the two awaits of a chat
  message on another table.
* **Outside the hub:** the OpenClaw channel plugin (a client with reconnect and
  ping timers: HubSessions leaves clients free to do what it does), the MCP bridge
  (no answer ever carries its request's id, so its timeout is its only behaviour),
  the OpenCode plugin, the other hooks and the VS Code extension (one request
  each).
* **Programs that read text:** source audits, detectors and generators in
  `hub/scripts` apply regular expressions to source files in one pass and print
  what they found. What they compute depends on the text character by character;
  nothing outlives a pass.
* Encryption, OTLP, startup, configuration, static UI, examples, site, deployment.

Not checked, of what is modelled: that anything happens in the end, but for
`ResultIsReported`. A driver whose suite hangs without a timeout runs for ever, and
no code promises otherwise.
