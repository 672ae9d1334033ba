# Verification of bivy

bivy runs coding agents on machines a team owns ("nodes") and drives them from a
browser, a terminal or a hosted queue of automation runs. This directory holds TLA+
models of the parts of it where correctness depends on the order of steps taken by
several processes, TLC configurations that check them on small instances, and
TLAPS proofs of the most important results for every instance.

## The system and its parts

| part | source | state | operations | what is hard |
|---|---|---|---|---|
| work queue store | `services/control-plane/src/postgres-store.ts` | one row of `work_items` per automation run: status, owner, claim token, lease, attempt | enqueue, list, claim, renew, advance attempt, transition, cancel, retry, park | two machines and the operator act on one row; a claim is reclaimed when its lease runs out |
| work queue endpoints | `services/control-plane/src/index.ts` | none of its own | `/node/work/...`, `/account/automation-runs/...` | reads the row before it acts, so the store has to check again |
| task poller | `src/control-plane-tasks.ts` | runs in flight, lease deadline and heartbeat of each | tick, claim, run, heartbeat, retry, finish, flush | every call may fail, hang or be answered late; the daemon may die anywhere |
| result outbox | `src/work-result-outbox.ts` | results saved and not yet acknowledged | put, list, remove | the only state that survives a crash |
| session event sequencer | `src/session/event-sequencer.ts` | per session: head, ring of recent events | next, record, replay, drop | the ring evicts what a client may still need |
| event coalescer | `src/session-event-coalescer.ts` | per session: the pending update and a timer | push, flush, clear | streamed text must not be overtaken |
| sequence reassembler and client store | `packages/core/src/seq-reassembler.ts`, `store.ts` | cursor, held events, transcript | accept, baseline, reset; history, replay | loss, reordering with replies, restarts |
| relay rooms | `services/relay/src/index.ts` | per node: node socket, clients, waiting clients | attach, admit, forward, close | sockets close while the relay awaits the control plane; a node's new socket overtakes the close of its old one |
| event transfer | `packages/core/src/event-transfer.ts`, `src/remote/event-transfer*.ts` | offered bodies; the page being fetched, events queued behind it | offer, read; accept, part, fail, reset | page timeouts, a reset during decryption |
| session replication | `src/session/replication*.ts`, `replicator.ts` | cursor and epoch of the owner; replicated records, checkpoint and epoch of the standby; the epoch row in the control plane | ship, acknowledge, apply, resync, promote | overlapping ships, lost acknowledgements, restarts, a demoted owner that still sends |
| runner hand-off | `src/runner-handoff.ts`, `/node/work/:id/handoff` | runs being handed off, kept here | launch, re-seal, move | races with claims |
| approvals and questions | `src/approval.ts`, `src/question.ts` | requests waiting for a person | request, answer, expire, cancel | an answer racing the expiry |
| turn watchdog | `src/session/turn-watchdog*.ts` | last progress, timers | arm, progress, recover | an end of turn racing the recovery |

The remaining parts of the repository (agent adapters, credentials, plugins, web
client, command line, fleet, ...) are listed in `PROJECT.json` with the reason they
are left out: they are sequential, or user interface, or mostly calls of services
that are not part of the repository.

How the parts meet. The **task poller** of every machine polls the **endpoints** over
HTTP, and the endpoints act on the **store** under a row lock. A finished run goes
through the **outbox**. The relay can *poke* the poller about a run that changed. An
agent's events go through the **coalescer** and the **sequencer** to the fan-out, over
the **relay** to every client, where the **reassembler** puts them in order and the
**client store** shows them. The client asks the node for replays and for history
snapshots over the same sockets. Events too large for a frame are offered and pulled by
**event transfer** in their place in the stream. The owner of a session connects to its
standby as if it were a client of the standby's relay room and ships **replication**
frames there; the control plane holds only the epoch row that promotion compares.

What makes each part correct:

- *queue*: one claim generation decides a run; a decided run stays decided; an agent
  that finished is not run again for want of an acknowledgement; attempts are counted
  and bounded; every run settles.
- *stream*: a client never steps over the end of a message or turn, never takes an ended
  one off the display, and catches up after any outage.
- *relay rooms*: while a node is attached its clients reach it and know it; nobody is in
  the room of another account, held for a node that is there, or left behind by a close.
- *event transfer*: events are handed over in the order they were sent, once and whole,
  and none waits for ever.
- *replication*: a replica is a transcript the session really had, with its checkpoint;
  it catches up; one machine owns an epoch and keeps its turns.

## Modules

| module | models | notes |
|---|---|---|
| `AutomationRuns` | | abstract: the life of a run as `docs/automation-runs.md` promises it |
| `WorkQueue` | store, endpoints, poller, outbox | the component and its properties; implements `AutomationRuns` |
| `WorkQueueProofs` | | the theorems about it: types, calls, the outbox and the fence |
| `WorkQueueClaimProofs` | | extends them with the claims: attempts, sole execution, and what one run saves |
| `AutomationRunProofs` | | extends those with the refinement of `AutomationRuns` |
| `MCWorkQueue` | | TLC instances: symmetry and a state constraint |
| `EventRing` | `SessionEventSequencer` of one session | operators only, no state |
| `SessionStream` | coalescer, fan-out, link, reassembler, client store | composes `EventRing` with the rest |
| `MCSessionStream` | | TLC instances |
| `SessionStreamProofs` | | the theorems about the node's side of it |
| `ClientStreamProofs` | | extends them with the client's side |
| `RelayRooms`, `MCRelayRooms` | the relay's rooms | one node id, its sockets and its clients |
| `RelayRoomsProofs` | | the theorems about it |
| `OrderedDelivery` | | abstract: what a client is promised about the events of a link |
| `EventTransfer`, `MCEventTransfer` | the store of offers and the receiver | implements `OrderedDelivery` |
| `EventTransferProofs` | | the theorems about it, the refinement included |
| `Replication`, `MCReplication` | owner, standby, epoch row, supervised connection | one session, two machines |
| `ReplicationProofs` | | the theorems about it |

Definitions marked "Mutant" are deliberate bugs. No action uses them; each shows
that the property `PROJECT.json` pairs it with can be violated.

### AutomationRuns and WorkQueue

`AutomationRuns` has a run's `status`, the number of its `attempt`, its `claim` generation,
how often each attempt `ran` and the `results` its executions came to, and no machines,
calls, leases or clocks. A step is one of a run's life: claimed, started, another attempt
reserved, parked, decided, cancelled, retried, an attempt executed, an outcome reported.
`Decide` takes the one outcome of the current claim, and only if the current attempt was
executed; `Execute` takes an attempt that was issued and never executed.

In `WorkQueue`, `row[i]` is the `work_items` row: `st` is status, `owner` is `claimed_by_node_id`,
`tok` the claim token, `lease` whether `lease_expires_at` is set, `att` the attempt, and
`denied` whether a policy denial is recorded as evidence. `run[n][i]` is the poller's
`InFlightRun` with `pc` saying at which `await` the coroutine stands:

    idle -> claiming -> starting -> agent <-> reserving -> checking -> finishing

`active` is `run.state === 'active'`, `reply` the answer of the call the coroutine
awaits, `hb` the heartbeat in flight (`checkLease` allows one; `"bare"` is one sent
without a token).

*Calls.* A call is three steps: the request enters `net`, an endpoint serves it and
leaves the answer in the caller's slot, the caller continues. A `...Fails` action is
the caller giving up (an exception, a timeout, a 5xx or a 408/429) at any point of
that. What it had sent is then lost or stays in `net` as `late`, to be served at any
later time with nobody listening. This covers a lost request, a lost answer and a
delayed request. `Crash` does the same to all calls of a machine and keeps only
its outbox.

*Atomicity.* `withLockedWork` takes the row lock for each store operation and checks
ownership and status again under it, so each endpoint is one step. `requireWorkClaim`
and the claim endpoint read the row before; a stale read can only refuse what the
store would refuse at some moment of the call, or pass it on to the store's own check.

*Time.* A lease is only extended while it is live, so time is the set `lapsed` of
claim tokens whose lease ran out. With `Timely = TRUE` a lease does not lapse while
its holder is active (its own timer fires a second or a tenth of the lease before);
with `FALSE` clocks disagree, timers are late, and `setLeaseDeadline` may judge an
expiry either way.

| actions | code |
|---|---|
| `ServeClaim`, `DenyClaim`, `ServeRunning`, `ServeAttempt`, `ServeOutcome`, `ServeHeartbeat` | the `/node/work/:id` endpoints and the store operations they call |
| `Cancel`, `Retry` | the operator's endpoints |
| `LeaseLapses` | the passage of time |
| `FlushBegin`, `FlushReply`, `FlushFails` | `flushResults` |
| `Tick` | `tick`, after its flush |
| `ClaimReply`, `StartReply`, `StartFails` | `runOne` |
| `AgentEnds`, `AgentRetries`, `AgentAborted` | `runWithPolicy` |
| `ReserveReply`, `ReserveFails` | `reserveAttempt` |
| `FinishReply`, `FinishFails` | `finishWork` |
| `CheckLease`, `HeartbeatReply`, `HeartbeatFails`, `DeadlineFires` | `checkLease`, `setLeaseDeadline` |
| `Crash` | death and restart of the daemon |

`produced` and `execs` are history variables; no guard reads them. The refinement
reads `status`, `attempt` and `claim` off the row; `execs` is `ran` and `produced` is
`results`. Whatever only touches machines, calls, leases and outboxes stutters. Left out: servers
that issue no claim token (`legacy` branches), labels and capabilities (any listed item
may be considered), the contents of evidence and of the run policy (any decision the
policy can take is a disjunct), enqueueing (the rows exist).

### EventRing and SessionStream

One session, one client that has it open, one node, one relay. `EventRing` is the ring
with its two caps and `replay`. The loop of `evict` is given by where it stops: `Evict` is
the set of what it may leave, which has one element (proved, `EvictIsAFunction`), and
`record` refuses an event that would leave a hole, as in the code. `replay` filters
entries that ascend, so it keeps an end of them. The client's two loops are recursive
functions: `AcceptAll` feeds the events of a replay to the reducer one by one, and
`InOrder` drains the held events that a delivery releases, taking out one per round.
In `SessionStream` the node keeps `epoch`, `ring`,
`pending` (the coalescer) and `turn`; `log` is the history of all events fanned out and
`made` numbers them as the agent produced them. `kept` is what the session's messages
hold, the positions of ended messages and turns, and `ended` where the last one ended:
the updates after it belong to an open message. `link` is the node's socket as the
relay sees it: `up`, `broken` (dead, not noticed) or `gone`. `down` and `up` are the
frames and requests in transit. `c` is the client: `epoch`, `next` and `held` of the
reassembler, `shown` (the events its transcript shows), `have` (its history cursor),
`working` and `fin` (`draft.finalized`), `deferred` (the snapshot put off), `opening`
(`awaitingOpenHistory`), `online`, and the history field `synced` (it has had a
snapshot of this epoch) and `bare` (what had been fanned out and that snapshot lacked).

What the data is abstracted to:

- The transcript is a set of positions in `log`. `from` of an event is where the message
  it carries starts. An update and the end of a message carry the whole text so far, so
  showing one shows its message from the start (`foldTranscriptEvent` replaces the draft's
  text), and the pending update replaces the one before it.
- A history snapshot holds the ended messages and turns (`kept`) and nothing of an open
  message, while its `head` is the sequencer's, past the open message's updates.
  `ApplyHistory` replaces the transcript by it: what had been streamed of the open message
  goes from the display, and comes back with the next update or the end.
  An append delta is a snapshot with `base # 0`.
- A message is taken to be among the session's messages, in the runtime or in the event
  log, by the time its end is fanned out (`Settle`). The runtimes do it in that order
  (they push the message, then emit `message_end`), and the listener persists before it
  broadcasts; the durability of the log across a crash is assumed. A turn that ends, or
  a daemon that dies, abandons the text of a message left open.
- Thinking text and tool activity are logged as they stream, so a real snapshot holds
  more of an open message than the model's; the prose, which is what is streamed, it
  does not hold.
- `start` stands for `agent_start` and for the `message_start` of a new message, since
  both make the client's draft live again.
- Frames are delivered whole and in order, which chunking and event transfer are for;
  both are separate components.
- Everything sent on a broken or missing socket is lost. What is in `down` was
  already forwarded by the relay.

| actions | code |
|---|---|
| `AgentUpdate`, `CoalescerFires`, `AgentEvent` | the session listener, `SessionEventCoalescer`, `stampSessionEvent`, `broadcast` |
| `ServeReplay`, `ServeHistory` | the `session.replay` and `history` commands |
| `Close`, `Detach`, `Restart` | `closeSessionRecord`, `detachSessionRecord`, a new daemon |
| `UplinkBreaks`, `PeerOffline`, `Redial` | relay client and `attachNode` with its close handler |
| `ClientDrops`, `ClientReturns` | the client's socket, `markStreamInterrupted`, `admitClient` |
| `Receive` | one message through the store's reducer (`Reduce`) |

An event that arrives before the first snapshot of an epoch starts the stream where it
is (the reassembler adopts it). A client in that state may therefore show less than its
cursor says until the snapshot comes; `CursorExact` and `NoFreshDiscard` are about
clients that are `synced`. A snapshot taken in mid-turn leaves the cursor past text that
is not on display (`bare`). The properties say exactly that: only updates and starts of
a message that was open when the snapshot was taken may be missing, never an end, which
carries the whole message and comes after the snapshot's head. That nothing at all is
missing, as a comment of the store has it, is not so (see the disagreements).

### RelayRooms

One node id. `rooms` is the entry of the relay's `rooms` map and `room[r]` are the room
*objects*: the close listeners of a socket keep the object they were created with, so an
object can outlive its entry. `ws[s]` is a socket: `st` says how far its admission got
(`asking` is the await of the introspection), `link` whether it is open, closed by the
relay with its close event still to come (`closing`) or `closed`, and `room` the object
its listeners hold. `told[c]` is the last notice a client was sent; `ready` counts as
`online`.

| actions | code |
|---|---|
| `Connect`, `NotAdmitted` | the upgrade, `handleConnection`, `refuseUnavailable` |
| `AttachNode`, `AttachClient`, `WaitExpires` | `attachNode` with the admission of held clients, `attachClient`, its timer |
| `CloseNode`, `CloseClient`, `CloseUnattached` | the close listeners; a socket with none |

A socket that is open may close at any step (its peer, the heartbeat, an eviction, a
rate limit). Two things the code does are kept and recorded in history variables, so
that the properties say exactly what they cost: `dropRoomIfEmpty` deletes the entry by
node id, also when it names another object (`misled`), and a socket that closed while
its ticket was checked is attached afterwards (`late`), with no close event to come. Its
ghost stays in the room until the node's next connection replaces it (a node) or for good (a
client).

### OrderedDelivery and EventTransfer

`OrderedDelivery` has events numbered as they are sent, the set `wire` of those under
way and `got`, those dealt with: handed over, or passed over because they are not for this
client. A step deals with some events of the wire in the order they were sent; what was
sent before one of them is gone, and any other may be lost.

In `EventTransfer` the machine keeps `entries` (by event number) and sends, for each
event, the event, an offer, or an error in its place. `down` are the frames to the
client and `up` its requests. `pending` is the transfer being pulled with the pages it
has, `queue` what waits behind it, `opening` the decryptions that have been started and
not resumed, each with the `generation` it started in. A request is identified by its
page and the count of its repetitions, which are never the same for two requests of a
transfer, as its random id is in the code. The refinement maps `wire` to the pending
event, the events of the queue and those in `down`. An entry of `got` says of an event
that it was handed over or passed over, and in which form it came.

| actions | code |
|---|---|
| `SendEvent`, `Read`, `Expire` | `sendEvent` and `EventTransferStore` |
| `OtherReads` | another client of the room pulls the same transfer; its pages reach everybody |
| `NodeLinkDrops` | the machine's socket drops: its last frames and the requests to it are lost |
| `AcceptEvent`, `AcceptPart`, `Timeout`, `SendRejects`, `Decrypted` | `EventTransferReceiver` |
| `LinkCloses`, `Redial` | the client's socket, closed by a fault or by itself |

Left out: corrupted pages (the decryption refuses them and the stream is given up, as
for a timeout), malformed offers, and the limit of 256 request ids a client remembers as
its own.

### Replication

`cp` is the `session_ownership` row. `log[n]` is the event log on each machine, `git` and
`repo[n]` the checkpoint refs where the session was started and in the replicas. A record is the number
of the turn that wrote it, a hash is the list it is the hash of, and a checkpoint commit
is the sequence of turns in its ancestry, so "is an ancestor" is "is a prefix". `me[n]`
is the owner side in memory, `repl[n]` the standby side (`ReplState`), `ship[n][k]` the
`onTurnComplete` calls in progress (they overlap: nothing serialises them), `chan`,
`jobs` and `acks` a frame on its way, being applied, and answered.

| actions | code |
|---|---|
| `TurnEnds` | `finishHarnessTurn`: records and checkpoint are there, `onTurnComplete` starts |
| `Declare` | `POST /node/sessions/:id/standby`, once, whether or not it succeeded |
| `SkipRound`, `ShipBegins`, `ShipFrame`, `AckArrives` | `ensure`, `buildTurnFrame`, `shipOnce`, `applyAck` and its one re-send |
| `Receive`, `FetchCheckpoint`, `PersistFrame` | `StandbyApplier.receive`, `applyCheckpointBundle`, `applyReplFrame` |
| `PromoteReads`, `PromoteSets`, `Promoted` | `promote`: read, compare and set, forget and run |
| `PromotionFails` | `cpPost` without an answer, also after the epoch was won |
| `Drop`, `Reconnect`, `RequestTimesOut`, `Restart` | the supervised connection, the sibling request, the daemons |

`turns`, `won` and `calm` are history variables.

## Runs

| run | constants | checks |
|---|---|---|
| `queue` | 2 machines, 1 run, 2 attempts, 1 late request, admission may be denied, clocks that disagree and late timers | all safety of the queue and the refinement `Lifecycle` |
| `queue_live` | 1 machine, 1 run, 2 attempts, 1 late request, timely timers | `RunSettles`, `OutboxDrains` under fairness |
| `stream` | ring of 2 events or 3 bytes, updates of 2 bytes, hold of 2, 5 events, 2 breaks, 2 frames | all safety of the stream |
| `stream_live` | ring of 1 event, hold of 2, 5 events, 1 break | `ToldCaughtUp`, `GapHealed` under fairness |
| `relay` | 3 connections of the node, 2 clients and 1 of another account, 2 may wait, 4 room objects | all properties of the rooms |
| `transfer` | 4 events of 2 pages, 1 repetition, 1 stored, 1 queued, 2 frames, 1 redial | safety, the refinement `Ordered`, and `Settles` under fairness |
| `replication` | 2 machines, 2 turns, 1 promotion, 2 faults, 2 overlapping ships, worktree sync off, on or switched on | safety of the replica, `UndisturbedTurnHeals` under fairness |

What they show:

- `OutcomeFenced`: a run is succeeded or failed only by the claim generation its row
  carries. It holds with clocks that disagree too: fencing does not depend on time.
- `SavedBeforeSent`, `ResultKept`, `OutboxDrains`: a result is on disk before it is
  sent, stays there until the row has left the claim's working states, and is
  delivered in the end.
- `AttemptExecutedOnce`: an attempt number is executed at most once, through lost
  claims, crashes, reclaims and repeated reservations, with any clocks.
- `SoleExecution`: a machine whose lease has not run out runs the agent alone. With
  timely timers no machine goes on past its lease, so then there is only ever one; with
  late ones the fence makes up for it.
- `OutcomeFinal`: nothing but the operator's retry leaves a decided state, and nothing
  leaves `cancelled`.
- `Lifecycle`: the queue implements `AutomationRuns`. Beyond the properties above it says
  that a run is decided in an attempt that was executed, that a late or repeated
  reservation never moves a row on past the attempt its machine executes or has
  reported for, and that a claim reports one outcome.
- `RunSettles`: a run ends or parks for review, whatever was lost.
- `RingContiguous`, `ReplayComplete`: a replay that is not a reset holds everything
  the client misses, at every state of the ring.
- `FanOutOrdered`: streamed text is never overtaken.
- `CursorExact`, `StreamNoFreshDiscard`: the client shows every end of a message or turn
  before its cursor, with the whole message, and everything else that was sent after its
  snapshot; no end is dropped as a duplicate unless it was shown.
- `NothingErased`: a snapshot may take back the streamed text of an open message, but none
  of an ended one.
- `ToldCaughtUp`, `GapHealed`: after an outage it was told of, also across a restart,
  the client shows every ended message and turn; a gap it noticed is closed.
- `NoticesAgree`, `NodeReachable`, `NobodyHeldInVain`, `OwnAccountOnly`, `NoEmptyRoom`,
  `ClosedLeaves`: through every order of connections, replacements and closes, a client
  in a room knows whether the node is there, the node's open socket is its room's node, nobody is
  held for a node that is there or admitted across accounts, and rooms and their members
  go when their sockets do. `NodeReachable` is excused once a late close has removed the
  entry of another room (`misled`), `ClosedLeaves` for sockets attached after they had
  closed (`late`): both really happen.
- `Ordered`: the receiver implements `OrderedDelivery`, through repeated requests, other
  clients' pages, expired offers, lost frames, overflow and resets during decryption.
  `PagesInOrder`, `WaitsForSomething`, `StoreBounded`: pages are put together in order,
  whatever waits waits for a timer or a decryption, the store stays within its limit.
  `Settles`: no event is held back for ever.
- `ReplicaIsSnapshot`, `CheckpointBeforeTranscript`: as long as only the machine the
  session was started on has run turns, what a standby holds is a prefix of the running
  transcript, ending with a turn; and the checkpoint fetched with it is there. Once a
  promoted machine has run a turn and the demoted one still sends, the only test of an
  append is the record count, and frames that commit out of order can put a delta on top
  of another transcript of the same length: nothing is claimed there. `OnePromotionPerEpoch`: racing promotions have one winner.
- `UndisturbedTurnHeals`: whatever was lost, refused or forgotten by a restart, one turn
  of the rightful owner shipped with nothing in its way brings the standby level. Two
  excuses are part of it. *Nothing in its way* (`calm`): two overlapping ships may commit
  in reverse order, since a frame is judged before the await for git and committed after
  it; the replica then falls back to the older snapshot until the next turn. *Rightful*:
  a demoted owner that restarts declares itself owner again and is handed the new epoch
  (`setSessionStandby` overwrites `owner_node_id`), after which two machines ship to each
  other.

### Disagreements with the repository's own statements

Each of these runs expects TLC to find the violation; the quoted lines are in the
findings of `PROJECT.json`.

- `queue_stale_flush`: `flushResults` lists the outbox, awaits a delivery, and then
  removes by run id. With two results saved, one is delivered by its own run and retried
  by the operator while the flush is at the other. The flush then re-sends the old
  result from its list; an overlapping tick claims the run again, its agent ends and
  saves a new result before the refusal of the old one arrives, and the flush removes the
  new one. A crash before the new result's own delivery runs the agent again.
- `queue_poke`: a poke about a run whose claim is in flight sends a heartbeat without
  token. Its refusal stops a run that has just been granted; the row stays claimed by
  nobody until the lease runs out.
- `stream_close`: closing an idle session drops its ring. `seq` starts over under the
  same epoch and a client that kept its cursor drops the next turn as duplicates.
- `stream_silent`: a node that redials before the relay noticed its dead socket
  replaces it without an offline notice. Lost events at the end of a turn leave no gap
  to notice and the client shows the turn as working.
- `replication_fence`: `promote` ends by forgetting the standby state, and with it the
  epoch. A frame of the demoted owner then meets a fresh state of epoch 0, is not
  stale, and `rewrite` replaces the transcript of the session that now runs there, the
  turns it completed since included.

Three more divergences have no run. A client that opens a session or reconnects in
mid-turn applies a snapshot that lacks the text being streamed, and then moves its cursor
to the snapshot's head, past that text; the comment at `packages/core/src/store.ts:3063`
says that the transcript reflects everything through `headSeq`. The text is off the
display, and a replay of it dropped, until the message's next update or its end.
`CursorExact` states how far this goes (`bare`).

The claim endpoint parks a run that is denied admission, but `parkAutomationRunForPolicy` parks pending runs only: one whose lease
expired stays listed and is refused for as long as the denial lasts, while
`docs/automation-runs.md:94` says it becomes reclaimable. And the comment at
`src/session/event-sequencer.ts:121` says an unknown session is answered with `reset`;
line 127 answers with an empty replay.

### Bounds

`MaxAttempts = 2` is enough for a first attempt, a reclaim or reservation, and the
limit. Two machines are the old and the new holder of a claim; symmetry over them is
sound in runs without temporal properties other than `OutcomeFinal` and `Lifecycle`, which
are about initial states and steps and treat machines alike. One late request is enough for
an outcome of an old claim or a repeated reservation to arrive after the fact. The
two-item run, which is about the flush loop, is constrained to states without expired leases, cancellations, heartbeats and policy retries (`OutboxOnly`).

A ring of two events with a byte cap of three makes both caps evict (two updates do not
fit); with a ring of one every gap of two is a reset. A hold of two overflows with three
events behind a gap, so four events reach it; the fifth lets a snapshot be taken between
the updates and the end of a message of a turn that goes on. Two breaks allow an outage during the
recovery from another, a restart after an outage, or a close after a reconnection. `MaxQueue` bounds
only how far the node runs ahead of the client. `AgentUpdate` and `AgentEvent`
leave room in `MaxLog` for the end of the turn, so that the bound itself cannot leave
a turn open.

Three connections of a node are one that is replaced, one that replaces it and one that
comes after the entry was lost; one client is there before, one is held and one does not
belong. Four room objects are never used up by them. In `transfer` a store and a queue
of one overflow with three events; with two frames a late page meets the answer to its
repetition; one redial gives a stream that follows an abandoned one. One repetition
instead of the code's two exercises both asking again and giving up. In `replication`
two turns make an append, a gap and two overlapping ships; two faults allow a fault
during the recovery from another; one promotion makes a demoted owner. The fence run
needs a third turn for nothing but the demoted owner's answer, and no faults.

`CHECK_DEADLOCK FALSE` is set throughout because the systems come to rest: all runs
settled and delivered, the agent done and the client caught up, all sockets closed, all
events sent, all turns shipped.

### Fairness

*Queue.* Weak fairness for timers that keep firing (`FlushBegin`, lapsing leases,
agents ending, heartbeats). Strong fairness for calls that are tried again for ever
(`ServeAwaited` and the `...Reply` actions): each may fail any number of times, but
not always. The code retries each of them without limit (`finishWork` and
`reserveAttempt` in loops, claims and flushes at every tick), so the assumption is that
the network and the control plane are not down for ever. Nothing is assumed of late
requests, crashes, `Cancel` or `Retry`. Runs whose agent never ends are excluded; the
watchdog is there for that.

*Stream.* Weak fairness for the coalescer's timer, answering requests, noticing a dead
socket, redialling (both sides retry with backoff for ever), receiving, and the end of
a turn (the turn watchdog). Breaks, restarts and further events are never forced.

*Event transfer.* Weak fairness for the page timer and for decryptions, which the
runtime guarantees. Nothing is assumed of the network or of the machine.

*Replication.* Weak fairness for every step of a call that was started, for receiving,
applying and acknowledging frames, and for reconnection, which the supervisor retries
with backoff for ever. Turns, promotions and faults are never forced.

## Proofs

`WorkQueueProofs` proves, for any sets of machines and runs, any attempt limit, cap and
number of late requests, any admission decisions and any clocks:

- `TypeCorrect`, `SavedBeforeSentHolds`, `FenceHolds`: the invariants of
  the same names; and `OutcomeFinalHolds`, the action property.

The assumptions are those named in `WorkQueue`: `NoNode` is no machine, the limits are
numbers of the obvious range, the switches are Boolean.

The inductive invariant is `Inv == TypeOK /\ OneCall /\ SavedBeforeSent /\
OutcomeFenced`. `OutcomeFenced` alone is not inductive: `ServeOutcome` decides a row from
a request, so every outcome in `net` must be backed by a saved result
(`SavedBeforeSent`), including those that a run in `finishing` or a flush may still put
there. A run that repeats its delivery sends its own `tok` and `action`, so these may
not change while its request is out; an answer to an abandoned claim must not change
`tok` under it. That is `OneCall` (in the proof module: it is about how the model
delivers answers, which in the code is a promise per call): the only request a run can
get an answer from is the one it awaits. `TypeOK` gives the shape of rows and requests. The proof has one lemma
per group of actions and part of the invariant (`ServeSaved`, `PollerSaved`,
`RunStepSaved`, ...), and lemmas on what the row operations return (`ClaimRowType`,
`OutcomeOwns`, `DecidedByOutcome`) and on abandoned requests (`AbandonOwn`,
`AbandonSaved`).

`RelayRoomsProofs` proves every invariant of `RelayRooms`, for any sets of node and client
sockets, any of them foreign, any limit on held clients and any number of rooms
(`SocketsAssumption`: no socket is both a node's and a client's, `NoSock` is none):
`TypeCorrect`, `ClientsKnowTheNode` (`NoticesAgree`), `RoomsAreDropped` (`NoEmptyRoom`),
`AccountsSeparate` (`OwnAccountOnly`), `NobodyWaitsForAPresentNode`
(`NobodyHeldInVain`), `OpenNodeIsReachable` (`NodeReachable`) and `ClosedSocketsLeave`
(`ClosedLeaves`).

The inductive invariant `IInv` adds `Placed` to them: a socket that a room names has the
role the room gives it and its listeners hold that room, so it is in one room at most.
Without it a notice to the clients of one room could change what a client of another
room was told, and a close that empties the room its listener holds could leave the
socket in a second one. `NodeReachable` needs `NoEmptyRoom` and `Placed`: `AttachNode`
makes a new room only when the map has none, and then no open node socket relies on the
map unless `misled` says that a late close took its entry. One lemma per action;
`WaitExpires` and `CloseClient` share `LeavePreserves`, the steps of sockets in no room
share `AsidePreserves`.

`WorkQueueClaimProofs` proves, under the same assumptions and with `Inv` as given,
`AttemptsRunOnce` (`AttemptExecutedOnce`) and `ClaimsRunAlone` (`SoleExecution`). The
inductive invariant is `Claims == Tokens /\ Sole /\ Numbers`:

- `Tokens`: tokens are handed out in ascending order, no run holds one above its row's,
  and no two machines hold the same one.
- `Sole`: a claim whose lease has not run out and that has produced no result is the
  row's, and the row is still working or was cancelled. Two machines that both run
  would both be the owner of the row.
- `Numbers`: attempt numbers follow the order of the tokens. The number a row carries is
  at least that of every holder, and above it once the row has gone on; a number that a
  run may still start without asking (its claim's, or a reservation answered `ok`) has
  not been executed. A reservation that times out and is sent again needs this last
  part: the store answers it with the number it gave before, and the run must not have
  started it in between.

Nothing in the argument looks at time: with late timers `SoleExecution` is about the
leases that have not run out, and `AttemptExecutedOnce` holds regardless.

`ResultsAreKept`, in the same module, is `ResultKept` under the hypothesis `OneRun`:
there is one automation run, claimed by any number of machines any number of times.
With a second run it is false (`queue_stale_flush`), and the proof shows where the
hypothesis is needed: a flush then lists at most one result, so it never removes by run
id from a list it took before a delivery. The invariant is `Keeping`:

- `RunKept`: a claim at work belongs to the machine whose run holds it, and its row is
  running from when `POST running` was accepted. A run has nothing in the outbox before
  it reports; what is there while it reports is its own, and once the report is
  answered the claim is no longer at work, so that removing the result is right.
- `BoxKept`: an outbox has one result of a run, and one of a claim at work only on the
  machine that owns the row.
- `FlushKept`: a flush has that one result, still saved, of a run that is not in flight;
  an answer to it means that the claim is no longer at work. The requests it has in the
  network are the one it awaits.

Besides, a claim that is at work and has a result is running, so the outcome is accepted
when it arrives: for a row that is merely claimed the store refuses `complete` once the
lease has expired, and the machine would take the refusal for an acknowledgement. `RowsGoOn`
carries all of this through the store's own steps: a claim that has left the working
states does not return to them, and a running row goes back to claimed only under a new
token.

`AutomationRunProofs` proves, under the same assumptions, that `WorkQueue` implements
`AutomationRuns`: `LifecycleRefinement` (`Lifecycle`). `Inv` and `Claims` do not say
what the abstract `Decide` asks for. The row of a decided run must carry an attempt
that was executed, and nothing so far relates the number in the row to what
its machine does. The invariant `Numbering` (`NumberingInvariance`) adds this, in three
parts:

- `Attempts`: a run that holds a claim has executed the attempt it carries once it is
  past starting, and when it is certain of its number (it has not asked for another
  one, or the answer is there) the row of its claim carries that number.
- `Reservations`: of the reservations under way for its token none is newer than what it
  executes, and while it claims, starts or runs the agent all are older. An older one,
  sent again or late, leaves the row as it is.
- `Reports`: once an outcome is reported under the claim a row carries, the row's attempt was
  executed, and every reservation of that claim still under way is older. Without it a
  late reservation could move the row on between the report and the decision.

It is inductive with `Inv` and `Claims`: a claim token is held by one machine
(`Tokens`), and a saved result is a reported one (`SavedBeforeSent`), which is how
`ServeOutcome` finds the outcome of `Decide`. `QuietStep` is shared by all steps
that neither reserve an attempt nor start the agent; those that do have lemmas of their
own (`GrantNumbering`, `ReservedNumbering`, `StartNumbering`). The refinement then has
one lemma per group of actions (`GrantLives`, `OutcomeLives`, `ExecuteLives`, ...), each
ending in one abstract action or in a stutter.

`EventTransferProofs` proves every invariant of `EventTransfer` and the refinement, for
any number of events, pages, repetitions, redials and any limits (`TransferBounds`):
`TypeCorrect`, `PagesStayInOrder`, `StoreStaysBounded`, `QueueWaitsForTransfer` and
`OrderedRefinement` (`Ordered`). The inductive invariant adds `Pulls` (a transfer that
asks has a page to ask for) and `Order`: what was dealt with comes before the pulled
transfer, that before the queue, that before the events in `down`, and all of them before
`next`, each part ascending. The refinement follows step by step: sending is `Send`,
accepting, draining, giving up and losing are `Receive`, the rest stutters. What
`Drained` does has lemmas of its own, since accepting and decrypting both end in it.

`ReplicationProofs` proves every invariant of `Replication` for any numbers of turns,
overlapping ships, faults and promotions and for every setting of the worktree sync;
`TwoMachines` says that there are two, as the code has one standby. `TypeCorrect`,
`ReplicaStaysSnapshot` (`ReplicaIsSnapshot`), `CheckpointComesFirst`
(`CheckpointBeforeTranscript`) and `PromotionsAreFenced` (`OnePromotionPerEpoch`). The
inductive invariant has `Fence` (every epoch won is at most the row's), `Fetched` (the
checkpoint of a frame about to be persisted is in the repository) and `Snapshot`: before
the session runs anywhere else nothing flows back from the standby (`Silent`), and every
list of records that a ship has read, a frame carries, a job is about to commit or a view
holds is a prefix of the running transcript (`Flowing`, `Stored`). Appending is sound
because two prefixes of one list that agree in length are equal (`Splice`), which is
where the record count is enough and where it stops being so after a promotion.

`SessionStreamProofs` proves the node's side of the stream for any caps, event sizes and
bounds (`CapAssumption`, `StreamAssumption`): `RingStaysContiguous` (`RingContiguous`),
`ReplaysStayComplete` (`ReplayComplete`) and `FanOutStaysOrdered` (`FanOutOrdered`). The
inductive invariant `NodeInv` says that the ring is the end of the log, numbered without
a hole up to `head` (`Retains`), and that the log is in the order of production with the
pending update after all of it (`Ordered`). The client's requests and frames do not
matter to it. `EvictIsAFunction` shows that giving `evict` by its stopping point loses
nothing: there is exactly one, by `Least`, which gets the least element of a set of
numbers from the library's well-founded ordering of finite sets.

`ClientStreamProofs` proves the client's side under the same assumptions, with `NodeInv`
as given: `TypeCorrect` (`TypeOK`), `CursorStaysExact` (`CursorExact`),
`NothingFreshDropped` (`StreamNoFreshDiscard`) and the action property `NothingTakenBack`
(`NothingErased`). With them every safety property of the `stream` run is a theorem.

None of the three is inductive. What a message does to the client depends on what it
says, so the invariant `ClientInv` (`ClientInvariance`) follows the frames under way:

- `Placed`, `Numbered`: an event of the log knows its position; within an epoch `seq`
  ascends from 1, and the ring's head is the last of it. Event and cursor can then be
  compared by position. Numbering is claimed only while no close has restarted `seq`
  (`Fresh`), which is the excuse that `StreamNoFreshDiscard` and `CursorExact` carry.
- `Placed`, `Numbered`: an event of the log knows its position, and its message has no end
  before it (`Spans`); within an epoch `seq` ascends from 1, and the ring's head is the
  last of it. Event and cursor can then be compared by position. Numbering is claimed
  only while no close has restarted `seq` (`Fresh`), which is the excuse that
  `StreamNoFreshDiscard` and `CursorExact` carry.
- `Stored`: the session's messages hold, whole, whatever has ended (`Holds`), and nothing
  has ended since `ended`.
- `InTransit`: every event in a frame is the one of the log (`Genuine`). A snapshot holds
  whatever had ended when it was taken, and its head covers exactly the events of its
  stream sent by then (`Covers`): what baselining on it passes and it does not hold is text
  of a message open at that moment. It was taken after all that the frames *before* it
  show.
- `View`: the client shows and holds nothing beyond the snapshots it has yet to receive,
  holds genuine events of its own epoch, and shows every ended message or turn whole
  (`Whole`). Once it has had a snapshot it shows all events before its cursor but the
  text the snapshot lacked (`Exact`, with `bare`), its cursor stands right behind an event
  (`Reached`), and what it dropped unseen is such text (`Partial`).

The last part of `InTransit` with `Whole` is why `NothingErased` holds: `down` is first in,
first out and what has ended stays among the session's messages, so a snapshot that is
on its way was taken after every end the client can show when it arrives, and holds the
whole message or turn. For the text of an open message nothing of the kind holds. A
deferred snapshot is dropped and asked for again instead of applied, which is the one
case where that argument would not reach.

One message runs `Accept` once per event of a replay, and each may drain any number of
held events, so a step is an iteration. The library's induction theorems cannot be used
here (they take an operator), and nothing is proved of what the recursive functions
return for each input. `Iterates` and `SameIteration` get what is needed from the least
counterexample instead: a step that stays within a set of views can be repeated any
number of times, and the function that is recursively defined by it agrees with that.
`AcceptAllStays` and `InOrderStays` apply this to the two loops. On top there is one lemma
per branch of `Accept`, one per kind of message and one per action.

Only model-checked, and why:

- `ResultKept` with more than one run, where it is false (`queue_stale_flush`). With one
  it is a theorem.
- All liveness (`RunSettles`, `OutboxDrains`, `ToldCaughtUp`, `GapHealed`, `Settles`,
  `UndisturbedTurnHeals`), which is out of the prover's reach.

## Not modelled

- *Relay*: account-free room tokens, the forwarding of frames with rate limits and
  evictions (seen as closes), and the node status sent to the control plane: its calls
  are unordered, so it can be wrong until the node's next change.
- *Frame chunking*: frames arrive whole or not at all.
- *Queue*: hand-off to a runner, enqueue with dedupe and collapse keys. Handing off
  changes the label and the sealing of a pending row between a claim's check of the
  label and its taking of the row; it needs a field of the row and an action of the
  computer's poller in `WorkQueue` and in its proofs.
- *Replication*: turning it off, changing the standby, deleting a session.
- Approvals, questions and the turn watchdog: timers against answers, small state, next.
- The rest of the repository is user interface, adapters of third-party agents and
  services, cryptography, parsing and file system work, sequential or without protocol
  state; `PROJECT.json` gives the reason for each part. It is most of the code, so the
  models cover a small share of the repository's lines.

## Plan

1. Extensions of `WorkQueue`: hand-off to a runner, enqueue with dedupe and collapse.
2. Approvals, questions and the turn watchdog; chunking below `EventTransfer`.
