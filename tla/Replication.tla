----------------------------- MODULE Replication -----------------------------
(***************************************************************************)
(* Warm session replication: the machine that runs a session (the owner)   *)
(* ships its transcript and git checkpoint to a standby at the end of each *)
(* turn; the standby keeps a replica and may be promoted through a         *)
(* compare-and-set of the ownership epoch in the control plane.            *)
(*                                                                         *)
(* One session and two machines, each the standby of the other.  A record  *)
(* of the transcript is the number of the turn that wrote it; the hash of  *)
(* a list of records is the list itself, and a checkpoint commit is the    *)
(* sequence of turns in its git ancestry.                                  *)
(***************************************************************************)
EXTENDS Naturals, Sequences, SequencesExt, FiniteSets

CONSTANTS Node,          \* the two machines
          First,         \* the machine the session was started on
          NoNode,        \* no row in session_ownership
          MaxTurns,      \* bound on the turns completed
          MaxEpoch,      \* bound on the promotions won
          MaxFaults,     \* bound on drops, timeouts and restarts
          MaxShips,      \* bound on onTurnComplete calls in progress per machine
          WorktreeSync   \* values the worktreeSync setting may start with

ASSUME TwoMachines ==
  First \in Node /\ NoNode \notin Node /\ \E m \in Node : m # First /\ Node = {First, m}
ASSUME BoundsAreNat == {MaxTurns, MaxEpoch, MaxFaults, MaxShips} \subseteq Nat
ASSUME SyncSetting == WorktreeSync \subseteq BOOLEAN

VARIABLES
  cp,        \* the session_ownership row: owner and epoch
  log,       \* log[n]: the session's event log on n
  git,       \* the checkpoint ref in the workspace the session was started in
  repo,      \* repo[n]: the checkpoint ref in n's replica repository
  live,      \* the machines on which the session runs
  me,        \* me[n]: n's owner side in memory: declared, epoch, cursor
  repl,      \* repl[n]: n's standby side in memory (ReplState)
  up,        \* the machines whose connection to their standby is up
  sync,      \* the worktreeSync setting of the account's machines
  ship,      \* ship[n][k]: the onTurnComplete calls in progress
  chan,      \* chan[n]: frames on the connection from n to its standby
  jobs,      \* jobs[n]: frames n is applying
  acks,      \* acks[n]: acknowledgements on their way back to n
  promo,     \* promo[n]: promote() in progress on n
  turns,     \* turns completed; history: by whom and in which epoch
  won,       \* history: epoch and machine of every promotion won
  faults,    \* faults injected so far
  calm       \* history: whose last turn is shipped with nothing in its way

ownerVars == <<me, ship>>
wire == <<chan, acks>>
history == <<turns, won>>
vars == <<cp, log, git, repo, live, me, repl, up, sync, ship, chan, jobs, acks, promo,
          turns, won, faults, calm>>

Slot == 1 .. MaxShips
Nobody == 0                     \* the slot of a request nobody waits for any more

StandbyOf(n) == CHOOSE m \in Node : m # n
OwnerOf(m) == StandbyOf(m)      \* whose frames m receives

NoCursor == [count |-> 0, hash |-> << >>, ckpt |-> << >>]
InitialReplState == [epoch |-> 0, records |-> << >>, hash |-> << >>, ckpt |-> << >>, tree |-> FALSE]
CursorOf(s) == [count |-> Len(s.records), hash |-> s.hash, ckpt |-> s.ckpt]
NoFrame == [epoch |-> 0, mode |-> "none", base |-> 0, records |-> << >>, hash |-> << >>,
            ckpt |-> << >>, since |-> << >>, bundle |-> FALSE, slot |-> Nobody]
NoShip == [st |-> "idle", retry |-> FALSE, cursor |-> NoCursor, records |-> << >>, epoch |-> 0]
Undeclared == [declared |-> FALSE, epoch |-> 0, cursor |-> NoCursor]
NoPromo == [st |-> "none", expected |-> 0]

-----------------------------------------------------------------------------
(* The pure core: historyDelta, buildReplFrame, applyReplFrame. *)

PrefixMatches(records, cursor) ==
  /\ cursor.count \in 1 .. Len(records)
  /\ SubSeq(records, 1, cursor.count) = cursor.hash

\* The thin bundle starts at the standby's checkpoint when that is an ancestor.
BundleSince(ckpt, cursor) == IF IsPrefix(cursor.ckpt, ckpt) THEN cursor.ckpt ELSE << >>

BuildReplFrame(epoch, records, ckpt, cursor, k) ==
  LET append == PrefixMatches(records, cursor)
      base == IF append THEN cursor.count ELSE 0
  IN [epoch |-> epoch, mode |-> IF append THEN "append" ELSE "full", base |-> base,
      records |-> SubSeq(records, base + 1, Len(records)), hash |-> records,
      ckpt |-> ckpt, since |-> BundleSince(ckpt, cursor),
      bundle |-> sync /\ ckpt # << >> /\ ckpt # cursor.ckpt, slot |-> k]

UpToDate(records, ckpt, cursor) ==
  PrefixMatches(records, cursor) /\ cursor.count = Len(records) /\ ckpt = cursor.ckpt

\* Mutant: an append is accepted wherever the replica ends.
FitsAnywhere(s, f) == TRUE
Fits(s, f) == f.mode = "full" \/ f.base = Len(s.records)
NextRecords(s, f) == IF f.mode = "full" THEN f.records ELSE s.records \o f.records
FencedOut(s, f) == f.epoch < s.epoch

\* The view committed once the effects of frame f have landed in state s; tree
\* records, for the properties, that the checkpoint it names was fetched.
Applied(s, f, next, fetched) ==
  LET ckpt == IF f.ckpt = << >> THEN s.ckpt ELSE f.ckpt
  IN [epoch |-> IF f.epoch > s.epoch THEN f.epoch ELSE s.epoch,
      records |-> next, hash |-> f.hash, ckpt |-> ckpt,
      tree |-> fetched \/ (s.tree /\ ckpt = s.ckpt)]

-----------------------------------------------------------------------------
(* The owner: OwnerReplicator and ReplicationService.onTurnComplete. *)

CheckpointHead(n) == IF n = First THEN git ELSE repo[n]

Quiet(n) == /\ \A k \in Slot : ship[n][k] = NoShip
            /\ chan[n] = << >> /\ acks[n] = << >> /\ jobs[StandbyOf(n)] = {}

\* A turn ends: its records are in the log, its checkpoint is taken, and
\* onTurnComplete starts.  A promoted session runs in the replica's checkout.
TurnEnds(n) ==
  /\ n \in live /\ Cardinality(turns) < MaxTurns
  /\ \E k \in Slot :
       /\ ship[n][k] = NoShip
       /\ ship' = [ship EXCEPT ![n][k].st = IF me[n].declared THEN "connect" ELSE "declare"]
  /\ LET t == Cardinality(turns) + 1
     IN /\ log' = [log EXCEPT ![n] = Append(@, t)]
        /\ git' = IF n = First THEN Append(git, t) ELSE git
        /\ repo' = IF n = First THEN repo ELSE [repo EXCEPT ![n] = Append(@, t)]
        /\ turns' = turns \union {[id |-> t, by |-> n, epoch |-> cp.epoch]}
  /\ calm' = IF \A m \in Node : Quiet(m) THEN n ELSE NoNode
  /\ UNCHANGED <<cp, live, me, repl, up, sync, wire, jobs, promo, won, faults>>

\* Mutant: declaring a standby again advances the fence.
DeclareBumps(n, k) ==
  /\ ship[n][k].st = "declare"
  /\ cp' = [owner |-> n, epoch |-> cp.epoch + 1]
  /\ me' = [me EXCEPT ![n] = [@ EXCEPT !.declared = TRUE, !.epoch = cp.epoch]]
  /\ ship' = [ship EXCEPT ![n][k].st = "connect"]
  /\ UNCHANGED <<log, git, repo, live, repl, up, sync, wire, jobs, promo, history, faults, calm>>

\* POST /node/sessions/:id/standby, once per session.  The call may fail before
\* or after the row is written; it is not made again either way.
Declare(n, k) ==
  /\ ship[n][k].st = "declare"
  /\ \E served \in BOOLEAN, answered \in BOOLEAN :
       /\ answered => served
       /\ ~answered => faults < MaxFaults
       /\ faults' = IF answered THEN faults ELSE faults + 1
       /\ cp' = IF served THEN [cp EXCEPT !.owner = n] ELSE cp
       /\ me' = [me EXCEPT ![n] = [declared |-> TRUE, cursor |-> @.cursor,
                                   epoch |-> IF answered THEN cp.epoch ELSE @.epoch]]
  /\ ship' = [ship EXCEPT ![n][k].st = "connect"]
  /\ UNCHANGED <<log, git, repo, live, repl, up, sync, wire, jobs, promo, history, calm>>

\* The standby could not be reached in time: this round is skipped.
SkipRound(n, k) ==
  /\ ship[n][k].st = "connect" /\ n \notin up
  /\ ship' = [ship EXCEPT ![n][k] = NoShip]
  /\ calm' = NoNode
  /\ UNCHANGED <<cp, log, git, repo, live, me, repl, up, sync, wire, jobs, promo, history, faults>>

\* buildTurnFrame reads the cursor, the records and the epoch, then awaits.
Reading(n, cursor, retry) ==
  [st |-> "building", retry |-> retry, cursor |-> cursor, records |-> log[n], epoch |-> me[n].epoch]

ShipBegins(n, k) ==
  /\ ship[n][k].st = "connect" /\ n \in up
  /\ ship' = [ship EXCEPT ![n][k] = Reading(n, me[n].cursor, TRUE)]
  /\ UNCHANGED <<cp, log, git, repo, live, me, repl, up, sync, wire, jobs, promo, history, faults, calm>>

\* The checkpoint head is known by now: send the frame, or nothing.
ShipFrame(n, k) ==
  LET s == ship[n][k] IN
  /\ s.st = "building"
  /\ IF UpToDate(s.records, CheckpointHead(n), s.cursor)
     THEN ship' = [ship EXCEPT ![n][k] = NoShip] /\ chan' = chan
     ELSE /\ ship' = [ship EXCEPT ![n][k] = [NoShip EXCEPT !.st = "wait", !.retry = s.retry]]
          /\ chan' = [chan EXCEPT ![n] =
                        Append(@, BuildReplFrame(s.epoch, s.records, CheckpointHead(n), s.cursor, k))]
  /\ UNCHANGED <<cp, log, git, repo, live, me, repl, up, sync, acks, jobs, promo, history, faults, calm>>

\* Mutant: a resync request does not make the owner start over.
AckArrivesKeeps(n) ==
  /\ acks[n] # << >>
  /\ LET a == Head(acks[n]) IN
     /\ acks' = [acks EXCEPT ![n] = Tail(@)]
     /\ me' = IF a.slot # Nobody /\ a.status = "applied"
              THEN [me EXCEPT ![n].cursor = a.cursor] ELSE me
     /\ ship' = IF a.slot = Nobody THEN ship ELSE [ship EXCEPT ![n][a.slot] = NoShip]
  /\ UNCHANGED <<cp, log, git, repo, live, repl, up, sync, chan, jobs, promo, history, faults, calm>>

\* applyAck, and one immediate full re-send when the standby asked for it.
AckArrives(n) ==
  /\ acks[n] # << >>
  /\ LET a == Head(acks[n])
         resend == a.status \in {"resync", "needFull"}
         cursor == CASE a.status = "applied" -> a.cursor
                     [] resend -> NoCursor
                     [] OTHER -> me[n].cursor
     IN /\ acks' = [acks EXCEPT ![n] = Tail(@)]
        /\ IF a.slot = Nobody
           THEN UNCHANGED <<me, ship>>
           ELSE /\ me' = [me EXCEPT ![n].cursor = cursor]
                /\ ship' = [ship EXCEPT ![n][a.slot] =
                              IF resend /\ ship[n][a.slot].retry
                              THEN Reading(n, NoCursor, FALSE) ELSE NoShip]
  /\ UNCHANGED <<cp, log, git, repo, live, repl, up, sync, chan, jobs, promo, history, faults, calm>>

-----------------------------------------------------------------------------
(* The standby: StandbyApplier and the promotion. *)

Ack(f, status, s) == [slot |-> f.slot, status |-> status, cursor |-> CursorOf(s)]

\* Persist the records, commit the view and acknowledge: one turn of the loop.
CommitFrame(m, f, next, s, fetched, forgotten) ==
  LET done == Applied(s, f, next, fetched) IN
  /\ log' = [log EXCEPT ![m] = next]
  /\ repl' = IF forgotten THEN repl ELSE [repl EXCEPT ![m] = done]
  /\ acks' = [acks EXCEPT ![OwnerOf(m)] = Append(@, Ack(f, "applied", done))]

\* session.replica.frame: fence and gap are judged on arrival; a frame with a
\* bundle then waits for git.
Receive(m) ==
  LET n == OwnerOf(m) s == repl[m] IN
  /\ chan[n] # << >>
  /\ LET f == Head(chan[n]) IN
     /\ chan' = [chan EXCEPT ![n] = Tail(@)]
     /\ IF FencedOut(s, f) \/ ~Fits(s, f)
        THEN /\ acks' = [acks EXCEPT ![n] = Append(@, Ack(f, IF FencedOut(s, f) THEN "stale" ELSE "resync", s))]
             /\ UNCHANGED <<log, repl, jobs>>
        ELSE IF f.bundle /\ f.ckpt # s.ckpt
        THEN /\ jobs' = [jobs EXCEPT ![m] = @ \union
                           {[frame |-> f, next |-> NextRecords(s, f), st |-> "git", forgotten |-> FALSE]}]
             /\ UNCHANGED <<log, repl, acks>>
        ELSE CommitFrame(m, f, NextRecords(s, f), s, FALSE, FALSE) /\ jobs' = jobs
  /\ UNCHANGED <<cp, git, repo, live, ownerVars, up, sync, promo, history, faults, calm>>

\* Mutant: the transcript is persisted although the bundle did not apply.
FetchCheckpointAnyway(m, j) ==
  /\ j \in jobs[m] /\ j.st = "git"
  /\ repo' = IF IsPrefix(j.frame.since, repo[m]) /\ IsPrefix(repo[m], j.frame.ckpt)
             THEN [repo EXCEPT ![m] = j.frame.ckpt] ELSE repo
  /\ jobs' = [jobs EXCEPT ![m] = (@ \ {j}) \union {[j EXCEPT !.st = "persist"]}]
  /\ UNCHANGED <<cp, log, git, live, ownerVars, repl, up, sync, wire, promo, history, faults, calm>>

\* applyBundle: a thin bundle whose base is missing asks for a full one; a ref
\* that cannot be fast-forwarded makes the fetch fail, and the frame with it.
FetchCheckpoint(m, j) ==
  LET f == j.frame
      based == IsPrefix(f.since, repo[m])
      forward == IsPrefix(repo[m], f.ckpt)
  IN /\ j \in jobs[m] /\ j.st = "git"
     /\ repo' = IF based /\ forward THEN [repo EXCEPT ![m] = f.ckpt] ELSE repo
     /\ jobs' = [jobs EXCEPT ![m] = (@ \ {j}) \union
                   IF based /\ forward THEN {[j EXCEPT !.st = "persist"]} ELSE {}]
     /\ acks' = IF based THEN acks
                ELSE [acks EXCEPT ![OwnerOf(m)] = Append(@, Ack(f, "needFull", repl[m]))]
     /\ UNCHANGED <<cp, log, git, live, ownerVars, repl, up, sync, chan, promo, history, faults, calm>>

PersistFrame(m, j) ==
  /\ j \in jobs[m] /\ j.st = "persist"
  /\ jobs' = [jobs EXCEPT ![m] = @ \ {j}]
  /\ CommitFrame(m, j.frame, j.next, IF j.forgotten THEN InitialReplState ELSE repl[m], TRUE, j.forgotten)
  /\ UNCHANGED <<cp, git, repo, live, ownerVars, up, sync, chan, promo, history, faults, calm>>

\* promote(): read the epoch ...
PromoteReads(m) ==
  /\ promo[m].st = "none" /\ cp.owner # NoNode /\ cp.epoch < MaxEpoch
  /\ promo' = [promo EXCEPT ![m] = [st |-> "read", expected |-> cp.epoch]]
  /\ UNCHANGED <<cp, log, git, repo, live, ownerVars, repl, up, sync, wire, jobs, history, faults, calm>>

\* Mutant: the epoch is bumped without being compared.
PromoteSetsBlindly(m) ==
  /\ promo[m].st = "read"
  /\ cp' = [owner |-> m, epoch |-> promo[m].expected + 1]
  /\ won' = won \union {[epoch |-> promo[m].expected + 1, node |-> m]}
  /\ promo' = [promo EXCEPT ![m].st = "won"]
  /\ calm' = NoNode
  /\ UNCHANGED <<log, git, repo, live, ownerVars, repl, up, sync, wire, jobs, turns, faults>>

\* ... compare and set it ...
PromoteSets(m) ==
  /\ promo[m].st = "read"
  /\ IF cp.epoch = promo[m].expected
     THEN /\ cp' = [owner |-> m, epoch |-> cp.epoch + 1]
          /\ won' = won \union {[epoch |-> cp.epoch + 1, node |-> m]}
          /\ promo' = [promo EXCEPT ![m].st = "won"]
     ELSE promo' = [promo EXCEPT ![m] = NoPromo] /\ UNCHANGED <<cp, won>>
  /\ calm' = NoNode
  /\ UNCHANGED <<log, git, repo, live, ownerVars, repl, up, sync, wire, jobs, turns, faults>>

\* ... materialize the replica, forget the standby state and run the session.
Promoted(m) ==
  /\ promo[m].st = "won"
  /\ promo' = [promo EXCEPT ![m] = NoPromo]
  /\ repl' = [repl EXCEPT ![m] = InitialReplState]
  /\ jobs' = [jobs EXCEPT ![m] = {[j EXCEPT !.forgotten = TRUE] : j \in @}]
  /\ live' = live \union {m}
  /\ UNCHANGED <<cp, log, git, repo, ownerVars, up, sync, wire, history, faults, calm>>

-----------------------------------------------------------------------------
(* Faults and settings. *)

Fault == faults < MaxFaults /\ faults' = faults + 1 /\ calm' = NoNode

\* The calls of n that hold the connection fail with it.
Unshipped(n) == [k \in Slot |-> IF ship[n][k].st \in {"building", "wait"} THEN NoShip ELSE ship[n][k]]
Orphan(n) == {[j EXCEPT !.frame.slot = Nobody] : j \in jobs[StandbyOf(n)]}

\* The connection from n to its standby drops; frames being applied go on.
Drop(n) ==
  /\ Fault /\ n \in up
  /\ up' = up \ {n}
  /\ ship' = [ship EXCEPT ![n] = Unshipped(n)]
  /\ chan' = [chan EXCEPT ![n] = << >>]
  /\ acks' = [acks EXCEPT ![n] = << >>]
  /\ jobs' = [jobs EXCEPT ![StandbyOf(n)] = Orphan(n)]
  /\ UNCHANGED <<cp, log, git, repo, live, me, repl, sync, promo, history>>

Reconnect(n) ==
  /\ n \notin up
  /\ up' = up \union {n}
  /\ UNCHANGED <<cp, log, git, repo, live, ownerVars, repl, sync, wire, jobs, promo, history, faults, calm>>

\* The sibling request times out: its answer will find nobody waiting.
RequestTimesOut(n, k) ==
  /\ Fault /\ ship[n][k].st = "wait"
  /\ ship' = [ship EXCEPT ![n][k] = NoShip]
  /\ LET Detach(x) == IF x.slot = k THEN [x EXCEPT !.slot = Nobody] ELSE x
     IN /\ chan' = [chan EXCEPT ![n] = [i \in DOMAIN @ |-> Detach(@[i])]]
        /\ acks' = [acks EXCEPT ![n] = [i \in DOMAIN @ |-> Detach(@[i])]]
        /\ jobs' = [jobs EXCEPT ![StandbyOf(n)] = {[j EXCEPT !.frame = Detach(@)] : j \in @}]
  /\ UNCHANGED <<cp, log, git, repo, live, me, repl, up, sync, promo, history>>

\* A daemon restarts: what it held in memory is gone, its files are not.
Restart(n) ==
  /\ Fault
  /\ me' = [me EXCEPT ![n] = Undeclared]
  /\ ship' = [ship EXCEPT ![n] = [k \in Slot |-> NoShip], ![OwnerOf(n)] = Unshipped(OwnerOf(n))]
  /\ repl' = [repl EXCEPT ![n] = InitialReplState]
  /\ promo' = [promo EXCEPT ![n] = NoPromo]
  /\ up' = {}
  /\ jobs' = [jobs EXCEPT ![n] = {}, ![StandbyOf(n)] = Orphan(n)]
  /\ chan' = [m \in Node |-> << >>] /\ acks' = [m \in Node |-> << >>]
  /\ UNCHANGED <<cp, log, git, repo, live, sync, history>>

\* The promotion's request or its answer is lost, the latter with the epoch already won.
PromotionFails(m) ==
  /\ Fault /\ promo[m].st # "none"
  /\ promo' = [promo EXCEPT ![m] = NoPromo]
  /\ UNCHANGED <<cp, log, git, repo, live, ownerVars, repl, up, sync, wire, jobs, history>>

EnableWorktreeSync ==
  /\ ~sync /\ TRUE \in WorktreeSync
  /\ sync' = TRUE
  /\ UNCHANGED <<cp, log, git, repo, live, ownerVars, repl, up, wire, jobs, promo, history, faults, calm>>

-----------------------------------------------------------------------------
Init ==
  /\ cp = [owner |-> NoNode, epoch |-> 0]
  /\ log = [n \in Node |-> << >>] /\ git = << >>
  /\ repo = [n \in Node |-> << >>]
  /\ live = {First} /\ up = {} /\ sync \in WorktreeSync
  /\ me = [n \in Node |-> Undeclared]
  /\ repl = [n \in Node |-> InitialReplState]
  /\ ship = [n \in Node |-> [k \in Slot |-> NoShip]]
  /\ chan = [n \in Node |-> << >>] /\ acks = [n \in Node |-> << >>]
  /\ jobs = [n \in Node |-> {}]
  /\ promo = [n \in Node |-> NoPromo]
  /\ turns = {} /\ won = {}
  /\ faults = 0 /\ calm = NoNode

ShipStep(n, k) ==
  \/ Declare(n, k) \/ SkipRound(n, k) \/ ShipBegins(n, k) \/ ShipFrame(n, k)
  \/ RequestTimesOut(n, k)

NodeStep(n) ==
  \/ TurnEnds(n) \/ AckArrives(n) \/ Receive(n)
  \/ PromoteReads(n) \/ PromoteSets(n) \/ Promoted(n) \/ PromotionFails(n)
  \/ Drop(n) \/ Reconnect(n) \/ Restart(n)

Apply(m) == \E j \in jobs[m] : FetchCheckpoint(m, j) \/ PersistFrame(m, j)

Next ==
  \/ \E n \in Node, k \in Slot : ShipStep(n, k)
  \/ \E n \in Node : NodeStep(n)
  \/ \E m \in Node : Apply(m)
  \/ EnableWorktreeSync

Spec == Init /\ [][Next]_vars

\* Every started call, frame and acknowledgement is taken up, and the supervised
\* connection keeps redialling.  Turns, promotions and faults need not happen.
Fairness ==
  \A n \in Node :
    /\ \A k \in Slot : /\ WF_vars(Declare(n, k))
                       /\ WF_vars(ShipBegins(n, k)) /\ WF_vars(ShipFrame(n, k))
    /\ WF_vars(AckArrives(n)) /\ WF_vars(Receive(n)) /\ WF_vars(Apply(n))
    /\ WF_vars(Reconnect(n))

FairSpec == Spec /\ Fairness

-----------------------------------------------------------------------------
(* Properties. *)

Turn == Seq(1 .. MaxTurns)
Cursor == [count : Nat, hash : Turn, ckpt : Turn]

\* The shape of every variable.
TypeOK ==
  /\ cp.owner \in Node \union {NoNode} /\ cp.epoch \in 0 .. MaxEpoch
  /\ \A n \in Node :
       /\ log[n] \in Turn /\ repo[n] \in Turn
       /\ me[n].declared \in BOOLEAN /\ me[n].epoch \in 0 .. MaxEpoch /\ me[n].cursor \in Cursor
       /\ repl[n].epoch \in 0 .. MaxEpoch /\ CursorOf(repl[n]) \in Cursor
       /\ \A k \in Slot : ship[n][k].st \in {"idle", "declare", "connect", "building", "wait"}
       /\ \A j \in jobs[n] : j.st \in {"git", "persist"} /\ j.next \in Turn
       /\ promo[n].st \in {"none", "read", "won"}
  /\ git \in Turn /\ live \subseteq Node /\ up \subseteq Node /\ sync \in BOOLEAN /\ calm \in Node \union {NoNode}
  /\ faults \in 0 .. MaxFaults

\* As long as only the machine the session was started on has run turns (from
\* the start to the first turn after a promotion), every machine's transcript is
\* the session's, up to the end of some turn: frames lost, reordered, answered
\* late or applied concurrently never leave a gap in it or splice two versions
\* together.
Unbranched == \A t \in turns : t.by = First
ReplicaIsSnapshot == Unbranched => \A n \in Node : IsPrefix(log[n], log[First])

\* Both or neither: once a frame that carried a checkpoint bundle is committed,
\* the replica repository holds the checkpoint the view names.
CheckpointBeforeTranscript ==
  \A n \in Node : repl[n].tree => IsPrefix(repl[n].ckpt, repo[n])

\* An epoch is won at most once, however promotions race.
OnePromotionPerEpoch == \A w, v \in won : w.epoch = v.epoch => w.node = v.node

\* The machine that last won a promotion, or else the one that started.
Rightful(n) == IF won = {} THEN n = First
               ELSE \E w \in won : w.node = n /\ \A v \in won : v.epoch <= w.epoch

\* One undisturbed turn heals the replica: whatever was lost or refused before,
\* when the next turn of the rightful owner is shipped with nothing in its way
\* the standby ends up with the owner's transcript.
UndisturbedTurnHeals ==
  \A n \in Node : calm = n /\ Rightful(n) ~> calm # n \/ log[StandbyOf(n)] = log[n]

\* Fencing: the turns the current owner completed in its epoch stay in its
\* transcript; a demoted owner cannot write over them.
OwnerKeepsTurns ==
  \A t \in turns : t.by = cp.owner /\ t.epoch = cp.epoch => t.id \in Range(log[t.by])
=============================================================================
