------------------------------ MODULE WorkQueue ------------------------------
(***************************************************************************)
(* The hosted work queue: rows of work_items in the control plane, and the *)
(* task pollers of the machines ("nodes") that claim a row, keep its lease *)
(* alive, run the agent and report the outcome through a durable outbox.   *)
(*                                                                         *)
(* One HTTP call is a request in net, an answer left in the caller's slot, *)
(* and the caller's continuation.  A call may fail at any point; the       *)
(* request the caller gave up on stays in net as "late" and may still be   *)
(* served.  Every server operation is one step because the store performs  *)
(* it under the row lock and re-checks there what the handler read before. *)
(*                                                                         *)
(* Time is abstracted to the set lapsed of claim tokens whose lease has    *)
(* run out: a lease is only ever extended while it is live, so a token     *)
(* that lapsed never holds a live lease again.                             *)
(***************************************************************************)
EXTENDS Naturals, FiniteSets

CONSTANTS Node,           \* enrolled machines
          Item,           \* rows of work_items
          NoNode,         \* claimed_by_node_id IS NULL
          MaxAttempts,    \* max_attempts of every row
          MaxConcurrent,  \* the node's cap on runs in flight
          Decisions,      \* the admission decisions the deployment may take
          MaxLate,        \* bound on the requests outstanding with nobody waiting
          Timely          \* clocks agree and the lease timer fires on time

ASSUME NodeAssumption == NoNode \notin Node
ASSUME AttemptAssumption == MaxAttempts \in Nat \ {0}
ASSUME ConcurrencyAssumption == MaxConcurrent \in Nat \ {0}
ASSUME LateAssumption == MaxLate \in Nat
ASSUME SwitchAssumption == Decisions \subseteq BOOLEAN /\ Timely \in BOOLEAN

VARIABLES
  row,      \* row[i]: the work_items row
  lapsed,   \* claim tokens whose lease has run out
  nextTok,  \* the claim tokens in use are 1 .. nextTok - 1
  net,      \* requests on their way to the control plane
  run,      \* run[n][i]: the poller's InFlightRun and where its coroutine waits
  outbox,   \* outbox[n]: the durable WorkResultOutbox
  flush,    \* flush[n]: flushResults in progress
  produced, \* history: the results ever put in an outbox
  execs     \* history: how often the agent was started for an attempt number

serverVars == <<row, lapsed, nextTok>>
vars == <<row, lapsed, nextTok, net, run, outbox, flush, produced, execs>>

Status == {"pending", "claimed", "running", "needs_attention",
           "succeeded", "failed", "cancelled"}
Terminal == {"succeeded", "failed", "cancelled"}
Settled == Terminal \union {"needs_attention"}
Outcome == {"complete", "fail", "needs-attention"}
Attempt == 1 .. MaxAttempts
NoTok == 0

Result == [item : Item, tok : Nat, action : Outcome]
NoResult == [item |-> "none", tok |-> NoTok, action |-> "none"]

\* by: who waits for the answer ("late": nobody any more).
Request == [node : Node, item : Item, tok : Nat, att : Nat,
            kind : {"claim", "running", "attempt"} \union Outcome,
            by : {"run", "flush", "late"}]

Idle == [pc |-> "idle", tok |-> NoTok, att |-> 0, active |-> FALSE,
         reply |-> "none", hb |-> "none", action |-> "none"]
NoFlush == [cur |-> NoResult, reply |-> "none", todo |-> {}]

-----------------------------------------------------------------------------
(* The control plane's row operations. *)

Expired(r) == r.lease /\ r.tok \in lapsed
LeaseLive(r) == r.lease /\ r.tok \notin lapsed
\* Mutant: an expired lease never makes a row claimable again.
ReclaimableNever(r) == FALSE
\* Mutant: a claimed row may be claimed again whatever its lease.
ReclaimableAnyway(r) == r.st \in {"claimed", "running"}
Reclaimable(r) == r.st \in {"claimed", "running"} /\ Expired(r)
Listed(r) == r.st = "pending" \/ Reclaimable(r)
\* Mutant: ownership by machine only, without the claim generation.
OwnsWorkClaimByNode(r, n, t) == r.owner = n
OwnsWorkClaim(r, n, t) == r.owner = n /\ r.tok = t

\* Mutant: a late completion un-cancels the run.
FromCancelled == [running |-> {"claimed"},
                  needs_attention |-> {"pending", "claimed", "running"},
                  succeeded |-> {"running", "needs_attention", "cancelled"},
                  failed |-> {"claimed", "running", "needs_attention"}]

\* The lifecycle's from-table: the statuses each transition may leave.
From == [running |-> {"claimed"},
         needs_attention |-> {"pending", "claimed", "running"},
         succeeded |-> {"running", "needs_attention"},
         failed |-> {"claimed", "running", "needs_attention"}]

MayTransition(r, n, t, status) ==
  /\ OwnsWorkClaim(r, n, t)
  /\ status = "running" => ~Expired(r)
  /\ r.st \in From[status]

Transition(r, n, t, status) ==
  IF MayTransition(r, n, t, status)
  THEN [r EXCEPT !.st = status, !.lease = (status = "running")]
  ELSE r

StatusOf(action) == CASE action = "complete" -> "succeeded"
                      [] action = "fail" -> "failed"
                      [] action = "needs-attention" -> "needs_attention"

\* completeWorkItem walks a claimed row through running first.
BeforeOutcome(r, n, t, action) ==
  IF action = "complete" /\ r.st = "claimed" THEN Transition(r, n, t, "running") ELSE r

AfterOutcome(r, n, t, action) ==
  Transition(BeforeOutcome(r, n, t, action), n, t, StatusOf(action))

\* A repeated report of the outcome the row already has is acknowledged.
OutcomeAcknowledged(r, n, t, action) ==
  /\ OwnsWorkClaim(r, n, t)
  /\ \/ r.st = StatusOf(action)
     \/ MayTransition(BeforeOutcome(r, n, t, action), n, t, StatusOf(action))

\* Mutant: a reclaim does not count as an attempt.
ClaimAttemptUncounted(r) == r.att
ClaimAttempt(r) == IF Expired(r) THEN r.att + 1 ELSE r.att

\* Mutant: a reclaim beyond the attempt limit is granted.
ClaimRowUnlimited(r, n, t) ==
  [r EXCEPT !.st = "claimed", !.owner = n, !.tok = t, !.lease = TRUE, !.att = ClaimAttempt(r)]

ClaimRow(r, n, t) ==
  IF ClaimAttempt(r) > MaxAttempts
  THEN [r EXCEPT !.st = "needs_attention", !.lease = FALSE]
  ELSE [r EXCEPT !.st = "claimed", !.owner = n, !.tok = t, !.lease = TRUE,
                 !.att = ClaimAttempt(r)]

ParkForPolicy(r) ==
  IF r.st = "pending"
  THEN [r EXCEPT !.st = "needs_attention", !.lease = FALSE, !.denied = TRUE]
  ELSE r

MayAdvance(r, n, t, expected) ==
  /\ OwnsWorkClaim(r, n, t)
  /\ r.st \in {"claimed", "running"} /\ LeaseLive(r)
  /\ \/ r.att = expected + 1
     \/ r.att = expected /\ expected < MaxAttempts

-----------------------------------------------------------------------------
(* Calls. *)

Req(n, i, kind, tok, att, by) ==
  [node |-> n, item |-> i, kind |-> kind, tok |-> tok, att |-> att, by |-> by]

OwnedBy(n, i, by) == {q \in net : q.node = n /\ q.item = i /\ q.by = by}

\* The caller stops waiting: requests still unserved are lost, or become late
\* and may yet be served.  MaxLate bounds how many of those there are at once.
Abandon(qs) ==
  LET late == {q \in net : q.by = "late"} \union {[q EXCEPT !.by = "late"] : q \in qs}
  IN {net \ qs} \union IF Cardinality(late) <= MaxLate THEN {(net \ qs) \union late} ELSE {}

Answered(q, ans) ==
  /\ net' = net \ {q}
  /\ run' = IF q.by = "run"
            THEN [run EXCEPT ![q.node][q.item].reply = ans] ELSE run
  /\ flush' = IF q.by = "flush"
              THEN [flush EXCEPT ![q.node].reply = ans] ELSE flush

Yes(b) == IF b THEN "ok" ELSE "no"

-----------------------------------------------------------------------------
(* Control plane endpoints. *)

\* POST /node/work/:id/claim, admitted by the deployment policy.
ServeClaim(q) ==
  /\ q \in net /\ q.kind = "claim" /\ TRUE \in Decisions
  /\ LET r == row[q.item]
         granted == Listed(r) /\ ClaimAttempt(r) <= MaxAttempts
     IN /\ row' = [row EXCEPT ![q.item] = IF Listed(r) THEN ClaimRow(r, q.node, nextTok) ELSE r]
        /\ nextTok' = IF granted THEN nextTok + 1 ELSE nextTok
        /\ net' = net \ {q}
        /\ run' = IF q.by = "run"
                  THEN [run EXCEPT ![q.node][q.item] =
                          [run[q.node][q.item] EXCEPT
                             !.reply = Yes(granted),
                             !.tok = IF granted THEN nextTok ELSE @,
                             !.att = IF granted THEN ClaimAttempt(r) ELSE @]]
                  ELSE run
  /\ UNCHANGED <<lapsed, outbox, flush, produced, execs>>

\* The same endpoint when the deployment denies admission: the row is parked.
DenyClaim(q) ==
  /\ q \in net /\ q.kind = "claim" /\ FALSE \in Decisions
  /\ row' = [row EXCEPT ![q.item] = ParkForPolicy(@)]
  /\ Answered(q, "no")
  /\ UNCHANGED <<lapsed, nextTok, outbox, produced, execs>>

\* POST /node/work/:id/running.
ServeRunning(q) ==
  /\ q \in net /\ q.kind = "running"
  /\ row' = [row EXCEPT ![q.item] = Transition(@, q.node, q.tok, "running")]
  /\ Answered(q, Yes(MayTransition(row[q.item], q.node, q.tok, "running")))
  /\ UNCHANGED <<lapsed, nextTok, outbox, produced, execs>>

\* POST /node/work/:id/attempt: reserve the next attempt number, idempotently.
ServeAttempt(q) ==
  /\ q \in net /\ q.kind = "attempt"
  /\ LET may == MayAdvance(row[q.item], q.node, q.tok, q.att)
     IN /\ row' = [row EXCEPT ![q.item].att = IF may THEN q.att + 1 ELSE @]
        /\ Answered(q, Yes(may))
  /\ UNCHANGED <<lapsed, nextTok, outbox, produced, execs>>

\* POST /node/work/:id/{complete,fail,needs-attention}.
ServeOutcome(q) ==
  /\ q \in net /\ q.kind \in Outcome
  /\ row' = [row EXCEPT ![q.item] = AfterOutcome(@, q.node, q.tok, q.kind)]
  /\ Answered(q, Yes(OutcomeAcknowledged(row[q.item], q.node, q.tok, q.kind)))
  /\ UNCHANGED <<lapsed, nextTok, outbox, produced, execs>>

\* POST /node/work/:id/heartbeat.  Renewal keeps a live lease live; "bare" is a
\* heartbeat sent before the run knew its claim token.
HeartbeatOk(n, i) ==
  /\ run[n][i].hb = "wait"
  /\ OwnsWorkClaim(row[i], n, run[n][i].tok)
  /\ row[i].st \in {"claimed", "running"} /\ LeaseLive(row[i])

ServeHeartbeat(n, i) ==
  /\ run[n][i].hb \in {"wait", "bare"}
  /\ run' = [run EXCEPT ![n][i].hb = Yes(HeartbeatOk(n, i))]
  /\ UNCHANGED <<serverVars, net, outbox, flush, produced, execs>>

\* The lease of claim token t runs out.  When timers are Timely, the holder's
\* own deadline, set before the expiry, has stopped its run by then.
LeaseLapses(t) ==
  /\ t \in 1 .. nextTok - 1 /\ t \notin lapsed
  /\ \E i \in Item : row[i].tok = t /\ row[i].lease
  /\ Timely => \A n \in Node, i \in Item :
                 ~(run[n][i].tok = t /\ run[n][i].active /\ run[n][i].pc # "claiming")
  /\ lapsed' = lapsed \union {t}
  /\ UNCHANGED <<row, nextTok, net, run, outbox, flush, produced, execs>>

\* POST /account/automation-runs/:id/cancel.
Cancel(i) ==
  /\ row[i].st \notin Terminal
  /\ row' = [row EXCEPT ![i].st = "cancelled", ![i].lease = FALSE]
  /\ UNCHANGED <<lapsed, nextTok, net, run, outbox, flush, produced, execs>>

\* POST /account/automation-runs/:id/retry.  Whether a succeeded run is eligible
\* depends on its evidence, which is abstracted: it may be.
Retry(i) ==
  /\ \/ row[i].st \in {"failed", "succeeded"}
     \/ row[i].st = "needs_attention" /\ row[i].denied
  /\ row[i].att < MaxAttempts
  /\ row' = [row EXCEPT ![i] = [row[i] EXCEPT !.st = "pending", !.att = @ + 1,
                                              !.owner = NoNode, !.lease = FALSE]]
  /\ UNCHANGED <<lapsed, nextTok, net, run, outbox, flush, produced, execs>>

-----------------------------------------------------------------------------
(* The poller of node n. *)

InFlight(n) == {i \in Item : run[n][i].pc # "idle"}
Undelivered(n) == {r.item : r \in outbox[n]}
Put(box, r) == {x \in box : x.item # r.item} \union {r}
Remove(box, i) == {x \in box : x.item # i}

\* flushResults moves on to the next saved result no active run owns.
FlushNext(n, todo, net1) ==
  LET free == {r \in todo : r.item \notin InFlight(n)}
  IN \/ \E r \in free :
          /\ flush' = [flush EXCEPT ![n] = [cur |-> r, reply |-> "wait", todo |-> todo \ {r}]]
          /\ net' = net1 \union {Req(n, r.item, r.action, r.tok, 0, "flush")}
     \/ /\ free = {}
        /\ flush' = [flush EXCEPT ![n] = NoFlush]
        /\ net' = net1

FlushBegin(n) ==
  /\ flush[n] = NoFlush /\ outbox[n] # {}
  /\ FlushNext(n, outbox[n], net)
  /\ UNCHANGED <<serverVars, run, outbox, produced, execs>>

\* Mutant: a result the control plane refused is kept and sent for ever.
FlushReplyKeepsRefused(n) ==
  /\ flush[n].reply \in {"ok", "no"}
  /\ outbox' = IF flush[n].reply = "ok"
               THEN [outbox EXCEPT ![n] = Remove(@, flush[n].cur.item)] ELSE outbox
  /\ FlushNext(n, flush[n].todo, net)
  /\ UNCHANGED <<serverVars, run, produced, execs>>

FlushReply(n) ==
  /\ flush[n].reply \in {"ok", "no"}
  /\ outbox' = [outbox EXCEPT ![n] = Remove(@, flush[n].cur.item)]
  /\ FlushNext(n, flush[n].todo, net)
  /\ UNCHANGED <<serverVars, run, produced, execs>>

\* Mutant: an uncertain delivery drops the saved result.
FlushFailsDrops(n) ==
  /\ flush[n] # NoFlush
  /\ outbox' = [outbox EXCEPT ![n] = Remove(@, flush[n].cur.item)]
  /\ \E net1 \in Abandon(OwnedBy(n, flush[n].cur.item, "flush")) :
       FlushNext(n, flush[n].todo, net1)
  /\ UNCHANGED <<serverVars, run, produced, execs>>

FlushFails(n) ==
  /\ flush[n] # NoFlush
  /\ \E net1 \in Abandon(OwnedBy(n, flush[n].cur.item, "flush")) :
       FlushNext(n, flush[n].todo, net1)
  /\ UNCHANGED <<serverVars, run, outbox, produced, execs>>

\* tick: fetch the queue and reserve a run for each listed item that is neither
\* in flight nor undelivered, up to the cap.  Ticks overlap (timer and pokes), so
\* one may take work while the flush another one awaits is still going on; a
\* listing that is stale by the time of the claim is the claim request's delay.
Eligible(n) == {i \in Item : Listed(row[i])} \ (InFlight(n) \union Undelivered(n))

Tick(n) ==
  /\ Eligible(n) # {} /\ Cardinality(InFlight(n)) < MaxConcurrent
  /\ \E S \in SUBSET Eligible(n) :
       /\ S # {} /\ Cardinality(InFlight(n)) + Cardinality(S) <= MaxConcurrent
       /\ S # Eligible(n) => Cardinality(InFlight(n)) + Cardinality(S) = MaxConcurrent
       /\ run' = [run EXCEPT ![n] = [i \in Item |->
                    IF i \in S
                    THEN [Idle EXCEPT !.pc = "claiming", !.active = TRUE, !.reply = "wait"]
                    ELSE @[i]]]
       /\ net' = net \union {Req(n, i, "claim", NoTok, 0, "run") : i \in S}
  /\ UNCHANGED <<serverVars, outbox, flush, produced, execs>>

\* setLeaseDeadline: an expiry already past stops the run at once.  With clocks
\* that disagree the node may judge either way.
DeadlineVerdict(t) == IF Timely THEN {t \notin lapsed} ELSE BOOLEAN

\* runOne after claimWork: only an active run goes on to POST running.
ClaimReply(n, i) ==
  LET r == run[n][i] IN
  /\ r.pc = "claiming" /\ r.reply \in {"ok", "no"}
  /\ IF r.reply = "ok" /\ r.active
     THEN /\ \E a \in DeadlineVerdict(r.tok) :
               run' = [run EXCEPT ![n][i] = [r EXCEPT !.pc = "starting", !.reply = "wait", !.active = a]]
          /\ net' = net \union {Req(n, i, "running", r.tok, 0, "run")}
     ELSE /\ run' = [run EXCEPT ![n][i] = Idle]
          /\ net' = net
  /\ UNCHANGED <<serverVars, outbox, flush, produced, execs>>

\* runOne after POST running: the agent starts only if it was accepted.
StartReply(n, i) ==
  LET r == run[n][i] IN
  /\ r.pc = "starting" /\ r.reply \in {"ok", "no"}
  /\ IF r.reply = "ok" /\ r.active
     THEN /\ run' = [run EXCEPT ![n][i] = [r EXCEPT !.pc = "agent", !.reply = "none"]]
          /\ execs' = [execs EXCEPT ![i][r.att] = @ + 1]
     ELSE /\ run' = [run EXCEPT ![n][i] = Idle]
          /\ execs' = execs
  /\ UNCHANGED <<serverVars, net, outbox, flush, produced>>

\* The claim or the running call throws: the run is unwound.
StartFails(n, i) ==
  /\ run[n][i].pc \in {"claiming", "starting"}
  /\ run' = [run EXCEPT ![n][i] = Idle]
  /\ net' \in Abandon(OwnedBy(n, i, "run"))
  /\ UNCHANGED <<serverVars, outbox, flush, produced, execs>>

\* Mutant: the result is sent without being persisted first.
FinishUnsaved(n, i, action) ==
  LET r == run[n][i]
  IN /\ run' = [run EXCEPT ![n][i] = [r EXCEPT !.pc = "finishing", !.reply = "wait",
                                               !.hb = IF r.pc = "checking" THEN "none" ELSE @,
                                               !.action = action]]
     /\ net' = net \union {Req(n, i, action, r.tok, 0, "run")}
     /\ UNCHANGED <<outbox, produced>>

\* finishWork: persist the result, then send it.
Finish(n, i, action) ==
  LET r == run[n][i]
      result == [item |-> i, tok |-> r.tok, action |-> action]
  IN /\ outbox' = [outbox EXCEPT ![n] = Put(@, result)]
     /\ produced' = produced \union {result}
     /\ run' = [run EXCEPT ![n][i] = [r EXCEPT !.pc = "finishing", !.reply = "wait",
                                               !.hb = IF r.pc = "checking" THEN "none" ELSE @,
                                               !.action = action]]
     /\ net' = net \union {Req(n, i, action, r.tok, 0, "run")}

Unwind(n, i) ==
  /\ run' = [run EXCEPT ![n][i] = Idle]
  /\ UNCHANGED <<net, outbox, produced>>

\* runItem returns or throws, and the run policy decides.  An agent refused by
\* admission may have a policy_denial recorded as evidence first.
AgentEnds(n, i) ==
  LET r == run[n][i] IN
  /\ r.pc = "agent" /\ r.active
  /\ \/ \E action \in Outcome : Finish(n, i, action) /\ UNCHANGED row
     \/ /\ Finish(n, i, "needs-attention")
        /\ OwnsWorkClaim(row[i], n, r.tok)
        /\ row[i].st \in {"claimed", "running", "needs_attention"} /\ ~Expired(row[i])
        /\ row' = [row EXCEPT ![i].denied = TRUE]
  /\ UNCHANGED <<lapsed, nextTok, flush, execs>>

\* The policy decides to retry or reroute: reserve the attempt first.  At the
\* limit the run parks instead (the needs-attention outcome of AgentEnds).
AgentRetries(n, i) ==
  LET r == run[n][i] IN
  /\ r.pc = "agent" /\ r.active /\ r.att < MaxAttempts
  /\ run' = [run EXCEPT ![n][i] = [r EXCEPT !.pc = "reserving", !.reply = "wait"]]
  /\ net' = net \union {Req(n, i, "attempt", r.tok, r.att, "run")}
  /\ UNCHANGED <<serverVars, outbox, flush, produced, execs>>

\* A cancelled or lost run reports nothing when its agent unwinds.
AgentAborted(n, i) ==
  /\ run[n][i].pc = "agent" /\ ~run[n][i].active
  /\ Unwind(n, i)
  /\ UNCHANGED <<serverVars, flush, execs>>

\* reserveAttempt answered: run again under the new number, or find out whether
\* the claim is still ours before parking.
ReserveReply(n, i) ==
  LET r == run[n][i] IN
  /\ r.pc = "reserving" /\ r.reply \in {"ok", "no"}
  /\ IF ~r.active
     THEN /\ run' = [run EXCEPT ![n][i] = Idle]
          /\ execs' = execs
     ELSE IF r.reply = "ok"
     THEN /\ run' = [run EXCEPT ![n][i] = [r EXCEPT !.pc = "agent", !.reply = "none", !.att = @ + 1]]
          /\ execs' = [execs EXCEPT ![i][r.att + 1] = @ + 1]
     ELSE /\ run' = [run EXCEPT ![n][i] = [r EXCEPT !.pc = "checking", !.reply = "none",
                                                    !.hb = IF @ = "none" THEN "wait" ELSE @]]
          /\ execs' = execs
  /\ UNCHANGED <<serverVars, net, outbox, flush, produced>>

\* Mutant: an uncertain reservation is taken for a refused one, and the agent goes on.
ReserveFailsGoesOn(n, i) ==
  LET r == run[n][i] IN
  /\ r.pc = "reserving"
  /\ run' = [run EXCEPT ![n][i] = IF r.active THEN [r EXCEPT !.pc = "agent", !.reply = "none"] ELSE Idle]
  /\ net' \in Abandon(OwnedBy(n, i, "run"))
  /\ UNCHANGED <<serverVars, outbox, flush, produced, execs>>

ReserveFails(n, i) ==
  LET r == run[n][i] IN
  /\ r.pc = "reserving"
  /\ \E net1 \in Abandon(OwnedBy(n, i, "run")) :
       IF r.active
       THEN /\ run' = [run EXCEPT ![n][i].reply = "wait"]
            /\ net' = net1 \union {Req(n, i, "attempt", r.tok, r.att, "run")}
       ELSE /\ run' = [run EXCEPT ![n][i] = Idle]
            /\ net' = net1
  /\ UNCHANGED <<serverVars, outbox, flush, produced, execs>>

\* finishWork answered: the result leaves the outbox, accepted or fenced out.
FinishReply(n, i) ==
  /\ run[n][i].pc = "finishing" /\ run[n][i].reply \in {"ok", "no"}
  /\ outbox' = [outbox EXCEPT ![n] = Remove(@, i)]
  /\ run' = [run EXCEPT ![n][i] = Idle]
  /\ UNCHANGED <<serverVars, net, flush, produced, execs>>

\* Delivery uncertain: send again while the run is active, else leave the
\* result to a later flush.
FinishFails(n, i) ==
  LET r == run[n][i] IN
  /\ r.pc = "finishing"
  /\ \E net1 \in Abandon(OwnedBy(n, i, "run")) :
       IF r.active
       THEN /\ run' = [run EXCEPT ![n][i].reply = "wait"]
            /\ net' = net1 \union {Req(n, i, r.action, r.tok, 0, "run")}
       ELSE /\ run' = [run EXCEPT ![n][i] = Idle]
            /\ net' = net1
  /\ UNCHANGED <<serverVars, outbox, flush, produced, execs>>

\* checkLease, from the heartbeat timer or from poke(id): one at a time.  A
\* poke can arrive while the claim itself is in flight, before its token.
CheckLease(n, i) ==
  LET r == run[n][i] IN
  /\ r.pc # "idle" /\ r.active /\ r.hb = "none"
  /\ run' = [run EXCEPT ![n][i].hb = IF r.pc = "claiming" THEN "bare" ELSE "wait"]
  /\ UNCHANGED <<serverVars, net, outbox, flush, produced, execs>>

\* The heartbeat's answer moves the deadline or stops the run; a run waiting
\* for it in reserveAttempt goes on to park, or unwinds.
Checked(n, i, active) ==
  LET r == run[n][i] IN
  IF r.pc # "checking"
  THEN /\ run' = [run EXCEPT ![n][i].hb = "none", ![n][i].active = active]
       /\ UNCHANGED <<net, outbox, produced>>
  ELSE IF active THEN Finish(n, i, "needs-attention")
  ELSE Unwind(n, i)

HeartbeatReply(n, i) ==
  LET r == run[n][i] IN
  /\ r.hb \in {"ok", "no"}
  /\ \E a \in IF r.hb = "ok" THEN DeadlineVerdict(r.tok) ELSE {FALSE} :
       Checked(n, i, r.active /\ a)
  /\ UNCHANGED <<serverVars, flush, execs>>

HeartbeatFails(n, i) ==
  /\ run[n][i].hb # "none"
  /\ Checked(n, i, run[n][i].active)
  /\ UNCHANGED <<serverVars, flush, execs>>

\* The local lease deadline fires: the run is lost and its agent aborted.
DeadlineFires(n, i) ==
  /\ run[n][i].pc \notin {"idle", "claiming"} /\ run[n][i].active
  /\ run' = [run EXCEPT ![n][i].active = FALSE]
  /\ UNCHANGED <<serverVars, net, outbox, flush, produced, execs>>

\* The daemon dies and restarts: only the outbox file survives.
Crash(n) ==
  /\ \/ InFlight(n) # {} \/ flush[n] # NoFlush
  /\ run' = [run EXCEPT ![n] = [i \in Item |-> Idle]]
  /\ flush' = [flush EXCEPT ![n] = NoFlush]
  /\ net' \in Abandon({q \in net : q.node = n})
  /\ UNCHANGED <<serverVars, outbox, produced, execs>>

-----------------------------------------------------------------------------
Init ==
  /\ row = [i \in Item |-> [st |-> "pending", owner |-> NoNode, tok |-> NoTok,
                            lease |-> FALSE, att |-> 1, denied |-> FALSE]]
  /\ lapsed = {} /\ nextTok = 1 /\ net = {}
  /\ run = [n \in Node |-> [i \in Item |-> Idle]]
  /\ outbox = [n \in Node |-> {}]
  /\ flush = [n \in Node |-> NoFlush]
  /\ produced = {}
  /\ execs = [i \in Item |-> [a \in Attempt |-> 0]]

Serve(q) == ServeClaim(q) \/ DenyClaim(q) \/ ServeRunning(q) \/ ServeAttempt(q) \/ ServeOutcome(q)

Poller(n) ==
  \/ FlushBegin(n) \/ FlushReply(n) \/ FlushFails(n) \/ Tick(n)
  \/ Crash(n)

RunStep(n, i) ==
  \/ ClaimReply(n, i) \/ StartReply(n, i) \/ StartFails(n, i)
  \/ AgentEnds(n, i) \/ AgentRetries(n, i) \/ AgentAborted(n, i)
  \/ ReserveReply(n, i) \/ ReserveFails(n, i) \/ FinishReply(n, i) \/ FinishFails(n, i)
  \/ CheckLease(n, i) \/ ServeHeartbeat(n, i) \/ HeartbeatReply(n, i) \/ HeartbeatFails(n, i)
  \/ DeadlineFires(n, i)

Next ==
  \/ \E q \in net : Serve(q)
  \/ \E t \in 1 .. nextTok - 1 : LeaseLapses(t)
  \/ \E i \in Item : Cancel(i) \/ Retry(i)
  \/ \E n \in Node : Poller(n)
  \/ \E n \in Node, i \in Item : RunStep(n, i)

Spec == Init /\ [][Next]_vars

\* A call that is tried again for ever is eventually served and answered; the
\* poll timer keeps ticking, agents end, and leases nobody renews run out.
ServeAwaited(n, i) == \E q \in net : q.node = n /\ q.item = i /\ q.by # "late" /\ Serve(q)
AgentStep(n, i) == AgentEnds(n, i) \/ AgentRetries(n, i) \/ AgentAborted(n, i)
Fairness ==
  /\ \A n \in Node : WF_vars(FlushBegin(n)) /\ SF_vars(FlushReply(n)) /\ SF_vars(Tick(n))
  /\ \A n \in Node, i \in Item :
       /\ SF_vars(ServeAwaited(n, i))
       /\ SF_vars(ClaimReply(n, i)) /\ SF_vars(StartReply(n, i))
       /\ WF_vars(AgentStep(n, i))
       /\ SF_vars(ReserveReply(n, i)) /\ SF_vars(FinishReply(n, i))
       /\ WF_vars(ServeHeartbeat(n, i)) /\ WF_vars(HeartbeatReply(n, i))
  /\ \A t \in 1 .. MaxAttempts * Cardinality(Item) : WF_vars(LeaseLapses(t))

FairSpec == Spec /\ Fairness

-----------------------------------------------------------------------------
(* Properties. *)

Reply == {"none", "wait", "ok", "no"}
RunRecord == [pc : {"idle", "claiming", "starting", "agent", "reserving", "checking", "finishing"},
              tok : Nat, att : Nat, active : BOOLEAN, reply : Reply,
              hb : Reply \union {"bare"}, action : Outcome \union {"none"}]

RowRecord == [st : Status, owner : Node \union {NoNode}, tok : Nat,
              lease : BOOLEAN, att : Attempt, denied : BOOLEAN]
FlushRecord == [cur : Result \union {NoResult}, reply : Reply, todo : SUBSET Result]

\* The shape of every variable; in particular the attempt number of a row never
\* passes max_attempts.
TypeOK ==
  /\ row \in [Item -> RowRecord]
  /\ lapsed \subseteq Nat /\ nextTok \in Nat \ {0}
  /\ net \subseteq Request
  /\ run \in [Node -> [Item -> RunRecord]]
  /\ outbox \in [Node -> SUBSET Result]
  /\ flush \in [Node -> FlushRecord]
  /\ produced \subseteq Result
  /\ execs \in [Item -> [Attempt -> Nat]]

\* A run succeeded (or failed) only because the agent of the claim generation
\* the row still carries produced that result: a report of an older claim, a
\* late request or a replayed outbox entry never decides another generation.
OutcomeFenced ==
  \A i \in Item : \A a \in {"complete", "fail"} :
    row[i].st = StatusOf(a) => [item |-> i, tok |-> row[i].tok, action |-> a] \in produced

\* Every outcome on its way to the control plane, or still to be sent by a run
\* or a flush, was persisted first.
SavedBeforeSent ==
  /\ \A n \in Node : outbox[n] \subseteq produced /\ flush[n].todo \subseteq produced
  /\ \A n \in Node, i \in Item : run[n][i].pc = "finishing" =>
       [item |-> i, tok |-> run[n][i].tok, action |-> run[n][i].action] \in produced
  /\ \A q \in net : q.kind \in Outcome =>
       [item |-> q.item, tok |-> q.tok, action |-> q.kind] \in produced

\* Once a node has persisted a result, the control plane's row leaves the
\* claimed/running states of that claim, or the owner still has the result in
\* its outbox: the agent is never run again for want of the acknowledgement.
ResultKept ==
  \A r \in produced :
    row[r.item].tok = r.tok /\ row[r.item].st \in {"claimed", "running"}
      => r \in outbox[row[r.item].owner]

\* The agent is started at most once per attempt number, whatever is lost,
\* redelivered, crashed or reclaimed, so at most MaxAttempts times per run.
AttemptExecutedOnce == \A i \in Item : \A a \in Attempt : execs[i][a] <= 1

\* A machine whose lease has not run out runs the agent alone, and the row carries
\* its claim: only a machine that went on past its lease can run next to another.
SoleExecution ==
  \A n \in Node, i \in Item :
    run[n][i].active /\ run[n][i].pc \in {"agent", "reserving", "checking"} /\ run[n][i].tok \notin lapsed
      => row[i].owner = n /\ row[i].tok = run[n][i].tok

\* A terminal outcome is final: a cancelled run stays cancelled, and a
\* succeeded or failed one only ever changes by the operator's retry, as a new
\* attempt without an owner.
OutcomeFinal ==
  [][\A i \in Item : row[i].st \in Terminal /\ row'[i].st # row[i].st =>
       /\ row[i].st # "cancelled" /\ row'[i].st = "pending"
       /\ row'[i].att = row[i].att + 1 /\ row'[i].owner = NoNode]_vars

\* The mapping to the life of a run: what the row says, and what was executed.
Statuses == [i \in Item |-> row[i].st]
Numbered == [i \in Item |-> row[i].att]
Claimed == [i \in Item |-> row[i].tok]
Life == INSTANCE AutomationRuns
          WITH status <- Statuses, attempt <- Numbered, claim <- Claimed, ran <- execs, results <- produced

\* The queue implements the documented life of a run.  In particular a run is only
\* succeeded or failed in an attempt that was executed, by the one outcome of the claim
\* it carries, and a repeated or late reservation moves no attempt on twice.
Lifecycle == Life!Spec

\* Every run eventually reaches an outcome or is parked for review, through
\* crashes, lost claims and lost acknowledgements.
RunSettles == \A i \in Item : row[i].st \notin Settled ~> row[i].st \in Settled

\* A saved result is eventually delivered, or refused for good, and leaves the
\* outbox, even when the daemon crashes between saving and delivering it.
OutboxDrains == \A n \in Node : outbox[n] # {} ~> outbox[n] = {}

\* A heartbeat is refused only when the claim is really gone: the machine whose
\* live claim the row carries is never told to stop.
RefusalIsReal ==
  \A n \in Node, i \in Item :
    run[n][i].active /\ run[n][i].hb = "no" /\ run[n][i].tok # NoTok
      => ~(OwnsWorkClaim(row[i], n, run[n][i].tok) /\ row[i].st \in {"claimed", "running"}
           /\ LeaseLive(row[i]))
=============================================================================
