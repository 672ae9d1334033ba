--------------------------- MODULE WorkQueueProofs ---------------------------
(* Theorems about the hosted work queue, for every value of its constants. *)
EXTENDS WorkQueue, TLAPS

-----------------------------------------------------------------------------
(* What the row operations return. *)

\* A lifecycle transition of a row yields a row.
LEMMA TransitionType ==
  ASSUME NEW r \in RowRecord, NEW n, NEW t,
         NEW status \in {"running", "needs_attention", "succeeded", "failed"}
  PROVE  Transition(r, n, t, status) \in RowRecord
  BY DEF Transition, RowRecord, Status

\* Reporting an outcome, through running when the row is only claimed, yields a row.
LEMMA AfterOutcomeType ==
  ASSUME NEW r \in RowRecord, NEW n, NEW t, NEW action \in Outcome
  PROVE  AfterOutcome(r, n, t, action) \in RowRecord
<1>1. BeforeOutcome(r, n, t, action) \in RowRecord
  BY TransitionType DEF BeforeOutcome
<1>2. StatusOf(action) \in {"needs_attention", "succeeded", "failed"}
  BY DEF StatusOf, Outcome
<1> QED BY <1>1, <1>2, TransitionType DEF AfterOutcome

\* A claim yields a row whose attempt number is within the limit.
LEMMA ClaimRowType ==
  ASSUME NEW r \in RowRecord, NEW n \in Node, NEW t \in Nat
  PROVE  ClaimRow(r, n, t) \in RowRecord
<1>1. r.att \in Nat /\ r.att >= 1 /\ MaxAttempts \in Nat
  BY AttemptAssumption DEF RowRecord, Attempt
<1>2. ClaimAttempt(r) \in Nat /\ ClaimAttempt(r) >= 1
  BY <1>1 DEF ClaimAttempt
<1>3. CASE ClaimAttempt(r) > MaxAttempts
  BY <1>3 DEF ClaimRow, RowRecord, Status
<1>4. CASE ~(ClaimAttempt(r) > MaxAttempts)
  <2>1. ClaimAttempt(r) \in Attempt
    BY <1>1, <1>2, <1>4 DEF Attempt
  <2> QED BY <2>1, <1>4 DEF ClaimRow, RowRecord, Status
<1> QED BY <1>3, <1>4

\* A step of the lease machinery moves nothing of a run but its heartbeat and
\* whether it is active.
LEMMA LeaseMoves ==
  ASSUME TypeOK, NEW n \in Node, NEW i \in Item,
         CheckLease(n, i) \/ ServeHeartbeat(n, i) \/ DeadlineFires(n, i)
  PROVE  \E h \in Reply \union {"bare"}, a \in BOOLEAN :
           run' = [run EXCEPT ![n][i] = [run[n][i] EXCEPT !.hb = h, !.active = a]]
<1> DEFINE r == run[n][i]
<1>1. r \in RunRecord /\ r.active \in BOOLEAN /\ r.hb \in Reply \union {"bare"}
  <2>1. r \in RunRecord
    BY DEF TypeOK
  <2> QED BY <2>1 DEF RunRecord
<1>2. \A h : [r EXCEPT !.hb = h] = [r EXCEPT !.hb = h, !.active = r.active]
  BY <1>1 DEF RunRecord
<1>3. \A a : [r EXCEPT !.active = a] = [r EXCEPT !.hb = r.hb, !.active = a]
  BY <1>1 DEF RunRecord
<1>4. \A h : [run EXCEPT ![n][i].hb = h] = [run EXCEPT ![n][i] = [r EXCEPT !.hb = h]]
  BY DEF TypeOK
<1>5. ASSUME NEW h \in Reply \union {"bare"}, run' = [run EXCEPT ![n][i].hb = h]
      PROVE  run' = [run EXCEPT ![n][i] = [r EXCEPT !.hb = h, !.active = r.active]]
  BY <1>2, <1>4, <1>5, Zenon
<1>6. CASE CheckLease(n, i)
  <2>1. PICK h \in {"bare", "wait"} : run' = [run EXCEPT ![n][i].hb = h]
    BY <1>6 DEF CheckLease
  <2>2. h \in Reply \union {"bare"}
    BY <2>1 DEF Reply
  <2> QED BY <1>1, <1>5, <2>1, <2>2, Zenon
<1>7. CASE ServeHeartbeat(n, i)
  <2>1. PICK h \in {"ok", "no"} : run' = [run EXCEPT ![n][i].hb = h]
    BY <1>7 DEF ServeHeartbeat, Yes
  <2>2. h \in Reply \union {"bare"}
    BY <2>1 DEF Reply
  <2> QED BY <1>1, <1>5, <2>1, <2>2, Zenon
<1>8. CASE DeadlineFires(n, i)
  <2>1. run' = [run EXCEPT ![n][i] = [r EXCEPT !.active = FALSE]]
    BY <1>8 DEF DeadlineFires, TypeOK
  <2> QED BY <1>1, <1>3, <2>1
<1> QED BY <1>6, <1>7, <1>8

\* What is left of net, whether the abandoned requests were lost or are late.
LEMMA AbandonType ==
  ASSUME net \subseteq Request, NEW qs \in SUBSET net, NEW net1 \in Abandon(qs)
  PROVE  net1 \subseteq Request
<1>1. \A q \in qs : [q EXCEPT !.by = "late"] \in Request
  BY DEF Request
<1> QED BY <1>1 DEF Abandon

-----------------------------------------------------------------------------
(* Type correctness. *)

RunType == [Node -> [Item -> RunRecord]]

\* An idle run is a run.
LEMMA IdleType == Idle \in RunRecord
  BY DEF Idle, RunRecord, Reply, Outcome, NoTok

\* Replacing one run keeps the table of runs a table of runs.
LEMMA RunUpdate ==
  ASSUME run \in RunType, NEW n \in Node, NEW i \in Item, NEW x \in RunRecord
  PROVE  [run EXCEPT ![n][i] = x] \in RunType
  BY DEF RunType

\* An answer leaves the callers' slots well typed.
LEMMA AnsweredType ==
  ASSUME TypeOK, NEW q \in net, NEW ans \in {"ok", "no"}, Answered(q, ans)
  PROVE  /\ net' \subseteq Request
         /\ run' \in RunType
         /\ flush' \in [Node -> FlushRecord]
<1>1. q \in Request /\ q.node \in Node /\ q.item \in Item
  BY DEF TypeOK, Request
<1>2. net' \subseteq Request
  BY DEF Answered, TypeOK
<1>3. run' \in RunType
  <2>1. run[q.node][q.item] \in RunRecord
    BY <1>1 DEF TypeOK
  <2>2. [run[q.node][q.item] EXCEPT !.reply = ans] \in RunRecord
    BY <2>1 DEF RunRecord, Reply
  <2>3. [run EXCEPT ![q.node][q.item].reply = ans] \in RunType
    BY <1>1, <2>1, <2>2 DEF TypeOK, RunType
  <2>4. run \in RunType
    BY DEF TypeOK, RunType
  <2> QED BY <2>3, <2>4 DEF Answered
<1>4. flush' \in [Node -> FlushRecord]
  <2>1. [flush[q.node] EXCEPT !.reply = ans] \in FlushRecord
    BY <1>1 DEF TypeOK, FlushRecord, Reply
  <2>2. [flush EXCEPT ![q.node].reply = ans] \in [Node -> FlushRecord]
    BY <1>1, <2>1 DEF TypeOK
  <2> QED BY <2>2 DEF Answered, TypeOK
<1> QED BY <1>2, <1>3, <1>4

\* A flush moves on to a result of its own to-do list.
LEMMA FlushNextType ==
  ASSUME TypeOK, NEW n \in Node, NEW todo \in SUBSET Result,
         NEW net1 \in SUBSET Request, FlushNext(n, todo, net1)
  PROVE  net' \subseteq Request /\ flush' \in [Node -> FlushRecord]
<1>1. ASSUME NEW r \in todo
      PROVE  /\ Req(n, r.item, r.action, r.tok, 0, "flush") \in Request
             /\ [cur |-> r, reply |-> "wait", todo |-> todo \ {r}] \in FlushRecord
  BY <1>1 DEF Req, Request, Result, Outcome, FlushRecord, Reply
<1>2. NoFlush \in FlushRecord
  BY DEF NoFlush, FlushRecord, Reply
<1> QED BY <1>1, <1>2 DEF FlushNext, TypeOK

\* The store's steps keep the types.
LEMMA ServeType ==
  ASSUME TypeOK, NEW q \in net, Serve(q)
  PROVE  TypeOK'
<1>1. /\ q.node \in Node /\ q.item \in Item /\ row[q.item] \in RowRecord
      /\ run[q.node][q.item] \in RunRecord /\ nextTok \in Nat
  BY DEF TypeOK, Request
<1>2. CASE ServeClaim(q)
  <2>1. ClaimRow(row[q.item], q.node, nextTok) \in RowRecord
    BY <1>1, ClaimRowType
  <2>2. row' \in [Item -> RowRecord]
    BY <1>2, <2>1 DEF ServeClaim, TypeOK
  <2>3. ClaimAttempt(row[q.item]) \in Nat
    BY <1>1, AttemptAssumption DEF ClaimAttempt, RowRecord, Attempt
  <2>4. /\ [run[q.node][q.item] EXCEPT !.reply = "ok", !.tok = nextTok,
                                         !.att = ClaimAttempt(row[q.item])] \in RunRecord
        /\ [run[q.node][q.item] EXCEPT !.reply = "no", !.tok = @, !.att = @] \in RunRecord
    BY <1>1, <2>3 DEF RunRecord, Reply
  <2> DEFINE granted == Listed(row[q.item]) /\ ClaimAttempt(row[q.item]) <= MaxAttempts
             x == [run[q.node][q.item] EXCEPT
                     !.reply = Yes(granted),
                     !.tok = IF granted THEN nextTok ELSE @,
                     !.att = IF granted THEN ClaimAttempt(row[q.item]) ELSE @]
  <2>a. run' = run \/ run' = [run EXCEPT ![q.node][q.item] = x]
    BY <1>2 DEF ServeClaim
  <2>b. x \in RunRecord
    <3>1. CASE granted
      BY <3>1, <2>4 DEF Yes
    <3>2. CASE ~granted
      BY <3>2, <2>4 DEF Yes
    <3> QED BY <3>1, <3>2
  <2> HIDE DEF x
  <2>5. run' \in RunType
    <3>1. run \in RunType
      BY DEF TypeOK, RunType
    <3>2. [run EXCEPT ![q.node][q.item] = x] \in RunType
      BY <1>1, <2>b, <3>1, RunUpdate
    <3> QED BY <2>a, <3>1, <3>2
  <2>6. net' \subseteq Request /\ nextTok' \in Nat \ {0}
    BY <1>2 DEF ServeClaim, TypeOK
  <2> QED BY <1>2, <2>2, <2>5, <2>6 DEF ServeClaim, TypeOK, RunType
<1>3. CASE DenyClaim(q)
  <2>1. ParkForPolicy(row[q.item]) \in RowRecord
    BY <1>1 DEF ParkForPolicy, RowRecord, Status
  <2>2. row' \in [Item -> RowRecord]
    BY <1>3, <2>1 DEF DenyClaim, TypeOK
  <2> QED BY <1>3, <2>2, AnsweredType DEF DenyClaim, TypeOK, RunType
<1>4. CASE ServeRunning(q)
  <2>1. row' \in [Item -> RowRecord]
    BY <1>1, <1>4, TransitionType DEF ServeRunning, TypeOK
  <2> QED BY <1>4, <2>1, AnsweredType DEF ServeRunning, Yes, TypeOK, RunType
<1>5. CASE ServeAttempt(q)
  <2>1. MayAdvance(row[q.item], q.node, q.tok, q.att) => q.att + 1 \in Attempt
    <3>1. row[q.item].att \in Attempt /\ q.att \in Nat
      BY <1>1 DEF RowRecord, TypeOK, Request
    <3>2. MayAdvance(row[q.item], q.node, q.tok, q.att) =>
            row[q.item].att = q.att + 1 \/ q.att < MaxAttempts
      BY DEF MayAdvance
    <3>3. MaxAttempts \in Nat
      BY AttemptAssumption
    <3>4. q.att < MaxAttempts => q.att + 1 \in Attempt
      BY <3>1, <3>3 DEF Attempt
    <3> QED BY <3>1, <3>2, <3>4
  <2>2. row' \in [Item -> RowRecord]
    BY <1>1, <1>5, <2>1 DEF ServeAttempt, TypeOK, RowRecord
  <2> QED BY <1>5, <2>2, AnsweredType DEF ServeAttempt, Yes, TypeOK, RunType
<1>6. CASE ServeOutcome(q)
  <2>1. row' \in [Item -> RowRecord]
    BY <1>1, <1>6, AfterOutcomeType DEF ServeOutcome, TypeOK
  <2> QED BY <1>6, <2>1, AnsweredType DEF ServeOutcome, Yes, TypeOK, RunType
<1> QED BY <1>2, <1>3, <1>4, <1>5, <1>6 DEF Serve

\* The operator's steps keep the types.
LEMMA OperatorType ==
  ASSUME TypeOK, NEW i \in Item, Cancel(i) \/ Retry(i)
  PROVE  TypeOK'
<1>1. row[i] \in RowRecord
  BY DEF TypeOK
<1>2. CASE Cancel(i)
  <2>1. row' \in [Item -> RowRecord]
    BY <1>1, <1>2 DEF Cancel, TypeOK, RowRecord, Status
  <2> QED BY <1>2, <2>1 DEF Cancel, TypeOK
<1>3. CASE Retry(i)
  <2>a. row[i].att < MaxAttempts
    BY <1>3 DEF Retry
  <2>b. row[i].att \in 1 .. MaxAttempts /\ MaxAttempts \in Nat
    BY <1>1, AttemptAssumption DEF RowRecord, Attempt
  <2>1. row[i].att + 1 \in Attempt
    BY <2>a, <2>b DEF Attempt
  <2>2. [row[i] EXCEPT !.st = "pending", !.att = @ + 1, !.owner = NoNode, !.lease = FALSE]
          \in RowRecord
    BY <1>1, <2>1 DEF RowRecord, Status
  <2>3. row' \in [Item -> RowRecord]
    BY <1>3, <2>2 DEF Retry, TypeOK
  <2> QED BY <1>3, <2>3 DEF Retry, TypeOK
<1> QED BY <1>2, <1>3

\* The poller's steps keep the types.
LEMMA PollerType ==
  ASSUME TypeOK, NEW n \in Node, Poller(n)
  PROVE  TypeOK'
<1>1. flush[n] \in FlushRecord /\ flush[n].todo \in SUBSET Result /\ outbox[n] \in SUBSET Result
  BY DEF TypeOK, FlushRecord
<1>2. CASE FlushBegin(n)
  BY <1>1, <1>2, FlushNextType DEF FlushBegin, serverVars, TypeOK
<1>3. CASE FlushReply(n)
  <2>1. outbox' \in [Node -> SUBSET Result]
    BY <1>1, <1>3 DEF FlushReply, Remove, TypeOK
  <2>2. net' \subseteq Request /\ flush' \in [Node -> FlushRecord]
    BY <1>1, <1>3, FlushNextType DEF FlushReply, TypeOK
  <2> QED BY <1>3, <2>1, <2>2 DEF FlushReply, serverVars, TypeOK
<1>4. CASE FlushFails(n)
  <2>1. PICK net1 \in Abandon(OwnedBy(n, flush[n].cur.item, "flush")) :
          FlushNext(n, flush[n].todo, net1)
    BY <1>4 DEF FlushFails
  <2>2. net1 \in SUBSET Request
    BY AbandonType DEF OwnedBy, TypeOK
  <2>3. net' \subseteq Request /\ flush' \in [Node -> FlushRecord]
    BY <1>1, <2>1, <2>2, FlushNextType
  <2> QED BY <1>4, <2>3 DEF FlushFails, serverVars, TypeOK
<1>5. CASE Tick(n)
  <2>1. PICK S \in SUBSET Eligible(n) :
          /\ run' = [run EXCEPT ![n] = [i \in Item |->
                       IF i \in S
                       THEN [Idle EXCEPT !.pc = "claiming", !.active = TRUE, !.reply = "wait"]
                       ELSE @[i]]]
          /\ net' = net \union {Req(n, i, "claim", NoTok, 0, "run") : i \in S}
    BY <1>5 DEF Tick
  <2>2. [Idle EXCEPT !.pc = "claiming", !.active = TRUE, !.reply = "wait"] \in RunRecord
    BY IdleType DEF RunRecord, Reply
  <2>3. run' \in RunType
    BY <2>1, <2>2 DEF TypeOK, RunType
  <2>4. \A i \in Item : Req(n, i, "claim", NoTok, 0, "run") \in Request
    BY DEF Req, Request, NoTok
  <2>5. net' \subseteq Request
    BY <2>1, <2>4 DEF Eligible, TypeOK
  <2> QED BY <1>5, <2>3, <2>5 DEF Tick, serverVars, TypeOK, RunType
<1>6. CASE Crash(n)
  <2>1. run' \in RunType
    BY <1>6, IdleType DEF Crash, TypeOK, RunType
  <2>2. flush' \in [Node -> FlushRecord]
    BY <1>6 DEF Crash, TypeOK, NoFlush, FlushRecord, Reply
  <2>3. net' \subseteq Request
    BY <1>6, AbandonType DEF Crash, TypeOK
  <2> QED BY <1>6, <2>1, <2>2, <2>3 DEF Crash, serverVars, TypeOK, RunType
<1> QED BY <1>2, <1>3, <1>4, <1>5, <1>6 DEF Poller

\* finishWork leaves the outbox, the run and the request well typed.
LEMMA FinishType ==
  ASSUME TypeOK, NEW n \in Node, NEW i \in Item, NEW action \in Outcome, Finish(n, i, action)
  PROVE  /\ outbox' \in [Node -> SUBSET Result] /\ produced' \subseteq Result
         /\ run' \in RunType /\ net' \subseteq Request
<1> DEFINE r == run[n][i]
           result == [item |-> i, tok |-> r.tok, action |-> action]
           x == [r EXCEPT !.pc = "finishing", !.reply = "wait",
                          !.hb = IF r.pc = "checking" THEN "none" ELSE @, !.action = action]
<1>1. r \in RunRecord /\ r.tok \in Nat
  BY DEF TypeOK, RunRecord
<1>2. result \in Result
  BY <1>1 DEF Result
<1>3. x \in RunRecord
  BY <1>1 DEF RunRecord, Reply
<1>4. Req(n, i, action, r.tok, 0, "run") \in Request
  BY <1>1 DEF Req, Request
<1>5. /\ outbox' = [outbox EXCEPT ![n] = Put(@, result)] /\ produced' = produced \union {result}
      /\ run' = [run EXCEPT ![n][i] = x] /\ net' = net \union {Req(n, i, action, r.tok, 0, "run")}
  BY DEF Finish
<1>6. run \in RunType
  BY DEF TypeOK, RunType
<1> HIDE DEF r, result, x
<1>7. run' \in RunType
  BY <1>3, <1>5, <1>6, RunUpdate
<1>8. Put(outbox[n], result) \subseteq Result
  BY <1>2 DEF Put, TypeOK
<1>9. outbox' \in [Node -> SUBSET Result]
  BY <1>5, <1>8 DEF TypeOK
<1> QED BY <1>2, <1>4, <1>5, <1>7, <1>9 DEF TypeOK

\* The steps of a run keep the types; that a run sending its outcome has saved it
\* is what makes the resent request an outcome.
LEMMA RunStepType ==
  ASSUME TypeOK, SavedBeforeSent, NEW n \in Node, NEW i \in Item, RunStep(n, i)
  PROVE  TypeOK'
<1> DEFINE r == run[n][i]
<1>1. r \in RunRecord /\ run \in RunType /\ row[i] \in RowRecord
  BY DEF TypeOK, RunType
<1>2. \A x \in RunRecord : [run EXCEPT ![n][i] = x] \in RunType
  BY <1>1, RunUpdate
<1>3. \A net1 \in Abandon(OwnedBy(n, i, "run")) : net1 \subseteq Request
  BY AbandonType DEF OwnedBy, TypeOK
<1>4. [run EXCEPT ![n][i] = Idle] \in RunType
  BY <1>2, IdleType
<1>5. \A kind \in {"running", "attempt"} \union Outcome, a \in Nat :
        Req(n, i, kind, r.tok, a, "run") \in Request
  BY <1>1 DEF Req, Request, RunRecord
<1>6. execs \in [Item -> [Attempt -> Nat]]
  BY DEF TypeOK
<1>10. CASE ClaimReply(n, i)
  <2>1. \A a \in BOOLEAN : [r EXCEPT !.pc = "starting", !.reply = "wait", !.active = a] \in RunRecord
    BY <1>1 DEF RunRecord, Reply
  <2>2. \A t : DeadlineVerdict(t) \subseteq BOOLEAN
    BY DEF DeadlineVerdict
  <2>3. run' \in RunType
    BY <1>2, <1>4, <1>10, <2>1, <2>2 DEF ClaimReply
  <2>a. Req(n, i, "running", r.tok, 0, "run") \in Request
    BY <1>5
  <2>4. net' \subseteq Request
    BY <1>10, <2>a DEF ClaimReply, TypeOK
  <2> QED BY <1>10, <2>3, <2>4 DEF ClaimReply, serverVars, TypeOK, RunType
<1>11. CASE StartReply(n, i)
  <2>1. [r EXCEPT !.pc = "agent", !.reply = "none"] \in RunRecord
    BY <1>1 DEF RunRecord, Reply
  <2>2. run' \in RunType
    BY <1>2, <1>4, <1>11, <2>1 DEF StartReply
  <2>3. execs' \in [Item -> [Attempt -> Nat]]
    BY <1>6, <1>11 DEF StartReply
  <2> QED BY <1>11, <2>2, <2>3 DEF StartReply, serverVars, TypeOK, RunType
<1>12. CASE StartFails(n, i)
  BY <1>3, <1>4, <1>12 DEF StartFails, serverVars, TypeOK, RunType
<1>13. CASE AgentEnds(n, i)
  <2>1. \E action \in Outcome : Finish(n, i, action)
    BY <1>13 DEF AgentEnds, Outcome
  <2>2. row' \in [Item -> RowRecord]
    <3>1. [row EXCEPT ![i].denied = TRUE] \in [Item -> RowRecord]
      BY <1>1 DEF TypeOK, RowRecord
    <3>2. row' = row \/ row' = [row EXCEPT ![i].denied = TRUE]
      BY <1>13 DEF AgentEnds
    <3> QED BY <3>1, <3>2 DEF TypeOK
  <2> QED BY <1>13, <2>1, <2>2, FinishType DEF AgentEnds, TypeOK, RunType
<1>14. CASE AgentRetries(n, i)
  <2>1. [r EXCEPT !.pc = "reserving", !.reply = "wait"] \in RunRecord /\ r.att \in Nat
    BY <1>1 DEF RunRecord, Reply
  <2> QED BY <1>2, <1>5, <1>14, <2>1 DEF AgentRetries, serverVars, TypeOK, RunType
<1>15. CASE AgentAborted(n, i)
  BY <1>4, <1>15 DEF AgentAborted, Unwind, serverVars, TypeOK, RunType
<1>16. CASE ReserveReply(n, i)
  <2>c. r.att \in Nat /\ r.att + 1 \in Nat
    BY <1>1 DEF RunRecord
  <2>a. [r EXCEPT !.pc = "agent", !.reply = "none", !.att = @ + 1] \in RunRecord
    <3> HIDE DEF r
    <3> QED BY <1>1, <2>c DEF RunRecord, Reply
  <2>b. [r EXCEPT !.pc = "checking", !.reply = "none",
                  !.hb = IF @ = "none" THEN "wait" ELSE @] \in RunRecord
    <3> HIDE DEF r
    <3>1. CASE r.hb = "none"
      BY <1>1, <3>1 DEF RunRecord, Reply
    <3>2. CASE r.hb # "none"
      BY <1>1, <3>2 DEF RunRecord, Reply
    <3> QED BY <3>1, <3>2
  <2>2. run' \in RunType
    BY <1>2, <1>4, <1>16, <2>a, <2>b DEF ReserveReply
  <2>3. execs' \in [Item -> [Attempt -> Nat]]
    BY <1>6, <1>16 DEF ReserveReply
  <2> QED BY <1>16, <2>2, <2>3 DEF ReserveReply, serverVars, TypeOK, RunType
<1>17. CASE ReserveFails(n, i) \/ FinishFails(n, i)
  <2>1. [r EXCEPT !.reply = "wait"] \in RunRecord /\ r.att \in Nat
    BY <1>1 DEF RunRecord, Reply
  <2>2. [run EXCEPT ![n][i].reply = "wait"] \in RunType
    BY <1>1, <2>1 DEF RunType
  <2>3. r.pc = "finishing" => r.action \in Outcome
    BY DEF SavedBeforeSent, TypeOK, Result
  <2>4. CASE ReserveFails(n, i)
    <3>1. Req(n, i, "attempt", r.tok, r.att, "run") \in Request
      BY <1>5, <2>1
    <3>2. net' \subseteq Request
      BY <1>3, <2>4, <3>1 DEF ReserveFails
    <3>3. run' \in RunType
      BY <1>4, <2>2, <2>4 DEF ReserveFails
    <3> QED BY <2>4, <3>2, <3>3 DEF ReserveFails, serverVars, TypeOK, RunType
  <2>5. CASE FinishFails(n, i)
    <3>1. Req(n, i, r.action, r.tok, 0, "run") \in Request
      BY <1>5, <2>3, <2>5 DEF FinishFails
    <3>2. net' \subseteq Request
      BY <1>3, <2>5, <3>1 DEF FinishFails
    <3>3. run' \in RunType
      BY <1>4, <2>2, <2>5 DEF FinishFails
    <3> QED BY <2>5, <3>2, <3>3 DEF FinishFails, serverVars, TypeOK, RunType
  <2> QED BY <1>17, <2>4, <2>5
<1>18. CASE FinishReply(n, i)
  <2>1. outbox' \in [Node -> SUBSET Result]
    BY <1>18 DEF FinishReply, Remove, TypeOK
  <2> QED BY <1>4, <1>18, <2>1 DEF FinishReply, serverVars, TypeOK, RunType
<1>19. CASE CheckLease(n, i)
  <2>1. \A h \in {"bare", "wait"} : [run EXCEPT ![n][i].hb = h] \in RunType
    BY <1>1 DEF RunType, RunRecord, Reply
  <2> QED BY <1>19, <2>1 DEF CheckLease, serverVars, TypeOK, RunType
<1>20. CASE ServeHeartbeat(n, i)
  <2>1. \A h \in {"ok", "no"} : [run EXCEPT ![n][i].hb = h] \in RunType
    BY <1>1 DEF RunType, RunRecord, Reply
  <2> QED BY <1>20, <2>1 DEF ServeHeartbeat, Yes, serverVars, TypeOK, RunType
<1>21. ASSUME NEW a \in BOOLEAN, Checked(n, i, a), UNCHANGED <<serverVars, flush, execs>>
       PROVE  TypeOK'
  <2>1. CASE r.pc # "checking"
    <3>1. [run EXCEPT ![n][i].hb = "none", ![n][i].active = a] \in RunType
      BY <1>1 DEF RunType, RunRecord, Reply
    <3> QED BY <1>21, <2>1, <3>1 DEF Checked, serverVars, TypeOK, RunType
  <2>2. CASE r.pc = "checking" /\ a
    BY <1>21, <2>2, FinishType DEF Checked, serverVars, TypeOK, RunType, Outcome
  <2>3. CASE r.pc = "checking" /\ ~a
    BY <1>4, <1>21, <2>3 DEF Checked, Unwind, serverVars, TypeOK, RunType
  <2> QED BY <2>1, <2>2, <2>3
<1>22. CASE HeartbeatReply(n, i) \/ HeartbeatFails(n, i)
  <2>1. \A t : DeadlineVerdict(t) \subseteq BOOLEAN
    BY DEF DeadlineVerdict
  <2>2. r.active \in BOOLEAN
    BY <1>1 DEF RunRecord
  <2>3. \E a \in BOOLEAN : Checked(n, i, a)
    BY <1>22, <2>1, <2>2 DEF HeartbeatReply, HeartbeatFails
  <2> QED BY <1>21, <1>22, <2>3 DEF HeartbeatReply, HeartbeatFails
<1>23. CASE DeadlineFires(n, i)
  <2>1. [run EXCEPT ![n][i].active = FALSE] \in RunType
    BY <1>1 DEF RunType, RunRecord
  <2> QED BY <1>23, <2>1 DEF DeadlineFires, serverVars, TypeOK, RunType
<1> QED
  BY <1>10, <1>11, <1>12, <1>13, <1>14, <1>15, <1>16, <1>17, <1>18, <1>19, <1>20, <1>22, <1>23
  DEF RunStep

\* No step of the system breaks the types of a state in which outcomes are saved
\* before they are sent.
LEMMA NextType ==
  ASSUME TypeOK, SavedBeforeSent, [Next]_vars
  PROVE  TypeOK'
<1>1. CASE \E q \in net : Serve(q)
  BY <1>1, ServeType
<1>2. CASE \E t \in 1 .. nextTok - 1 : LeaseLapses(t)
  BY <1>2 DEF LeaseLapses, TypeOK
<1>3. CASE \E i \in Item : Cancel(i) \/ Retry(i)
  BY <1>3, OperatorType
<1>4. CASE \E n \in Node : Poller(n)
  BY <1>4, PollerType
<1>5. CASE \E n \in Node, i \in Item : RunStep(n, i)
  BY <1>5, RunStepType
<1>6. CASE UNCHANGED vars
  BY <1>6 DEF vars, TypeOK
<1> QED BY <1>1, <1>2, <1>3, <1>4, <1>5, <1>6 DEF Next

-----------------------------------------------------------------------------
(* Auxiliary invariant: the requests that a run may still be answered. *)

\* The call a run is waiting for in state r.
Calling == {"claiming", "starting", "reserving", "finishing"}
Awaited(n, i, r) ==
  Req(n, i, CASE r.pc = "claiming" -> "claim" [] r.pc = "starting" -> "running"
              [] r.pc = "reserving" -> "attempt" [] OTHER -> r.action,
      r.tok, IF r.pc = "reserving" THEN r.att ELSE 0, "run")

\* In the code each awaited cp() has a promise of its own; here, where an answer
\* goes to the run, it is that the run awaits the call its request made.
OneCall ==
  \A q \in net : q.by = "run" =>
    LET r == run[q.node][q.item]
    IN r.pc \in Calling /\ r.reply = "wait" /\ q = Awaited(q.node, q.item, r)

\* A run that awaits nothing has no request of its own under way.
LEMMA NothingAwaited ==
  ASSUME OneCall, NEW n \in Node, NEW i \in Item,
         run[n][i].pc \notin Calling \/ run[n][i].reply # "wait"
  PROVE  \A q \in net : q.by = "run" => ~(q.node = n /\ q.item = i)
  BY DEF OneCall

\* Abandoned requests are no longer awaited, and no request becomes so.
LEMMA AbandonOther ==
  ASSUME TypeOK, NEW qs \in SUBSET net, NEW net1 \in Abandon(qs)
  PROVE  \A q \in net1 : q.by = "run" => q \in net /\ q \notin qs
<1>1. \A q \in net : [q EXCEPT !.by = "late"].by = "late"
  BY DEF TypeOK, Request
<1> QED BY <1>1 DEF Abandon

\* Abandoning the requests of a run leaves none that it still awaits.
LEMMA AbandonOwn ==
  ASSUME TypeOK, NEW n, NEW i, NEW net1 \in Abandon(OwnedBy(n, i, "run"))
  PROVE  \A q \in net1 : q.by = "run" => q \in net /\ ~(q.node = n /\ q.item = i)
<1>1. OwnedBy(n, i, "run") \in SUBSET net
  BY DEF OwnedBy
<1>2. \A q \in net1 : q.by = "run" => q \in net /\ q \notin OwnedBy(n, i, "run")
  BY <1>1, AbandonOther
<1> QED BY <1>2 DEF OwnedBy

\* Replacing run n, i leaves the runs behind the other requests as they were.
LEMMA OthersAwait ==
  ASSUME TypeOK, OneCall, NEW n \in Node, NEW i \in Item, NEW x, NEW q \in net, q.by = "run",
         run' = [run EXCEPT ![n][i] = x], ~(q.node = n /\ q.item = i)
  PROVE  /\ run'[q.node][q.item].pc \in Calling
         /\ run'[q.node][q.item].reply = "wait"
         /\ q = Awaited(q.node, q.item, run'[q.node][q.item])
<1>1. q.node \in Node /\ q.item \in Item
  BY DEF TypeOK, Request
<1>2. run'[q.node][q.item] = run[q.node][q.item]
  BY <1>1 DEF TypeOK
<1> QED BY <1>2 DEF OneCall

\* A run whose requests are all gone may become anything.
LEMMA OneCallDropped ==
  ASSUME TypeOK, OneCall, NEW n \in Node, NEW i \in Item, NEW x,
         run' = [run EXCEPT ![n][i] = x],
         \A q \in net' : q.by = "run" => q \in net /\ ~(q.node = n /\ q.item = i)
  PROVE  OneCall'
<1> SUFFICES ASSUME NEW q \in net', q.by = "run"
             PROVE  /\ run'[q.node][q.item].pc \in Calling
                    /\ run'[q.node][q.item].reply = "wait"
                    /\ q = Awaited(q.node, q.item, run'[q.node][q.item])
  BY DEF OneCall
<1> QED BY OthersAwait

\* Run n, i becomes x and no other run changes; net1 has none of its requests.
Becomes(n, i, x) == run' = [run EXCEPT ![n][i] = x]
WithoutOwn(net1, n, i) ==
  \A q \in net1 : q.by = "run" => q \in net /\ ~(q.node = n /\ q.item = i)

\* A run whose requests are all gone may make a call and wait for it.
LEMMA OneCallMade ==
  ASSUME TypeOK, OneCall, NEW n \in Node, NEW i \in Item, NEW x, NEW net1,
         Becomes(n, i, x), net' = net1 \union {Awaited(n, i, x)}, WithoutOwn(net1, n, i),
         x.pc \in Calling, x.reply = "wait"
  PROVE  OneCall'
<1> SUFFICES ASSUME NEW q \in net', q.by = "run"
             PROVE  /\ run'[q.node][q.item].pc \in Calling
                    /\ run'[q.node][q.item].reply = "wait"
                    /\ q = Awaited(q.node, q.item, run'[q.node][q.item])
  BY DEF OneCall
<1>1. CASE q \in net1
  BY <1>1, OthersAwait DEF Becomes, WithoutOwn
<1>2. CASE q = Awaited(n, i, x)
  <2>1. q.node = n /\ q.item = i
    BY <1>2 DEF Awaited, Req
  <2>2. run'[n][i] = x
    BY DEF TypeOK, Becomes
  <2> QED BY <1>2, <2>1, <2>2
<1> QED BY <1>1, <1>2

\* Heartbeats and deadlines change nothing a call depends on.
LEMMA OneCallSame ==
  ASSUME TypeOK, OneCall, NEW n \in Node, NEW i \in Item, NEW x,
         run' = [run EXCEPT ![n][i] = x], net' = net,
         x.pc = run[n][i].pc, x.reply = run[n][i].reply, x.tok = run[n][i].tok,
         x.att = run[n][i].att, x.action = run[n][i].action
  PROVE  OneCall'
<1> SUFFICES ASSUME NEW q \in net, q.by = "run"
             PROVE  /\ run'[q.node][q.item].pc \in Calling
                    /\ run'[q.node][q.item].reply = "wait"
                    /\ q = Awaited(q.node, q.item, run'[q.node][q.item])
  BY DEF OneCall
<1>1. CASE q.node = n /\ q.item = i
  <2>1. Awaited(n, i, x) = Awaited(n, i, run[n][i])
    BY DEF Awaited
  <2>2. run'[n][i] = x
    BY DEF TypeOK
  <2> QED BY <1>1, <2>1, <2>2 DEF OneCall
<1>2. CASE ~(q.node = n /\ q.item = i)
  BY <1>2, OthersAwait
<1> QED BY <1>1, <1>2

\* A served request is gone with its answer, and it was the only one awaited.
LEMMA ServeOneCall ==
  ASSUME TypeOK, OneCall, NEW q \in net, Serve(q)
  PROVE  OneCall'
<1>1. /\ net' = net \ {q}
      /\ q.by # "run" => run' = run
      /\ q.by = "run" => \A m \in Node, j \in Item :
                            (m # q.node \/ j # q.item) => run'[m][j] = run[m][j]
  <2>1. q.node \in Node /\ q.item \in Item
    BY DEF TypeOK, Request
  <2>2. CASE ServeClaim(q)
    BY <2>1, <2>2 DEF ServeClaim, TypeOK
  <2>3. CASE DenyClaim(q) \/ ServeRunning(q) \/ ServeAttempt(q) \/ ServeOutcome(q)
    <3>1. \E ans : Answered(q, ans)
      BY <2>3 DEF DenyClaim, ServeRunning, ServeAttempt, ServeOutcome
    <3> QED BY <2>1, <3>1 DEF Answered, TypeOK
  <2> QED BY <2>2, <2>3 DEF Serve
<1> SUFFICES ASSUME NEW p \in net', p.by = "run"
             PROVE  /\ run'[p.node][p.item].pc \in Calling
                    /\ run'[p.node][p.item].reply = "wait"
                    /\ p = Awaited(p.node, p.item, run'[p.node][p.item])
  BY DEF OneCall
<1>2. p \in net /\ p # q /\ p.node \in Node /\ p.item \in Item
  BY <1>1 DEF TypeOK, Request
<1>3. q.by = "run" => p.node # q.node \/ p.item # q.item
  BY <1>2 DEF OneCall
<1>4. run'[p.node][p.item] = run[p.node][p.item]
  BY <1>1, <1>2, <1>3
<1> QED BY <1>2, <1>4 DEF OneCall

\* The poller's own steps start claims only for idle runs, and a crash awaits nothing.
LEMMA PollerOneCall ==
  ASSUME TypeOK, OneCall, NEW n \in Node, Poller(n)
  PROVE  OneCall'
<1>1. ASSUME NEW todo \in SUBSET Result, NEW net1, FlushNext(n, todo, net1),
             \A q \in net1 : q.by = "run" => q \in net
      PROVE  \A q \in net' : q.by = "run" => q \in net
  BY <1>1 DEF FlushNext, Req
<1>2. ASSUME \A q \in net' : q.by = "run" => q \in net, run' = run
      PROVE  OneCall'
  BY <1>2 DEF OneCall
<1>3. flush[n].todo \in SUBSET Result /\ outbox[n] \in SUBSET Result
  BY DEF TypeOK, FlushRecord
<1>4. CASE FlushBegin(n)
  BY <1>1, <1>2, <1>3, <1>4 DEF FlushBegin
<1>5. CASE FlushReply(n)
  BY <1>1, <1>2, <1>3, <1>5 DEF FlushReply
<1>6. CASE FlushFails(n)
  <2>1. PICK net1 \in Abandon(OwnedBy(n, flush[n].cur.item, "flush")) :
          FlushNext(n, flush[n].todo, net1)
    BY <1>6 DEF FlushFails
  <2>2. OwnedBy(n, flush[n].cur.item, "flush") \in SUBSET net
    BY DEF OwnedBy
  <2>3. \A q \in net1 : q.by = "run" => q \in net
    BY <2>1, <2>2, AbandonOther
  <2>4. \A q \in net' : q.by = "run" => q \in net
    BY <1>1, <1>3, <2>1, <2>3
  <2> QED BY <1>2, <1>6, <2>4 DEF FlushFails
<1>7. CASE Tick(n)
  <2>1. PICK S \in SUBSET Eligible(n) :
          /\ run' = [run EXCEPT ![n] = [i \in Item |->
                       IF i \in S
                       THEN [Idle EXCEPT !.pc = "claiming", !.active = TRUE, !.reply = "wait"]
                       ELSE @[i]]]
          /\ net' = net \union {Req(n, i, "claim", NoTok, 0, "run") : i \in S}
    BY <1>7 DEF Tick
  <2> SUFFICES ASSUME NEW q \in net', q.by = "run"
               PROVE  /\ run'[q.node][q.item].pc \in Calling
                      /\ run'[q.node][q.item].reply = "wait"
                      /\ q = Awaited(q.node, q.item, run'[q.node][q.item])
    BY DEF OneCall
  <2>2. CASE q \in net
    <3>1. q.node \in Node /\ q.item \in Item
      BY <2>2 DEF TypeOK, Request
    <3>2. ~(q.node = n /\ q.item \in S)
      BY <2>2 DEF OneCall, Eligible, InFlight, Calling
    <3>3. run'[q.node][q.item] = run[q.node][q.item]
      BY <2>1, <3>1, <3>2 DEF TypeOK
    <3> QED BY <2>2, <3>3 DEF OneCall
  <2>3. CASE q \notin net
    <3>1. PICK i \in S : q = Req(n, i, "claim", NoTok, 0, "run")
      BY <2>1, <2>3
    <3>2. i \in Item /\ q.node = n /\ q.item = i
      BY <3>1 DEF Req, Eligible
    <3>3. run'[n][i] = [Idle EXCEPT !.pc = "claiming", !.active = TRUE, !.reply = "wait"]
      BY <2>1, <3>2 DEF TypeOK
    <3> QED BY <3>1, <3>2, <3>3 DEF Idle, Awaited, Calling
  <2> QED BY <2>2, <2>3
<1>8. CASE Crash(n)
  <2>1. \A q \in net' : q.by = "run" => q \in net /\ q.node # n
    BY <1>8, AbandonOther DEF Crash
  <2>2. \A m \in Node : m # n => run'[m] = run[m]
    BY <1>8 DEF Crash, TypeOK
  <2>3. \A q \in net : q.node \in Node
    BY DEF TypeOK, Request
  <2> QED BY <2>1, <2>2, <2>3 DEF OneCall
<1> QED BY <1>4, <1>5, <1>6, <1>7, <1>8 DEF Poller

\* finishWork is only entered by a run that awaits no call.
LEMMA FinishOneCall ==
  ASSUME TypeOK, OneCall, NEW n \in Node, NEW i \in Item, NEW action,
         run[n][i].pc \notin Calling, Finish(n, i, action)
  PROVE  OneCall'
<1> DEFINE r == run[n][i]
           x == [r EXCEPT !.pc = "finishing", !.reply = "wait",
                          !.hb = IF r.pc = "checking" THEN "none" ELSE @, !.action = action]
<1>1. r \in RunRecord
  BY DEF TypeOK
<1>2. run' = [run EXCEPT ![n][i] = x] /\ net' = net \union {Req(n, i, action, r.tok, 0, "run")}
  BY DEF Finish
<1>3. x.pc = "finishing" /\ x.reply = "wait" /\ x.tok = r.tok /\ x.action = action
  BY <1>1 DEF RunRecord
<1> HIDE DEF x
<1>4. Awaited(n, i, x) = Req(n, i, action, r.tok, 0, "run")
  BY <1>3 DEF Awaited
<1>5. WithoutOwn(net, n, i) /\ Becomes(n, i, x)
  BY <1>2, NothingAwaited DEF WithoutOwn, Becomes
<1>6. net' = net \union {Awaited(n, i, x)} /\ x.pc \in Calling
  BY <1>2, <1>3, <1>4 DEF Calling
<1> QED BY <1>2, <1>3, <1>5, <1>6, OneCallMade

\* Every step of a run leaves it awaiting at most the call it has just made.
LEMMA RunStepOneCall ==
  ASSUME TypeOK, OneCall, NEW n \in Node, NEW i \in Item, RunStep(n, i)
  PROVE  OneCall'
<1> DEFINE r == run[n][i]
<1>1. r \in RunRecord
  BY DEF TypeOK
<1>2. ASSUME \A q \in net' : q.by = "run" => q \in net /\ ~(q.node = n /\ q.item = i),
             NEW x, run' = [run EXCEPT ![n][i] = x]
      PROVE  OneCall'
  BY <1>2, OneCallDropped
<1>3. ASSUME net' = net, NEW x, run' = [run EXCEPT ![n][i] = x],
             x.pc = r.pc /\ x.reply = r.reply /\ x.tok = r.tok,
             x.att = r.att /\ x.action = r.action
      PROVE  OneCall'
  BY <1>3, OneCallSame
<1>4. r.pc \notin Calling \/ r.reply # "wait" =>
        \A q \in net : q.by = "run" => ~(q.node = n /\ q.item = i)
  BY NothingAwaited
<1>10. CASE ClaimReply(n, i)
  <2>1. \A q \in net : q.by = "run" => ~(q.node = n /\ q.item = i)
    BY <1>4, <1>10 DEF ClaimReply
  <2>2. CASE r.reply = "ok" /\ r.active
    <3>1. PICK a \in DeadlineVerdict(r.tok) :
            run' = [run EXCEPT ![n][i] = [r EXCEPT !.pc = "starting", !.reply = "wait", !.active = a]]
      BY <1>10, <2>2 DEF ClaimReply
    <3> DEFINE x == [r EXCEPT !.pc = "starting", !.reply = "wait", !.active = a]
    <3>2. x.pc = "starting" /\ x.reply = "wait" /\ x.tok = r.tok
      BY <1>1 DEF RunRecord
    <3> HIDE DEF x
    <3>3. Awaited(n, i, x) = Req(n, i, "running", r.tok, 0, "run")
      BY <3>2 DEF Awaited
    <3>4. net' = net \union {Awaited(n, i, x)} /\ run' = [run EXCEPT ![n][i] = x]
      BY <1>10, <2>2, <3>1, <3>3 DEF ClaimReply, x
    <3>5. x.pc \in Calling
      BY <3>2 DEF Calling
    <3>6. WithoutOwn(net, n, i) /\ Becomes(n, i, x)
      BY <2>1, <3>4 DEF WithoutOwn, Becomes
    <3> QED BY <3>2, <3>4, <3>5, <3>6, OneCallMade
  <2>3. CASE ~(r.reply = "ok" /\ r.active)
    <3>1. net' = net /\ run' = [run EXCEPT ![n][i] = Idle]
      BY <1>10, <2>3 DEF ClaimReply
    <3> QED BY <1>2, <2>1, <3>1
  <2> QED BY <2>2, <2>3
<1>11. CASE StartReply(n, i) \/ ReserveReply(n, i) \/ FinishReply(n, i) \/ AgentAborted(n, i)
  <2>1. \A q \in net : q.by = "run" => ~(q.node = n /\ q.item = i)
    BY <1>4, <1>11 DEF StartReply, ReserveReply, FinishReply, AgentAborted, Calling
  <2>2. net' = net
    BY <1>11 DEF StartReply, ReserveReply, FinishReply, AgentAborted, Unwind
  <2>3. \E x : run' = [run EXCEPT ![n][i] = x]
    <3>1. StartReply(n, i) => \E x : run' = [run EXCEPT ![n][i] = x]
      BY DEF StartReply
    <3>2. ReserveReply(n, i) => \E x : run' = [run EXCEPT ![n][i] = x]
      BY DEF ReserveReply
    <3>3. FinishReply(n, i) \/ AgentAborted(n, i) => \E x : run' = [run EXCEPT ![n][i] = x]
      BY DEF FinishReply, AgentAborted, Unwind
    <3> QED BY <1>11, <3>1, <3>2, <3>3
  <2> QED BY <1>2, <2>1, <2>2, <2>3
<1>12. CASE StartFails(n, i)
  <2>1. \A q \in net' : q.by = "run" => q \in net /\ ~(q.node = n /\ q.item = i)
    BY <1>12, AbandonOwn DEF StartFails
  <2>2. run' = [run EXCEPT ![n][i] = Idle]
    BY <1>12 DEF StartFails
  <2> QED BY <1>2, <2>1, <2>2
<1>13. CASE AgentEnds(n, i)
  <2>1. \E action : Finish(n, i, action)
    BY <1>13 DEF AgentEnds
  <2>2. r.pc \notin Calling
    BY <1>13 DEF AgentEnds, Calling
  <2> QED BY <2>1, <2>2, FinishOneCall
<1>14. CASE AgentRetries(n, i)
  <2> DEFINE x == [r EXCEPT !.pc = "reserving", !.reply = "wait"]
  <2>1. x.pc = "reserving" /\ x.reply = "wait" /\ x.tok = r.tok /\ x.att = r.att
    BY <1>1 DEF RunRecord
  <2>2. run' = [run EXCEPT ![n][i] = x]
        /\ net' = net \union {Req(n, i, "attempt", r.tok, r.att, "run")}
    BY <1>14 DEF AgentRetries
  <2> HIDE DEF x
  <2>3. Awaited(n, i, x) = Req(n, i, "attempt", r.tok, r.att, "run")
    BY <2>1 DEF Awaited
  <2>4. \A q \in net : q.by = "run" => ~(q.node = n /\ q.item = i)
    BY <1>4, <1>14 DEF AgentRetries, Calling
  <2>5. net' = net \union {Awaited(n, i, x)} /\ x.pc \in Calling
    BY <2>1, <2>2, <2>3 DEF Calling
  <2>6. WithoutOwn(net, n, i) /\ Becomes(n, i, x)
    BY <2>2, <2>4 DEF WithoutOwn, Becomes
  <2> QED BY <2>1, <2>5, <2>6, OneCallMade
<1>15. ASSUME NEW net1 \in Abandon(OwnedBy(n, i, "run")), r.pc \in {"reserving", "finishing"},
              run' = [run EXCEPT ![n][i].reply = "wait"],
              net' = net1 \union {Awaited(n, i, r)}
       PROVE  OneCall'
  <2> DEFINE x == [r EXCEPT !.reply = "wait"]
  <2>1. x.pc = r.pc /\ x.reply = "wait" /\ x.tok = r.tok /\ x.att = r.att /\ x.action = r.action
    BY <1>1 DEF RunRecord
  <2>2. run' = [run EXCEPT ![n][i] = x]
    BY <1>15 DEF TypeOK
  <2> HIDE DEF x
  <2>3. Awaited(n, i, x) = Awaited(n, i, r)
    BY <2>1 DEF Awaited
  <2>4. \A q \in net1 : q.by = "run" => q \in net /\ ~(q.node = n /\ q.item = i)
    BY AbandonOwn
  <2>5. net' = net1 \union {Awaited(n, i, x)} /\ x.pc \in Calling
    BY <1>15, <2>1, <2>3 DEF Calling
  <2>6. WithoutOwn(net1, n, i) /\ Becomes(n, i, x)
    BY <2>2, <2>4 DEF WithoutOwn, Becomes
  <2> QED BY <2>1, <2>5, <2>6, OneCallMade
<1>16. CASE ReserveFails(n, i) \/ FinishFails(n, i)
  <2>1. /\ r.pc = "reserving" => Awaited(n, i, r) = Req(n, i, "attempt", r.tok, r.att, "run")
        /\ r.pc = "finishing" => Awaited(n, i, r) = Req(n, i, r.action, r.tok, 0, "run")
    BY DEF Awaited
  <2>2. PICK net1 \in Abandon(OwnedBy(n, i, "run")) :
          \/ /\ run' = [run EXCEPT ![n][i].reply = "wait"]
             /\ net' = net1 \union {Awaited(n, i, r)}
          \/ run' = [run EXCEPT ![n][i] = Idle] /\ net' = net1
    BY <1>16, <2>1 DEF ReserveFails, FinishFails
  <2>3. r.pc \in {"reserving", "finishing"}
    BY <1>16 DEF ReserveFails, FinishFails
  <2>4. \A q \in net1 : q.by = "run" => q \in net /\ ~(q.node = n /\ q.item = i)
    BY AbandonOwn
  <2> QED BY <1>2, <1>15, <2>2, <2>3, <2>4
<1>17. CASE CheckLease(n, i) \/ ServeHeartbeat(n, i) \/ DeadlineFires(n, i)
  <2>1. \A h, a : LET x == [r EXCEPT !.hb = h, !.active = a]
                  IN /\ x.pc = r.pc /\ x.reply = r.reply /\ x.tok = r.tok
                     /\ x.att = r.att /\ x.action = r.action
    BY <1>1 DEF RunRecord
  <2>2. PICK h \in Reply \union {"bare"}, a \in BOOLEAN :
          run' = [run EXCEPT ![n][i] = [r EXCEPT !.hb = h, !.active = a]]
    BY <1>17, LeaseMoves
  <2>3. net' = net
    BY <1>17 DEF CheckLease, ServeHeartbeat, DeadlineFires
  <2> QED BY <1>3, <2>1, <2>2, <2>3
<1>18. ASSUME NEW a, Checked(n, i, a) PROVE OneCall'
  <2>1. CASE r.pc # "checking"
    <3> DEFINE x == [r EXCEPT !.hb = "none", !.active = a]
    <3>1. x.pc = r.pc /\ x.reply = r.reply /\ x.tok = r.tok /\ x.att = r.att /\ x.action = r.action
      BY <1>1 DEF RunRecord
    <3>2. net' = net /\ run' = [run EXCEPT ![n][i] = x]
      BY <1>18, <2>1 DEF Checked, TypeOK
    <3> HIDE DEF x
    <3> QED BY <1>3, <3>1, <3>2
  <2>2. CASE r.pc = "checking" /\ a
    BY <1>18, <2>2, FinishOneCall DEF Checked, Calling
  <2>3. CASE r.pc = "checking" /\ ~a
    <3>1. net' = net /\ run' = [run EXCEPT ![n][i] = Idle]
      BY <1>18, <2>3 DEF Checked, Unwind
    <3>2. \A q \in net : q.by = "run" => ~(q.node = n /\ q.item = i)
      BY <1>4, <2>3 DEF Calling
    <3> QED BY <1>2, <3>1, <3>2
  <2> QED BY <2>1, <2>2, <2>3
<1>19. CASE HeartbeatReply(n, i) \/ HeartbeatFails(n, i)
  <2>1. \E a : Checked(n, i, a)
    BY <1>19 DEF HeartbeatReply, HeartbeatFails
  <2> QED BY <1>18, <2>1
<1> QED
  BY <1>10, <1>11, <1>12, <1>13, <1>14, <1>16, <1>17, <1>19 DEF RunStep

\* No step makes a run await two calls, or take an answer that is not its own.
LEMMA NextOneCall ==
  ASSUME TypeOK, OneCall, [Next]_vars
  PROVE  OneCall'
<1>1. CASE \E q \in net : Serve(q)
  BY <1>1, ServeOneCall
<1>2. CASE \E t \in 1 .. nextTok - 1 : LeaseLapses(t)
  BY <1>2 DEF LeaseLapses, OneCall
<1>3. CASE \E i \in Item : Cancel(i) \/ Retry(i)
  BY <1>3 DEF Cancel, Retry, OneCall
<1>4. CASE \E n \in Node : Poller(n)
  BY <1>4, PollerOneCall
<1>5. CASE \E n \in Node, i \in Item : RunStep(n, i)
  BY <1>5, RunStepOneCall
<1>6. CASE UNCHANGED vars
  BY <1>6 DEF vars, OneCall
<1> QED BY <1>1, <1>2, <1>3, <1>4, <1>5, <1>6 DEF Next

-----------------------------------------------------------------------------
(* Every outcome is saved before it is sent. *)

\* The saved results behind the requests of ns, the run x of item i, and node n.
NetSaved(ns, saved) ==
  \A q \in ns : q.kind \in Outcome => [item |-> q.item, tok |-> q.tok, action |-> q.kind] \in saved
RunSaved(i, x, saved) ==
  x.pc = "finishing" => [item |-> i, tok |-> x.tok, action |-> x.action] \in saved
RunsSaved(rs, saved) == \A n \in Node, i \in Item : RunSaved(i, rs[n][i], saved)
BoxesSaved(box, fl, saved) == \A n \in Node : box[n] \subseteq saved /\ fl[n].todo \subseteq saved

\* SavedBeforeSent is the conjunction of the three.
LEMMA SavedParts ==
  /\ SavedBeforeSent <=> /\ BoxesSaved(outbox, flush, produced)
                         /\ RunsSaved(run, produced) /\ NetSaved(net, produced)
  /\ SavedBeforeSent' <=> /\ BoxesSaved(outbox', flush', produced')
                          /\ RunsSaved(run', produced') /\ NetSaved(net', produced')
  BY DEF SavedBeforeSent, BoxesSaved, RunsSaved, RunSaved, NetSaved

\* A request that is late is a late request for the same outcome.
LEMMA AbandonSaved ==
  ASSUME TypeOK, NetSaved(net, produced), NEW qs \in SUBSET net, NEW net1 \in Abandon(qs)
  PROVE  NetSaved(net1, produced)
<1> SUFFICES ASSUME NEW q \in net1 PROVE \E p \in net : q.item = p.item /\ q.tok = p.tok /\ q.kind = p.kind
  BY DEF NetSaved
<1>1. CASE q \in net
  BY <1>1
<1>2. CASE q \notin net
  <2>1. PICK p \in qs : q = [p EXCEPT !.by = "late"]
    BY <1>2 DEF Abandon
  <2>2. p \in net /\ p \in Request
    BY DEF TypeOK
  <2> QED BY <2>1, <2>2 DEF Request
<1> QED BY <1>1, <1>2

\* One run changes, and if it is now sending an outcome that outcome is saved.
LEMMA RunsSavedKept ==
  ASSUME TypeOK, RunsSaved(run, produced), produced \subseteq produced',
         NEW n \in Node, NEW i \in Item, NEW x, Becomes(n, i, x), RunSaved(i, x, produced')
  PROVE  RunsSaved(run', produced')
<1> SUFFICES ASSUME NEW m \in Node, NEW j \in Item
             PROVE  RunSaved(j, run'[m][j], produced')
  BY DEF RunsSaved
<1>1. CASE m = n /\ j = i
  <2>1. run'[m][j] = x
    BY <1>1 DEF Becomes, TypeOK
  <2> QED BY <1>1, <2>1
<1>2. CASE ~(m = n /\ j = i)
  <2>1. run'[m][j] = run[m][j]
    BY <1>2 DEF Becomes, TypeOK
  <2>2. RunSaved(j, run[m][j], produced)
    BY DEF RunsSaved
  <2> QED BY <2>1, <2>2 DEF RunSaved
<1> QED BY <1>1, <1>2

\* A flush sends what it found saved.
LEMMA FlushNextSaved ==
  ASSUME TypeOK, BoxesSaved(outbox, flush, produced), NEW n \in Node, NEW todo \in SUBSET Result,
         NEW net1, FlushNext(n, todo, net1), NetSaved(net1, produced), todo \subseteq produced
  PROVE  NetSaved(net', produced) /\ \A m \in Node : flush'[m].todo \subseteq produced
<1>1. ASSUME NEW r \in todo
      PROVE  LET q == Req(n, r.item, r.action, r.tok, 0, "flush")
             IN [item |-> q.item, tok |-> q.tok, action |-> q.kind] \in produced
  <2>1. [item |-> r.item, tok |-> r.tok, action |-> r.action] = r
    BY DEF Result
  <2> QED BY <2>1 DEF Req
<1>2. CASE \E r \in todo :
             /\ flush' = [flush EXCEPT ![n] = [cur |-> r, reply |-> "wait", todo |-> todo \ {r}]]
             /\ net' = net1 \union {Req(n, r.item, r.action, r.tok, 0, "flush")}
  <2>1. PICK r \in todo :
             /\ flush' = [flush EXCEPT ![n] = [cur |-> r, reply |-> "wait", todo |-> todo \ {r}]]
             /\ net' = net1 \union {Req(n, r.item, r.action, r.tok, 0, "flush")}
    BY <1>2
  <2>2. NetSaved(net', produced)
    BY <1>1, <2>1 DEF NetSaved
  <2>3. \A m \in Node : flush'[m].todo \subseteq produced
    BY <2>1 DEF TypeOK, BoxesSaved
  <2> QED BY <2>2, <2>3
<1>3. CASE flush' = [flush EXCEPT ![n] = NoFlush] /\ net' = net1
  BY <1>3 DEF TypeOK, BoxesSaved, NoFlush
<1> QED BY <1>2, <1>3 DEF FlushNext

\* The store sends nothing, and only the answer of a claim changes a run's token.
LEMMA ServeSaved ==
  ASSUME TypeOK, OneCall, SavedBeforeSent, NEW q \in net, Serve(q)
  PROVE  SavedBeforeSent'
<1>1. q.node \in Node /\ q.item \in Item /\ run[q.node][q.item] \in RunRecord
  BY DEF TypeOK, Request
<1>2. BoxesSaved(outbox, flush, produced) /\ RunsSaved(run, produced) /\ NetSaved(net, produced)
  BY SavedParts
<1>3. ASSUME NEW ans, Answered(q, ans), outbox' = outbox, produced' = produced
      PROVE  SavedBeforeSent'
  <2>1. NetSaved(net', produced')
    BY <1>2, <1>3 DEF Answered, NetSaved
  <2>2. BoxesSaved(outbox', flush', produced')
    BY <1>1, <1>2, <1>3 DEF Answered, BoxesSaved, TypeOK, FlushRecord
  <2> DEFINE x == [run[q.node][q.item] EXCEPT !.reply = ans]
  <2>3. x.pc = run[q.node][q.item].pc /\ x.tok = run[q.node][q.item].tok
        /\ x.action = run[q.node][q.item].action
    BY <1>1 DEF RunRecord
  <2>4. run' = run \/ Becomes(q.node, q.item, x)
    BY <1>1, <1>3 DEF Answered, Becomes, TypeOK
  <2> HIDE DEF x
  <2>5. RunSaved(q.item, x, produced')
    <3>1. RunSaved(q.item, run[q.node][q.item], produced)
      BY <1>1, <1>2 DEF RunsSaved
    <3> QED BY <1>3, <2>3, <3>1 DEF RunSaved
  <2>6. RunsSaved(run', produced')
    BY <1>1, <1>2, <1>3, <2>4, <2>5, RunsSavedKept
  <2> QED BY <2>1, <2>2, <2>6, SavedParts
<1>4. CASE DenyClaim(q) \/ ServeRunning(q) \/ ServeAttempt(q) \/ ServeOutcome(q)
  BY <1>3, <1>4 DEF DenyClaim, ServeRunning, ServeAttempt, ServeOutcome
<1>5. CASE ServeClaim(q)
  <2>1. NetSaved(net', produced') /\ BoxesSaved(outbox', flush', produced')
    BY <1>2, <1>5 DEF ServeClaim, NetSaved
  <2>2. CASE q.by = "run"
    <3>1. run[q.node][q.item].pc = "claiming"
      <4>1. q.kind = "claim" /\ run[q.node][q.item].pc \in Calling
            /\ q = Awaited(q.node, q.item, run[q.node][q.item])
        BY <1>5, <2>2 DEF ServeClaim, OneCall
      <4>2. run[q.node][q.item].pc = "finishing" => q.kind \in Outcome
        <5>1. run[q.node][q.item].pc = "finishing" => q.kind = run[q.node][q.item].action
          BY <4>1 DEF Awaited, Req
        <5>2. run[q.node][q.item].pc = "finishing" => run[q.node][q.item].action \in Outcome
          BY <1>1 DEF SavedBeforeSent, TypeOK, Result
        <5> QED BY <5>1, <5>2
      <4>3. run[q.node][q.item].pc # "starting" /\ run[q.node][q.item].pc # "reserving"
        BY <4>1 DEF Awaited, Req
      <4> QED BY <4>1, <4>2, <4>3 DEF Calling, Outcome
    <3> DEFINE X(a, t, k) == [run[q.node][q.item] EXCEPT !.reply = a, !.tok = t, !.att = k]
    <3>2. \A a, t, k : X(a, t, k).pc = run[q.node][q.item].pc
      BY <1>1 DEF RunRecord
    <3>3. PICK a, t, k : Becomes(q.node, q.item, X(a, t, k))
      BY <1>5, <2>2 DEF ServeClaim, Becomes
    <3> HIDE DEF X
    <3>4. RunSaved(q.item, X(a, t, k), produced')
      BY <3>1, <3>2 DEF RunSaved
    <3> QED BY <1>1, <1>2, <1>5, <2>1, <3>3, <3>4, RunsSavedKept, SavedParts DEF ServeClaim
  <2>3. CASE q.by # "run"
    BY <1>2, <1>5, <2>1, <2>3, SavedParts DEF ServeClaim
  <2> QED BY <2>2, <2>3
<1> QED BY <1>4, <1>5 DEF Serve

\* The poller sends only outcomes that it finds in the outbox.
LEMMA PollerSaved ==
  ASSUME TypeOK, SavedBeforeSent, NEW n \in Node, Poller(n)
  PROVE  SavedBeforeSent'
<1>1. BoxesSaved(outbox, flush, produced) /\ RunsSaved(run, produced) /\ NetSaved(net, produced)
  BY SavedParts
<1>2. /\ flush[n].todo \in SUBSET Result /\ outbox[n] \in SUBSET Result
      /\ flush[n].todo \subseteq produced /\ outbox[n] \subseteq produced
  BY <1>1 DEF TypeOK, FlushRecord, BoxesSaved
<1>3. CASE FlushBegin(n)
  <2>1. NetSaved(net', produced) /\ \A m \in Node : flush'[m].todo \subseteq produced
    BY <1>1, <1>2, <1>3, FlushNextSaved DEF FlushBegin
  <2> QED BY <1>1, <1>3, <2>1, SavedParts DEF FlushBegin, BoxesSaved
<1>4. CASE FlushReply(n)
  <2>1. NetSaved(net', produced) /\ \A m \in Node : flush'[m].todo \subseteq produced
    BY <1>1, <1>2, <1>4, FlushNextSaved DEF FlushReply
  <2>2. \A m \in Node : outbox'[m] \subseteq produced
    BY <1>1, <1>4 DEF FlushReply, Remove, BoxesSaved, TypeOK
  <2> QED BY <1>1, <1>4, <2>1, <2>2, SavedParts DEF FlushReply, BoxesSaved
<1>5. CASE FlushFails(n)
  <2>1. PICK net1 \in Abandon(OwnedBy(n, flush[n].cur.item, "flush")) :
          FlushNext(n, flush[n].todo, net1)
    BY <1>5 DEF FlushFails
  <2>2. OwnedBy(n, flush[n].cur.item, "flush") \in SUBSET net
    BY DEF OwnedBy
  <2>3. NetSaved(net1, produced)
    BY <1>1, <2>2, AbandonSaved
  <2>4. NetSaved(net', produced) /\ \A m \in Node : flush'[m].todo \subseteq produced
    BY <1>1, <1>2, <2>1, <2>3, FlushNextSaved
  <2> QED BY <1>1, <1>5, <2>4, SavedParts DEF FlushFails, BoxesSaved
<1>6. CASE Tick(n)
  <2>1. PICK S \in SUBSET Eligible(n) :
          /\ run' = [run EXCEPT ![n] = [i \in Item |->
                       IF i \in S
                       THEN [Idle EXCEPT !.pc = "claiming", !.active = TRUE, !.reply = "wait"]
                       ELSE @[i]]]
          /\ net' = net \union {Req(n, i, "claim", NoTok, 0, "run") : i \in S}
    BY <1>6 DEF Tick
  <2>2. NetSaved(net', produced)
    BY <1>1, <2>1 DEF NetSaved, Req, Outcome
  <2>3. [Idle EXCEPT !.pc = "claiming", !.active = TRUE, !.reply = "wait"].pc = "claiming"
    BY DEF Idle
  <2>4. \A m \in Node, i \in Item : run'[m][i].pc = "claiming" \/ run'[m][i] = run[m][i]
    BY <2>1, <2>3 DEF TypeOK
  <2>5. RunsSaved(run', produced)
    BY <1>1, <2>4 DEF RunsSaved, RunSaved
  <2> QED BY <1>1, <1>6, <2>2, <2>5, SavedParts DEF Tick
<1>7. CASE Crash(n)
  <2>1. NetSaved(net', produced)
    BY <1>1, <1>7, AbandonSaved DEF Crash
  <2>2. \A m \in Node, i \in Item : run'[m][i] = Idle \/ run'[m][i] = run[m][i]
    BY <1>7 DEF Crash, TypeOK
  <2>3. RunsSaved(run', produced)
    BY <1>1, <2>2 DEF RunsSaved, RunSaved, Idle
  <2>4. BoxesSaved(outbox', flush', produced)
    BY <1>1, <1>7 DEF Crash, BoxesSaved, TypeOK, NoFlush
  <2> QED BY <1>7, <2>1, <2>3, <2>4, SavedParts DEF Crash
<1> QED BY <1>3, <1>4, <1>5, <1>6, <1>7 DEF Poller

\* finishWork saves what it sends.
LEMMA FinishSaved ==
  ASSUME TypeOK, SavedBeforeSent, NEW n \in Node, NEW i \in Item, NEW action,
         Finish(n, i, action), flush' = flush
  PROVE  SavedBeforeSent'
<1> DEFINE r == run[n][i]
           result == [item |-> i, tok |-> r.tok, action |-> action]
           x == [r EXCEPT !.pc = "finishing", !.reply = "wait",
                          !.hb = IF r.pc = "checking" THEN "none" ELSE @, !.action = action]
<1>1. BoxesSaved(outbox, flush, produced) /\ RunsSaved(run, produced) /\ NetSaved(net, produced)
  BY SavedParts
<1>2. /\ outbox' = [outbox EXCEPT ![n] = Put(@, result)] /\ produced' = produced \union {result}
      /\ Becomes(n, i, x) /\ net' = net \union {Req(n, i, action, r.tok, 0, "run")}
  BY DEF Finish, Becomes
<1>3. x.tok = r.tok /\ x.action = action
  BY DEF TypeOK, RunRecord
<1> HIDE DEF x
<1>4. RunSaved(i, x, produced')
  BY <1>2, <1>3 DEF RunSaved
<1>5. RunsSaved(run', produced')
  BY <1>1, <1>2, <1>4, RunsSavedKept
<1>6. NetSaved(net', produced')
  BY <1>1, <1>2 DEF NetSaved, Req
<1>7. BoxesSaved(outbox', flush', produced')
  BY <1>1, <1>2 DEF BoxesSaved, Put, TypeOK
<1> QED BY <1>5, <1>6, <1>7, SavedParts

\* A run sends an outcome only from finishWork, or again what finishWork saved.
LEMMA RunStepSaved ==
  ASSUME TypeOK, SavedBeforeSent, NEW n \in Node, NEW i \in Item, RunStep(n, i)
  PROVE  SavedBeforeSent'
<1> DEFINE r == run[n][i]
<1>1. r \in RunRecord
  BY DEF TypeOK
<1>2. BoxesSaved(outbox, flush, produced) /\ RunsSaved(run, produced) /\ NetSaved(net, produced)
  BY SavedParts
<1>3. RunSaved(i, r, produced)
  BY <1>2 DEF RunsSaved
<1>4. \A net1 \in Abandon(OwnedBy(n, i, "run")) : NetSaved(net1, produced)
  <2>1. OwnedBy(n, i, "run") \in SUBSET net
    BY DEF OwnedBy
  <2> QED BY <1>2, <2>1, AbandonSaved
<1>5. ASSUME UNCHANGED <<outbox, flush, produced>>, NetSaved(net', produced),
             NEW x, Becomes(n, i, x), RunSaved(i, x, produced)
      PROVE  SavedBeforeSent'
  BY <1>2, <1>5, RunsSavedKept, SavedParts
<1>6. RunSaved(i, Idle, produced)
  BY DEF RunSaved, Idle
<1>10. CASE ClaimReply(n, i)
  <2>a. net' = net \/ net' = net \union {Req(n, i, "running", r.tok, 0, "run")}
    BY <1>10 DEF ClaimReply
  <2>1. NetSaved(net', produced)
    BY <1>2, <2>a DEF NetSaved, Req, Outcome
  <2>2. \A a : RunSaved(i, [r EXCEPT !.pc = "starting", !.reply = "wait", !.active = a], produced)
    BY <1>1 DEF RunSaved, RunRecord
  <2>3. \/ \E a : Becomes(n, i, [r EXCEPT !.pc = "starting", !.reply = "wait", !.active = a])
        \/ Becomes(n, i, Idle)
    BY <1>10 DEF ClaimReply, Becomes
  <2> QED BY <1>5, <1>6, <1>10, <2>1, <2>2, <2>3 DEF ClaimReply
<1>11. CASE StartReply(n, i)
  <2>1. RunSaved(i, [r EXCEPT !.pc = "agent", !.reply = "none"], produced)
    BY <1>1 DEF RunSaved, RunRecord
  <2>2. \/ Becomes(n, i, [r EXCEPT !.pc = "agent", !.reply = "none"]) \/ Becomes(n, i, Idle)
    BY <1>11 DEF StartReply, Becomes
  <2> QED BY <1>2, <1>5, <1>6, <1>11, <2>1, <2>2 DEF StartReply
<1>12. CASE StartFails(n, i)
  <2>1. NetSaved(net', produced) /\ Becomes(n, i, Idle)
    BY <1>4, <1>12 DEF StartFails, Becomes
  <2> QED BY <1>5, <1>6, <1>12, <2>1 DEF StartFails
<1>13. CASE AgentEnds(n, i)
  <2>1. \E action : Finish(n, i, action)
    BY <1>13 DEF AgentEnds
  <2> QED BY <1>13, <2>1, FinishSaved DEF AgentEnds
<1>14. CASE AgentRetries(n, i)
  <2>1. RunSaved(i, [r EXCEPT !.pc = "reserving", !.reply = "wait"], produced)
    BY <1>1 DEF RunSaved, RunRecord
  <2>2. Becomes(n, i, [r EXCEPT !.pc = "reserving", !.reply = "wait"])
    BY <1>14 DEF AgentRetries, Becomes
  <2>3. NetSaved(net', produced)
    BY <1>2, <1>14 DEF AgentRetries, NetSaved, Req, Outcome
  <2> QED BY <1>5, <1>14, <2>1, <2>2, <2>3 DEF AgentRetries
<1>15. CASE AgentAborted(n, i)
  <2>1. net' = net /\ Becomes(n, i, Idle)
    BY <1>15 DEF AgentAborted, Unwind, Becomes
  <2> QED BY <1>2, <1>5, <1>6, <1>15, <2>1 DEF AgentAborted, Unwind
<1>16. CASE ReserveReply(n, i)
  <2> DEFINE again == [r EXCEPT !.pc = "agent", !.reply = "none", !.att = @ + 1]
             check == [r EXCEPT !.pc = "checking", !.reply = "none",
                                !.hb = IF @ = "none" THEN "wait" ELSE @]
  <2>1. again.pc = "agent" /\ check.pc = "checking"
    BY <1>1 DEF RunRecord
  <2>2. Becomes(n, i, Idle) \/ Becomes(n, i, again) \/ Becomes(n, i, check)
    BY <1>16 DEF ReserveReply, Becomes
  <2> HIDE DEF again, check
  <2>3. RunSaved(i, again, produced) /\ RunSaved(i, check, produced)
    BY <2>1 DEF RunSaved
  <2> QED BY <1>2, <1>5, <1>6, <1>16, <2>2, <2>3 DEF ReserveReply
<1>17. CASE ReserveFails(n, i) \/ FinishFails(n, i)
  <2> DEFINE x == [r EXCEPT !.reply = "wait"]
  <2>1. RunSaved(i, x, produced)
    BY <1>1, <1>3 DEF RunSaved, RunRecord
  <2>2. \/ \E net1 \in Abandon(OwnedBy(n, i, "run")) : net' = net1 /\ Becomes(n, i, Idle)
        \/ \E net1 \in Abandon(OwnedBy(n, i, "run")) :
             /\ net' = net1 \union {Req(n, i, "attempt", r.tok, r.att, "run")}
             /\ Becomes(n, i, x)
        \/ \E net1 \in Abandon(OwnedBy(n, i, "run")) :
             /\ net' = net1 \union {Req(n, i, r.action, r.tok, 0, "run")}
             /\ Becomes(n, i, x) /\ r.pc = "finishing"
    BY <1>17 DEF ReserveFails, FinishFails, Becomes, TypeOK
  <2>3. NetSaved(net', produced)
    BY <1>3, <1>4, <2>2 DEF NetSaved, RunSaved, Req, Outcome
  <2> QED BY <1>5, <1>6, <1>17, <2>1, <2>2, <2>3 DEF ReserveFails, FinishFails
<1>18. CASE FinishReply(n, i)
  <2>1. BoxesSaved(outbox', flush', produced')
    BY <1>2, <1>18 DEF FinishReply, Remove, BoxesSaved, TypeOK
  <2>2. Becomes(n, i, Idle)
    BY <1>18 DEF FinishReply, Becomes
  <2>3. RunsSaved(run', produced')
    BY <1>2, <1>6, <1>18, <2>2, RunsSavedKept DEF FinishReply
  <2> QED BY <1>2, <1>18, <2>1, <2>3, SavedParts DEF FinishReply
<1>19. \A h, a : RunSaved(i, [r EXCEPT !.hb = h, !.active = a], produced)
  BY <1>1, <1>3 DEF RunSaved, RunRecord
<1>20. CASE CheckLease(n, i) \/ ServeHeartbeat(n, i) \/ DeadlineFires(n, i)
  <2>1. PICK h \in Reply \union {"bare"}, a \in BOOLEAN :
          Becomes(n, i, [r EXCEPT !.hb = h, !.active = a])
    BY <1>20, LeaseMoves DEF Becomes
  <2>2. UNCHANGED <<net, outbox, flush, produced>>
    BY <1>20 DEF CheckLease, ServeHeartbeat, DeadlineFires
  <2> QED BY <1>2, <1>5, <1>19, <2>1, <2>2
<1>21. ASSUME NEW a, Checked(n, i, a), flush' = flush PROVE SavedBeforeSent'
  <2>1. CASE r.pc # "checking"
    <3>1. Becomes(n, i, [r EXCEPT !.hb = "none", !.active = a]) /\ UNCHANGED <<net, outbox, produced>>
      BY <1>21, <2>1 DEF Checked, TypeOK, Becomes
    <3> QED BY <1>2, <1>5, <1>19, <1>21, <3>1
  <2>2. CASE r.pc = "checking" /\ a
    BY <1>21, <2>2, FinishSaved DEF Checked
  <2>3. CASE r.pc = "checking" /\ ~a
    <3>1. Becomes(n, i, Idle) /\ UNCHANGED <<net, outbox, produced>>
      BY <1>21, <2>3 DEF Checked, Unwind, Becomes
    <3> QED BY <1>2, <1>5, <1>6, <1>21, <3>1
  <2> QED BY <2>1, <2>2, <2>3
<1>22. CASE HeartbeatReply(n, i) \/ HeartbeatFails(n, i)
  <2>1. (\E a : Checked(n, i, a)) /\ flush' = flush
    BY <1>22 DEF HeartbeatReply, HeartbeatFails
  <2> QED BY <1>21, <2>1
<1> QED
  BY <1>10, <1>11, <1>12, <1>13, <1>14, <1>15, <1>16, <1>17, <1>18, <1>20, <1>22 DEF RunStep

\* No step sends an outcome that was not saved.
LEMMA NextSaved ==
  ASSUME TypeOK, OneCall, SavedBeforeSent, [Next]_vars
  PROVE  SavedBeforeSent'
<1>1. CASE \E q \in net : Serve(q)
  BY <1>1, ServeSaved
<1>2. CASE \E t \in 1 .. nextTok - 1 : LeaseLapses(t)
  BY <1>2, SavedParts DEF LeaseLapses
<1>3. CASE \E i \in Item : Cancel(i) \/ Retry(i)
  BY <1>3, SavedParts DEF Cancel, Retry
<1>4. CASE \E n \in Node : Poller(n)
  BY <1>4, PollerSaved
<1>5. CASE \E n \in Node, i \in Item : RunStep(n, i)
  BY <1>5, RunStepSaved
<1>6. CASE UNCHANGED vars
  BY <1>6, SavedParts DEF vars
<1> QED BY <1>1, <1>2, <1>3, <1>4, <1>5, <1>6 DEF Next

-----------------------------------------------------------------------------
(* An outcome is decided only by the claim generation the row carries. *)

\* The row operations of the endpoints other than the three outcomes never
\* produce a succeeded or failed row, and a decided row keeps its claim token.
LEMMA DecidedByOutcome ==
  ASSUME NEW r \in RowRecord, NEW s \in RowRecord, NEW n, NEW t,
         s \in {r, ClaimRow(r, n, t), ParkForPolicy(r), Transition(r, n, t, "running")},
         s.st \in {"succeeded", "failed"}
  PROVE  s = r
<1>1. CASE s = ClaimRow(r, n, t)
  BY <1>1 DEF ClaimRow, RowRecord
<1>2. CASE s = ParkForPolicy(r)
  BY <1>2 DEF ParkForPolicy, RowRecord
<1>3. CASE s = Transition(r, n, t, "running")
  BY <1>3 DEF Transition, RowRecord
<1> QED BY <1>1, <1>2, <1>3

\* Reporting an outcome decides a row only under the token the row carries.
LEMMA OutcomeOwns ==
  ASSUME NEW r \in RowRecord, NEW n, NEW t, NEW action \in Outcome
  PROVE  LET s == AfterOutcome(r, n, t, action)
         IN s.tok = r.tok /\ (s.st # r.st => r.tok = t /\ s.st \in {"running", StatusOf(action)})
<1>1. ASSUME NEW p \in RowRecord, NEW status \in {"running", "needs_attention", "succeeded", "failed"}
      PROVE  /\ Transition(p, n, t, status).tok = p.tok
             /\ Transition(p, n, t, status).st # p.st =>
                  p.tok = t /\ Transition(p, n, t, status).st = status
  BY DEF Transition, MayTransition, OwnsWorkClaim, RowRecord
<1>2. StatusOf(action) \in {"needs_attention", "succeeded", "failed"}
  BY DEF StatusOf, Outcome
<1> DEFINE p == BeforeOutcome(r, n, t, action)
<1>3. p \in RowRecord
  BY TransitionType DEF BeforeOutcome
<1>4. p.tok = r.tok /\ (p.st # r.st => r.tok = t /\ p.st = "running")
  BY <1>1 DEF BeforeOutcome
<1>5. AfterOutcome(r, n, t, action) = Transition(p, n, t, StatusOf(action))
  BY DEF AfterOutcome
<1> HIDE DEF p
<1> QED BY <1>1, <1>2, <1>3, <1>4, <1>5

\* No step decides a row against the fence.
LEMMA NextFenced ==
  ASSUME TypeOK, SavedBeforeSent, OutcomeFenced, TypeOK', [Next]_vars
  PROVE  OutcomeFenced'
<1> SUFFICES ASSUME NEW i \in Item, NEW a \in {"complete", "fail"}, row'[i].st = StatusOf(a)
             PROVE  [item |-> i, tok |-> row'[i].tok, action |-> a] \in produced'
  BY DEF OutcomeFenced
<1>1. row[i] \in RowRecord /\ row'[i] \in RowRecord
  BY DEF TypeOK
<1>2. StatusOf(a) \in {"succeeded", "failed"}
  BY DEF StatusOf
<1>3. ASSUME row'[i].st = row[i].st, row'[i].tok = row[i].tok, produced \subseteq produced'
      PROVE  [item |-> i, tok |-> row'[i].tok, action |-> a] \in produced'
  BY <1>3 DEF OutcomeFenced
<1>4. CASE \E q \in net : Serve(q)
  <2>1. PICK q \in net : Serve(q)
    BY <1>4
  <2>2. q.item \in Item /\ row[q.item] \in RowRecord /\ produced' = produced
    BY <2>1 DEF TypeOK, Request, Serve, ServeClaim, DenyClaim, ServeRunning, ServeAttempt, ServeOutcome
  <2>3. CASE i # q.item
    <3>1. row'[i] = row[i]
      BY <2>1, <2>3 DEF TypeOK, Serve, ServeClaim, DenyClaim, ServeRunning, ServeAttempt, ServeOutcome
    <3> QED BY <1>3, <2>2, <3>1
  <2>4. CASE i = q.item /\ (ServeClaim(q) \/ DenyClaim(q) \/ ServeRunning(q))
    <3>1. \E n, t : row'[i] \in {row[i], ClaimRow(row[i], n, t), ParkForPolicy(row[i]),
                                 Transition(row[i], n, t, "running")}
      <4>1. ServeClaim(q) => row'[i] = row[i] \/ row'[i] = ClaimRow(row[i], q.node, nextTok)
        BY <2>4 DEF TypeOK, ServeClaim
      <4>2. DenyClaim(q) => row'[i] = ParkForPolicy(row[i])
        BY <2>4 DEF TypeOK, DenyClaim
      <4>3. ServeRunning(q) => row'[i] = Transition(row[i], q.node, q.tok, "running")
        BY <2>4 DEF TypeOK, ServeRunning
      <4> QED BY <2>4, <4>1, <4>2, <4>3
    <3>2. row'[i] = row[i]
      BY <1>1, <1>2, <3>1, DecidedByOutcome
    <3> QED BY <1>3, <2>2, <3>2
  <2>5. CASE i = q.item /\ ServeAttempt(q)
    <3>1. \E k : row' = [row EXCEPT ![i] = [row[i] EXCEPT !.att = k]]
      BY <2>5 DEF TypeOK, ServeAttempt
    <3>a. row'[i].st = row[i].st /\ row'[i].tok = row[i].tok
      BY <1>1, <3>1 DEF TypeOK, RowRecord
    <3> QED BY <1>3, <2>2, <3>a
  <2>6. CASE i = q.item /\ ServeOutcome(q)
    <3>1. row'[i] = AfterOutcome(row[i], q.node, q.tok, q.kind) /\ q.kind \in Outcome
      BY <2>6 DEF TypeOK, ServeOutcome
    <3>2. row'[i].tok = row[i].tok /\ (row'[i].st # row[i].st =>
             row[i].tok = q.tok /\ row'[i].st \in {"running", StatusOf(q.kind)})
      BY <1>1, <3>1, OutcomeOwns
    <3>3. StatusOf(q.kind) = StatusOf(a) => q.kind = a
      BY <3>1 DEF StatusOf, Outcome
    <3>4. [item |-> q.item, tok |-> q.tok, action |-> q.kind] \in produced
      BY <3>1 DEF SavedBeforeSent
    <3>5. CASE row'[i].st = row[i].st
      BY <1>3, <2>2, <3>2, <3>5
    <3>6. CASE row'[i].st # row[i].st
      BY <1>2, <2>2, <2>6, <3>2, <3>3, <3>4, <3>6
    <3> QED BY <3>5, <3>6
  <2> QED BY <2>1, <2>3, <2>4, <2>5, <2>6 DEF Serve
<1>5. CASE \E t \in 1 .. nextTok - 1 : LeaseLapses(t)
  BY <1>3, <1>5 DEF LeaseLapses
<1>6. CASE \E j \in Item : Cancel(j) \/ Retry(j)
  <2>1. PICK j \in Item : Cancel(j) \/ Retry(j)
    BY <1>6
  <2>2. i # j => row'[i] = row[i]
    BY <2>1 DEF Cancel, Retry, TypeOK
  <2>3. i = j => row'[i].st \in {"cancelled", "pending"}
    <3>1. i = j /\ Cancel(j) => row'[i].st = "cancelled"
      BY <1>1 DEF Cancel, TypeOK, RowRecord
    <3>2. i = j /\ Retry(j) =>
            row'[i] = [row[i] EXCEPT !.st = "pending", !.att = @ + 1, !.owner = NoNode, !.lease = FALSE]
      BY DEF Retry, TypeOK
    <3>3. i = j /\ Retry(j) => row'[i].st = "pending"
      BY <1>1, <3>2 DEF RowRecord
    <3> QED BY <2>1, <3>1, <3>3
  <2>4. produced' = produced
    BY <2>1 DEF Cancel, Retry
  <2> QED BY <1>2, <1>3, <2>2, <2>3, <2>4
<1>7. CASE \E n \in Node : Poller(n)
  <2>1. row' = row /\ produced' = produced
    BY <1>7 DEF Poller, FlushBegin, FlushReply, FlushFails, Tick, Crash, serverVars
  <2> QED BY <1>3, <2>1
<1>8. CASE \E n \in Node, j \in Item : RunStep(n, j)
  <2>1. PICK n \in Node, j \in Item : RunStep(n, j)
    BY <1>8
  <2>2. \A action : Finish(n, j, action) => produced \subseteq produced'
    BY DEF Finish
  <2>3. \A b : Checked(n, j, b) => produced \subseteq produced'
    BY <2>2 DEF Checked, Unwind
  <2>4. CASE AgentEnds(n, j)
    <3>b. row' = row \/ row' = [row EXCEPT ![j].denied = TRUE]
      BY <2>4 DEF AgentEnds
    <3>a. row'[i] = row[i] \/ row'[i] = [row[i] EXCEPT !.denied = TRUE]
      BY <3>b DEF TypeOK
    <3>1. row'[i].st = row[i].st /\ row'[i].tok = row[i].tok
      BY <1>1, <3>a DEF RowRecord
    <3>2. produced \subseteq produced'
      BY <2>2, <2>4 DEF AgentEnds
    <3> QED BY <1>3, <3>1, <3>2
  <2>5. CASE HeartbeatReply(n, j) \/ HeartbeatFails(n, j)
    <3>1. row' = row /\ produced \subseteq produced'
      BY <2>3, <2>5 DEF HeartbeatReply, HeartbeatFails, serverVars
    <3> QED BY <1>3, <3>1
  <2>6. CASE \/ ClaimReply(n, j) \/ StartReply(n, j) \/ StartFails(n, j)
             \/ AgentRetries(n, j) \/ AgentAborted(n, j) \/ ReserveReply(n, j) \/ ReserveFails(n, j)
             \/ FinishReply(n, j) \/ FinishFails(n, j) \/ CheckLease(n, j) \/ ServeHeartbeat(n, j)
             \/ DeadlineFires(n, j)
    <3>1. row' = row /\ produced' = produced
      BY <2>6 DEF ClaimReply, StartReply, StartFails, AgentRetries, AgentAborted, Unwind, ReserveReply,
                  ReserveFails, FinishReply, FinishFails, CheckLease, ServeHeartbeat, DeadlineFires,
                  serverVars
    <3> QED BY <1>3, <3>1
  <2> QED BY <2>1, <2>4, <2>5, <2>6 DEF RunStep
<1>9. CASE UNCHANGED vars
  BY <1>3, <1>9 DEF vars
<1> QED BY <1>4, <1>5, <1>6, <1>7, <1>8, <1>9 DEF Next

-----------------------------------------------------------------------------
(* The theorems. *)

\* The inductive invariant: the fence rests on outcomes being saved before they
\* are sent, which rests on a run never mistaking one call's answer for another's.
Inv == TypeOK /\ OneCall /\ SavedBeforeSent /\ OutcomeFenced

\* Initially nothing is claimed, sent, saved or running.
LEMMA InitInv == Init => Inv
<1> SUFFICES ASSUME Init PROVE Inv
  OBVIOUS
<1>1. 1 \in Attempt
  BY AttemptAssumption DEF Attempt
<1>2. [st |-> "pending", owner |-> NoNode, tok |-> NoTok, lease |-> FALSE, att |-> 1,
       denied |-> FALSE] \in RowRecord
  BY <1>1 DEF RowRecord, Status, NoTok
<1>3. NoFlush \in FlushRecord
  BY DEF NoFlush, FlushRecord, Reply
<1>4. TypeOK
  BY <1>2, <1>3, IdleType DEF Init, TypeOK
<1>5. OneCall
  BY DEF Init, OneCall
<1>6. SavedBeforeSent
  BY DEF Init, SavedBeforeSent, Idle, NoFlush
<1>7. OutcomeFenced
  BY DEF Init, OutcomeFenced, StatusOf
<1> QED BY <1>4, <1>5, <1>6, <1>7 DEF Inv

\* Inv holds in every reachable state of the work queue.
THEOREM Invariance == Spec => []Inv
<1>1. Inv /\ [Next]_vars => Inv'
  BY NextType, NextOneCall, NextSaved, NextFenced DEF Inv
<1> QED BY <1>1, InitInv, PTL DEF Spec

\* Every variable of the work queue keeps its type, and no row's attempt number
\* passes max_attempts (claimWorkItem, advanceWorkItemAttempt, retryAutomationRun).
THEOREM TypeCorrect == Spec => []TypeOK
<1>1. Inv => TypeOK
  BY DEF Inv
<1> QED BY <1>1, Invariance, PTL

\* finishWork and flushResults only ever send outcomes the outbox held.
THEOREM SavedBeforeSentHolds == Spec => []SavedBeforeSent
<1>1. Inv => SavedBeforeSent
  BY DEF Inv
<1> QED BY <1>1, Invariance, PTL

\* A row is succeeded or failed only by a result the agent of the very claim
\* the row carries produced (transitionAutomationRun under ownsWorkClaim).
THEOREM FenceHolds == Spec => []OutcomeFenced
<1>1. Inv => OutcomeFenced
  BY DEF Inv
<1> QED BY <1>1, Invariance, PTL

-----------------------------------------------------------------------------
(* A terminal outcome is final. *)

\* The row operations of the endpoints leave the status of a terminal row alone.
LEMMA TerminalKept ==
  ASSUME NEW r \in RowRecord, r.st \in Terminal, NEW n, NEW t
  PROVE  /\ ~Listed(r) /\ ParkForPolicy(r) = r
         /\ Transition(r, n, t, "running") = r
         /\ \A action \in Outcome : AfterOutcome(r, n, t, action) = r
<1>1. ~Listed(r) /\ ParkForPolicy(r) = r
  BY DEF Terminal, Listed, Reclaimable, ParkForPolicy
<1>2. \A status \in {"running", "needs_attention", "succeeded", "failed"} : r.st \notin From[status]
  BY DEF Terminal, From
<1>3. \A status \in {"running", "needs_attention", "succeeded", "failed"} : Transition(r, n, t, status) = r
  BY <1>2 DEF Transition, MayTransition
<1>4. ASSUME NEW action \in Outcome
      PROVE  AfterOutcome(r, n, t, action) = r
  <2>1. BeforeOutcome(r, n, t, action) = r
    BY <1>3 DEF BeforeOutcome
  <2>2. StatusOf(action) \in {"needs_attention", "succeeded", "failed"}
    BY DEF StatusOf, Outcome
  <2> QED BY <1>3, <2>1, <2>2 DEF AfterOutcome
<1> QED BY <1>1, <1>3, <1>4

\* A step changes the status of a terminal row only as the operator's retry.
LEMMA NextFinal ==
  ASSUME TypeOK, Next, NEW i \in Item, row[i].st \in Terminal, row'[i].st # row[i].st
  PROVE  /\ row[i].st # "cancelled" /\ row'[i].st = "pending"
         /\ row'[i].att = row[i].att + 1 /\ row'[i].owner = NoNode
<1>1. row[i] \in RowRecord
  BY DEF TypeOK
<1>2. ~\E q \in net : Serve(q)
  <2> SUFFICES ASSUME NEW q \in net, Serve(q) PROVE row'[i].st = row[i].st
    OBVIOUS
  <2>1. i # q.item => row'[i] = row[i]
    BY DEF TypeOK, Serve, ServeClaim, DenyClaim, ServeRunning, ServeAttempt, ServeOutcome
  <2>2. CASE i = q.item /\ ServeClaim(q)
    <3>1. ~Listed(row[i])
      BY <1>1, TerminalKept
    <3> QED BY <2>2, <3>1 DEF ServeClaim, TypeOK
  <2>3. CASE i = q.item /\ DenyClaim(q)
    <3>1. row'[i] = ParkForPolicy(row[i])
      BY <2>3 DEF DenyClaim, TypeOK
    <3> QED BY <1>1, <3>1, TerminalKept
  <2>4. CASE i = q.item /\ ServeRunning(q)
    <3>1. row'[i] = Transition(row[i], q.node, q.tok, "running")
      BY <2>4 DEF ServeRunning, TypeOK
    <3> QED BY <1>1, <3>1, TerminalKept
  <2>5. CASE i = q.item /\ ServeAttempt(q)
    <3>1. \E k : row' = [row EXCEPT ![i] = [row[i] EXCEPT !.att = k]]
      BY <2>5 DEF TypeOK, ServeAttempt
    <3> QED BY <1>1, <3>1 DEF TypeOK, RowRecord
  <2>6. CASE i = q.item /\ ServeOutcome(q)
    <3>1. row'[i] = AfterOutcome(row[i], q.node, q.tok, q.kind) /\ q.kind \in Outcome
      BY <2>6 DEF ServeOutcome, TypeOK
    <3> QED BY <1>1, <3>1, TerminalKept
  <2> QED BY <2>1, <2>2, <2>3, <2>4, <2>5, <2>6 DEF Serve
<1>3. ~\E t \in 1 .. nextTok - 1 : LeaseLapses(t)
  BY DEF LeaseLapses
<1>4. ~\E n \in Node : Poller(n)
  BY DEF Poller, FlushBegin, FlushReply, FlushFails, Tick, Crash, serverVars
<1>5. ~\E n \in Node, j \in Item : RunStep(n, j)
  <2> SUFFICES ASSUME NEW n \in Node, NEW j \in Item, RunStep(n, j) PROVE row'[i].st = row[i].st
    OBVIOUS
  <2>1. CASE AgentEnds(n, j)
    <3>1. row' = row \/ row' = [row EXCEPT ![j].denied = TRUE]
      BY <2>1 DEF AgentEnds
    <3>2. row'[i] = row[i] \/ row'[i] = [row[i] EXCEPT !.denied = TRUE]
      BY <3>1 DEF TypeOK
    <3> QED BY <1>1, <3>2 DEF RowRecord
  <2>2. CASE ~AgentEnds(n, j)
    <3>1. row' = row
      BY <2>2 DEF RunStep, ClaimReply, StartReply, StartFails, AgentRetries, AgentAborted, ReserveReply,
                  ReserveFails, FinishReply, FinishFails, CheckLease, ServeHeartbeat, HeartbeatReply,
                  HeartbeatFails, DeadlineFires, serverVars
    <3> QED BY <3>1
  <2> QED BY <2>1, <2>2
<1>6. PICK j \in Item : Cancel(j) \/ Retry(j)
  BY <1>2, <1>3, <1>4, <1>5 DEF Next
<1>7. j = i
  BY <1>6 DEF Cancel, Retry, TypeOK
<1>8. Retry(i)
  BY <1>6, <1>7 DEF Cancel
<1>9. row'[i] = [row[i] EXCEPT !.st = "pending", !.att = @ + 1, !.owner = NoNode, !.lease = FALSE]
  BY <1>8 DEF Retry, TypeOK
<1>10. row[i].st # "cancelled"
  BY <1>8 DEF Retry
<1> QED BY <1>1, <1>9, <1>10 DEF RowRecord

\* A cancelled run stays cancelled whatever its machine reports late, and a
\* succeeded or failed one is only ever left by retryAutomationRun.
THEOREM OutcomeFinalHolds == Spec => OutcomeFinal
<1>1. TypeOK /\ [Next]_vars =>
        [\A i \in Item : row[i].st \in Terminal /\ row'[i].st # row[i].st =>
            /\ row[i].st # "cancelled" /\ row'[i].st = "pending"
            /\ row'[i].att = row[i].att + 1 /\ row'[i].owner = NoNode]_vars
  BY NextFinal
<1> QED BY <1>1, TypeCorrect, PTL DEF Spec, OutcomeFinal
=============================================================================
