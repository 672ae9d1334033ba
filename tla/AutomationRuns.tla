---------------------------- MODULE AutomationRuns ----------------------------
(***************************************************************************)
(* The life of automation runs as docs/automation-runs.md promises it, with *)
(* no machines, calls, leases or clocks: who claims a run, how attempts are *)
(* counted and executed, what decides a run and what can reopen it.         *)
(***************************************************************************)
EXTENDS Naturals

CONSTANTS Item, MaxAttempts

VARIABLES status,   \* status[i]: where run i is in its life
          attempt,  \* attempt[i]: the number of its current attempt
          claim,    \* claim[i]: its claim generation, 0 before the first
          ran,      \* ran[i][a]: how often attempt a was executed
          results   \* the outcomes that executions came to, each under its claim

Claimed == {"claimed", "running"}
Decided == [complete |-> "succeeded", fail |-> "failed"]

Init ==
  /\ status = [i \in Item |-> "pending"] /\ attempt = [i \in Item |-> 1] /\ claim = [i \in Item |-> 0]
  /\ ran = [i \in Item |-> [a \in 1 .. MaxAttempts |-> 0]] /\ results = {}

\* Run i goes to status st, as attempt a.
Becomes(i, st, a) ==
  /\ status' = [status EXCEPT ![i] = st] /\ attempt' = [attempt EXCEPT ![i] = a]
  /\ UNCHANGED <<ran, results>>

\* A machine claims run i under a new generation.  The first claim keeps the
\* attempt; taking a claimed run over counts as one.
Claim(i) ==
  LET a == IF status[i] = "pending" THEN attempt[i] ELSE attempt[i] + 1
  IN /\ status[i] \in {"pending"} \union Claimed /\ a <= MaxAttempts
     /\ claim[i] < claim'[i] /\ claim' = [claim EXCEPT ![i] = claim'[i]]
     /\ Becomes(i, "claimed", a)

Start(i) == status[i] = "claimed" /\ Becomes(i, "running", attempt[i]) /\ UNCHANGED claim

\* The claim reserves another attempt.
Reserve(i) ==
  /\ status[i] \in Claimed /\ attempt[i] < MaxAttempts
  /\ Becomes(i, status[i], attempt[i] + 1) /\ UNCHANGED claim

\* Run i is put before a person.
Park(i) ==
  /\ status[i] \in {"pending"} \union Claimed
  /\ Becomes(i, "needs_attention", attempt[i]) /\ UNCHANGED claim

\* The outcome that the agent came to under the current claim, having executed
\* the current attempt, decides run i.
Decide(i) ==
  /\ status[i] \in Claimed \union {"needs_attention"} /\ ran[i][attempt[i]] # 0
  /\ \E outcome \in DOMAIN Decided :
       /\ [item |-> i, tok |-> claim[i], action |-> outcome] \in results
       /\ Becomes(i, Decided[outcome], attempt[i])
  /\ UNCHANGED claim

Cancel(i) ==
  /\ status[i] \in {"pending", "needs_attention"} \union Claimed
  /\ Becomes(i, "cancelled", attempt[i]) /\ UNCHANGED claim

\* The operator reopens a run that is neither active nor cancelled, as a new attempt.
Retry(i) ==
  /\ status[i] \in {"needs_attention", "succeeded", "failed"} /\ attempt[i] < MaxAttempts
  /\ Becomes(i, "pending", attempt[i] + 1) /\ UNCHANGED claim

\* The agent executes attempt a, which was issued and never executed before.
Execute(i, a) ==
  /\ a <= attempt[i] /\ ran[i][a] = 0 /\ ran' = [ran EXCEPT ![i][a] = 1]
  /\ UNCHANGED <<status, attempt, claim, results>>

\* An execution comes to the one outcome of its claim.
Report ==
  /\ \E x \in results' \ results :
       /\ results' = results \union {x}
       /\ x.tok <= claim[x.item] /\ \E a \in 1 .. attempt[x.item] : ran[x.item][a] # 0
       /\ \A y \in results : y.item = x.item => y.tok # x.tok
  /\ UNCHANGED <<status, attempt, claim, ran>>

vars == <<status, attempt, claim, ran, results>>

\* Most steps of an implementation are none of a run's life.  (Spec allows them
\* anyway; listed first, TLC tries this disjunct first.)
Aside == UNCHANGED vars

Next ==
  \/ Aside
  \/ \E i \in Item : Claim(i) \/ Start(i) \/ Reserve(i) \/ Park(i) \/ Decide(i) \/ Cancel(i) \/ Retry(i)
  \/ \E i \in Item : \E a \in 1 .. MaxAttempts : Execute(i, a)
  \/ Report

Spec == Init /\ [][Next]_vars
=============================================================================
