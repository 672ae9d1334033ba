------------------------- MODULE AutomationRunProofs -------------------------
(***************************************************************************)
(* The hosted queue implements the documented life of automation runs, for *)
(* every value of the constants: WorkQueue refines AutomationRuns.         *)
(***************************************************************************)
EXTENDS WorkQueueClaimProofs

-----------------------------------------------------------------------------
(* The invariant: a machine that runs the agent knows the number of the    *)
(* attempt, unless it has asked for the next one.                          *)

\* Token t is that of the claim row i carries.
Current(i, t) == row[i].tok = t /\ row[i].owner # NoNode

\* A run that has not asked for another attempt, or was granted it.
Settling(r) == r.pc \in {"claiming", "starting", "agent"}
Certain(r) == Settling(r) \/ (r.pc = "reserving" /\ r.reply = "ok")
Executing(r) == r.pc \in {"agent", "reserving", "checking"}

\* Of a run's reservations, those on their way are older than what it executes.
Older(q, r) == r.tok = q.tok /\ r.tok # NoTok => q.att <= r.att /\ (Settling(r) => q.att < r.att)
Reservations ==
  \A q \in net : q.tok < nextTok /\ (q.kind = "attempt" => \A n \in Node : Older(q, run[n][q.item]))

\* A run executes the attempt that its row carries.
Attempts ==
  \A n \in Node, i \in Item : Held(n, i) =>
    /\ run[n][i].att \in Attempt
    /\ Executing(run[n][i]) => execs[i][run[n][i].att] # 0
    /\ Certain(run[n][i]) /\ Current(i, run[n][i].tok) => row[i].att = Top(run[n][i])

\* The attempt a result was reported for was executed, and stays the row's.
Reported(x) ==
  /\ execs[x.item][row[x.item].att] # 0
  /\ \A q \in net : q.kind = "attempt" /\ q.item = x.item /\ q.tok = x.tok => q.att < row[x.item].att
Reports ==
  \A x \in produced : x.action # "needs-attention" /\ Current(x.item, x.tok) => Reported(x)

Numbering == Reservations /\ Attempts /\ Reports

-----------------------------------------------------------------------------
(* Steps that reserve nothing and start no agent. *)

\* Run r goes on as x under its number.
Follows(x, r) ==
  /\ x.tok = r.tok /\ x.att = r.att
  /\ Settling(x) => Settling(r)
  /\ x.pc = "reserving" /\ x.reply = "ok" => r.pc = "reserving" /\ r.reply = "ok"
  /\ Executing(x) => Executing(r)

\* A request that was under way, or reserves nothing.
Again(q) ==
  /\ q.tok < nextTok
  /\ q.kind = "attempt" => \E p \in net : p.kind = "attempt" /\ p.item = q.item /\ p.tok = q.tok /\ p.att = q.att

\* The reservation that a run asks for in this step.
Asking(q) ==
  \E n \in Node :
    /\ q.item \in Item /\ Held(n, q.item) /\ q.kind = "attempt"
    /\ q.tok = run[n][q.item].tok /\ q.att = run[n][q.item].att /\ run[n][q.item].pc # "finishing"
    /\ run'[n][q.item].pc = "reserving" /\ run'[n][q.item].tok = q.tok /\ run'[n][q.item].att = q.att

\* The result that a run reports in this step.
Reporting(x) ==
  \E n \in Node :
    /\ x.item \in Item /\ Held(n, x.item) /\ run[n][x.item].pc = "agent"
    /\ x.tok = run[n][x.item].tok /\ run'[n][x.item].pc = "finishing"

\* What the types say of the numbers compared here.
LEMMA RequestTypes ==
  ASSUME TypeOK
  PROVE  /\ nextTok \in Nat
         /\ \A q \in net : q.tok \in Nat /\ q.att \in Nat /\ q.node \in Node /\ q.item \in Item
         /\ \A x \in produced : x.item \in Item /\ x.tok \in Nat
         /\ \A i \in Item : row[i].tok \in Nat /\ row[i].att \in Nat /\ row[i].att \in Attempt
         /\ \A n \in Node, i \in Item : run[n][i].tok \in Nat /\ run[n][i].att \in Nat /\ Top(run[n][i]) \in Nat
  <1>1. \A q \in net : q.tok \in Nat /\ q.att \in Nat /\ q.node \in Node /\ q.item \in Item  BY DEF TypeOK, Request
  <1>2. \A x \in produced : x.item \in Item /\ x.tok \in Nat  BY DEF TypeOK, Result
  <1>3. \A i \in Item : row[i].att \in Attempt  BY DEF TypeOK, RowRecord
  <1>4. /\ \A i \in Item : row[i].tok \in Nat /\ row[i].att \in Nat
        /\ \A n \in Node, i \in Item : run[n][i].tok \in Nat /\ run[n][i].att \in Nat /\ Top(run[n][i]) \in Nat
    BY NumberTypes DEF TypeOK
  <1> QED  BY <1>1, <1>2, <1>3, <1>4 DEF TypeOK

\* A run that follows is as certain of its number as before.
LEMMA FollowsTop ==
  ASSUME NEW x, NEW r, Follows(x, r), Certain(x)
  PROVE  Certain(r) /\ Top(x) = Top(r)
  <1>1. CASE Settling(x)  BY <1>1 DEF Follows, Certain, Settling, Top
  <1>2. CASE x.pc = "reserving" /\ x.reply = "ok"  BY <1>2 DEF Follows, Certain, Top
  <1> QED  BY <1>1, <1>2 DEF Certain

\* Two machines never hold the same token.
LEMMA SameToken ==
  ASSUME Claims, NEW n \in Node, NEW m \in Node, NEW i \in Item, Held(n, i), run[n][i].tok = run[m][i].tok
  PROVE  n = m
  BY DEF Claims, Tokens

\* A step in which rows keep their numbers, runs follow, and only such requests
\* and results are new as are due keeps the numbering.
LEMMA QuietStep ==
  ASSUME TypeOK, TypeOK', Claims, Claims', Numbering,
         \A i \in Item : /\ row'[i].tok = row[i].tok
                         /\ row'[i].owner # NoNode => row'[i].owner = row[i].owner /\ row'[i].att = row[i].att,
         \A n \in Node, i \in Item : run'[n][i].tok = NoTok \/ Follows(run'[n][i], run[n][i]),
         \A q \in net' : Again(q) \/ Asking(q),
         \A x \in produced' : x \in produced \/ x.action = "needs-attention" \/ Reporting(x),
         nextTok' = nextTok, execs' = execs
  PROVE  Numbering'
  <1>t. /\ nextTok \in Nat
        /\ \A q \in net : q.tok \in Nat /\ q.att \in Nat /\ q.node \in Node /\ q.item \in Item
        /\ \A i \in Item : row[i].tok \in Nat /\ row[i].att \in Nat
        /\ \A n \in Node, i \in Item : run[n][i].tok \in Nat /\ run[n][i].att \in Nat
    BY RequestTypes
  <1>p. /\ \A q \in net' : q.tok \in Nat /\ q.att \in Nat /\ q.item \in Item
        /\ \A x \in produced' : x.item \in Item
    <2>1. (nextTok \in Nat)'  BY DEF TypeOK
    <2>2. \A q \in net' : q \in Request  BY DEF TypeOK
    <2>3. \A x \in produced' : x \in Result  BY DEF TypeOK
    <2> QED  BY <2>2, <2>3 DEF Request, Result
  <1>n. \A i \in Item : \A t : Current(i, t)' => Current(i, t) /\ row'[i].att = row[i].att  BY DEF Current
  <1>1. Reservations'
    <2> SUFFICES ASSUME NEW q \in net'
                 PROVE  q.tok < nextTok' /\ (q.kind = "attempt" => \A n \in Node : Older(q, run'[n][q.item]))
      BY DEF Reservations
    <2>1. CASE Again(q)
      <3>1. q.tok < nextTok'  BY <2>1 DEF Again
      <3>2. ASSUME q.kind = "attempt", NEW n \in Node PROVE Older(q, run'[n][q.item])
        <4>1. PICK p \in net : p.kind = "attempt" /\ p.item = q.item /\ p.tok = q.tok /\ p.att = q.att
          BY <2>1, <3>2 DEF Again
        <4>2. Older(p, run[n][q.item])  BY <4>1 DEF Numbering, Reservations
        <4>3. run'[n][q.item].tok = NoTok \/ Follows(run'[n][q.item], run[n][q.item])  BY <1>p
        <4> QED  BY <4>1, <4>2, <4>3 DEF Older, Follows
      <3> QED  BY <3>1, <3>2
    <2>2. CASE Asking(q)
      <3>1. PICK n \in Node : /\ Held(n, q.item) /\ q.tok = run[n][q.item].tok /\ q.att = run[n][q.item].att
                              /\ run'[n][q.item].pc = "reserving" /\ run'[n][q.item].tok = q.tok
                              /\ run'[n][q.item].att = q.att
        BY <2>2 DEF Asking
      <3>2. q.tok < nextTok
        <4>1. run[n][q.item].tok <= row[q.item].tok /\ row[q.item].tok < nextTok
          BY <1>p DEF Claims, Tokens
        <4> QED  BY <3>1, <4>1, <1>t, <1>p
      <3>3. Older(q, run'[n][q.item])  BY <3>1, <1>p DEF Older, Settling
      <3>4. ASSUME NEW m \in Node, m # n PROVE Older(q, run'[m][q.item])
        <4>1. run'[m][q.item].tok = NoTok \/ run'[m][q.item].tok = run[m][q.item].tok  BY <1>p DEF Follows
        <4>2. run[m][q.item].tok # run[n][q.item].tok  BY <3>1, <3>4, <1>p, SameToken
        <4> QED  BY <4>1, <4>2, <3>1 DEF Older
      <3> QED  BY <3>2, <3>3, <3>4
    <2> QED  BY <2>1, <2>2
  <1>2. Attempts'
    <2> SUFFICES ASSUME NEW n \in Node, NEW i \in Item, Held(n, i)'
                 PROVE  /\ run'[n][i].att \in Attempt
                        /\ Executing(run'[n][i]) => execs[i][run'[n][i].att] # 0
                        /\ Certain(run'[n][i]) /\ Current(i, run[n][i].tok)' => row'[i].att = Top(run'[n][i])
      BY DEF Attempts, Attempt
    <2>1. Follows(run'[n][i], run[n][i]) /\ Held(n, i)  BY DEF Held, Follows
    <2>2. /\ run[n][i].att \in Attempt
          /\ Executing(run[n][i]) => execs[i][run[n][i].att] # 0
          /\ Certain(run[n][i]) /\ Current(i, run[n][i].tok) => row[i].att = Top(run[n][i])
      BY <2>1 DEF Numbering, Attempts
    <2>3. ASSUME Certain(run'[n][i]), Current(i, run[n][i].tok)' PROVE row'[i].att = Top(run'[n][i])
      <3>1. Certain(run[n][i]) /\ Top(run'[n][i]) = Top(run[n][i])  BY <2>1, <2>3, FollowsTop
      <3>2. Current(i, run[n][i].tok) /\ row'[i].att = row[i].att  BY <2>1, <2>3, <1>n DEF Follows, Current
      <3> QED  BY <3>1, <3>2, <2>2
    <2> QED  BY <2>1, <2>2, <2>3 DEF Follows
  <1>3. Reports'
    <2> SUFFICES ASSUME NEW x \in produced', x.action # "needs-attention", Current(x.item, x.tok)'
                 PROVE  /\ execs[x.item][row'[x.item].att] # 0
                        /\ \A q \in net' : q.kind = "attempt" /\ q.item = x.item /\ q.tok = x.tok => q.att < row'[x.item].att
      BY DEF Reports, Reported
    <2>1. Current(x.item, x.tok) /\ row'[x.item].att = row[x.item].att /\ x.item \in Item  BY <1>n, <1>p
    <2>2. CASE x \in produced
      <3>1. Reported(x)  BY <2>1, <2>2 DEF Numbering, Reports
      <3>2. ASSUME NEW q \in net', q.kind = "attempt", q.item = x.item, q.tok = x.tok
            PROVE  q.att < row[x.item].att
        <4>1. CASE Again(q)  BY <4>1, <3>1, <3>2 DEF Again, Reported
        <4>2. CASE Asking(q)
          <5>1. PICK n \in Node : /\ Held(n, q.item) /\ q.tok = run[n][q.item].tok
                                  /\ run[n][q.item].pc # "finishing"
            BY <4>2 DEF Asking
          <5>2. HasNoResult(q.item, run[n][q.item].tok)  BY <5>1, <1>p DEF Claims, Sole
          <5> QED  BY <5>1, <5>2, <3>2, <2>2 DEF HasNoResult
        <4> QED  BY <4>1, <4>2
      <3> QED  BY <3>1, <3>2, <2>1 DEF Reported
    <2>3. CASE x \notin produced
      <3>1. PICK n \in Node : /\ Held(n, x.item) /\ run[n][x.item].pc = "agent"
                              /\ x.tok = run[n][x.item].tok /\ run'[n][x.item].pc = "finishing"
        BY <2>3 DEF Reporting
      <3>2. Certain(run[n][x.item]) /\ Executing(run[n][x.item]) /\ Settling(run[n][x.item])
            /\ Top(run[n][x.item]) = run[n][x.item].att
        BY <3>1 DEF Certain, Executing, Settling, Top
      <3>3. row[x.item].att = run[n][x.item].att /\ execs[x.item][run[n][x.item].att] # 0
        BY <3>1, <3>2, <2>1 DEF Numbering, Attempts
      <3>4. ASSUME NEW q \in net', q.kind = "attempt", q.item = x.item, q.tok = x.tok
            PROVE  q.att < row[x.item].att
        <4>1. CASE Again(q)
          <5>1. PICK p \in net : p.kind = "attempt" /\ p.item = q.item /\ p.tok = q.tok /\ p.att = q.att
            BY <4>1, <3>4 DEF Again
          <5>2. Older(p, run[n][x.item])  BY <5>1, <3>4 DEF Numbering, Reservations
          <5> QED  BY <5>1, <5>2, <3>1, <3>2, <3>3, <3>4 DEF Older, Held
        <4>2. CASE Asking(q)
          <5>1. PICK m \in Node : /\ Held(m, q.item) /\ q.tok = run[m][q.item].tok
                                  /\ run'[m][q.item].pc = "reserving"
            BY <4>2 DEF Asking
          <5>2. m = n  BY <5>1, <3>1, <3>4, <2>1, SameToken
          <5> QED  BY <5>1, <5>2, <3>1, <3>4
        <4> QED  BY <4>1, <4>2
      <3> QED  BY <3>3, <3>4, <2>1
    <2> QED  BY <2>2, <2>3
  <1> QED  BY <1>1, <1>2, <1>3 DEF Numbering

-----------------------------------------------------------------------------
(* What steps do to requests, rows and runs. *)

\* A request under way stays one, abandoned or not.
LEMMA AbandonAgain ==
  ASSUME TypeOK, Numbering, NEW qs \in SUBSET net, NEW net1 \in Abandon(qs)
  PROVE  \A q \in net1 : Again(q)
  <1>1. ASSUME NEW q \in net PROVE Again(q) /\ Again([q EXCEPT !.by = "late"])
    <2> DEFINE p == [q EXCEPT !.by = "late"]
    <2>1. q \in Request  BY DEF TypeOK
    <2>2. p.kind = q.kind /\ p.item = q.item /\ p.tok = q.tok /\ p.att = q.att  BY <2>1 DEF Request
    <2>3. q.tok < nextTok  BY DEF Numbering, Reservations
    <2> HIDE DEF p
    <2>4. Again(q) /\ Again(p)  BY <2>2, <2>3 DEF Again
    <2> QED  BY <2>4 DEF p
  <1>2. \A q \in net1 : q \in net \/ \E p \in net : q = [p EXCEPT !.by = "late"]  BY DEF Abandon
  <1> QED  BY <1>1, <1>2

\* A flush sends saved results, whose claims were granted.
LEMMA FlushAgain ==
  ASSUME TypeOK, Claims, NEW n \in Node, NEW todo \in SUBSET produced,
         NEW net1, \A q \in net1 : Again(q), FlushNext(n, todo, net1)
  PROVE  \A q \in net' : Again(q)
  <1>1. ASSUME NEW r \in todo PROVE Again(Req(n, r.item, r.action, r.tok, 0, "flush"))
    <2>1. r \in Result /\ r.tok < nextTok  BY DEF TypeOK, Claims, Tokens
    <2>2. r.action # "attempt"  BY <2>1 DEF Result, Outcome
    <2> QED  BY <2>1, <2>2 DEF Again, Req
  <1> QED  BY <1>1 DEF FlushNext

\* The row operations other than a claim, a reservation and a retry keep the numbers.
LEMMA RowKeeps ==
  ASSUME NEW r \in RowRecord, NEW n, NEW t, NEW s,
         s \in {r, ParkForPolicy(r)} \/ \E status : s = Transition(r, n, t, status)
  PROVE  s.tok = r.tok /\ s.owner = r.owner /\ s.att = r.att
  BY DEF ParkForPolicy, Transition, RowRecord

\* So does an outcome, which may walk the row through running first.
LEMMA OutcomeRowKeeps ==
  ASSUME NEW r \in RowRecord, NEW n, NEW t, NEW action \in Outcome
  PROVE  LET s == AfterOutcome(r, n, t, action)
         IN s.tok = r.tok /\ s.owner = r.owner /\ s.att = r.att
  <1> DEFINE z == BeforeOutcome(r, n, t, action)
  <1>1. z \in RowRecord  BY TransitionType DEF BeforeOutcome
  <1>2. z.tok = r.tok /\ z.owner = r.owner /\ z.att = r.att  BY RowKeeps DEF BeforeOutcome
  <1>3. AfterOutcome(r, n, t, action) = Transition(z, n, t, StatusOf(action))  BY DEF AfterOutcome
  <1> HIDE DEF z
  <1> QED  BY <1>1, <1>2, <1>3, RowKeeps

\* An answer that grants nothing new leaves the runs where they are.
LEMMA AnswerFollows ==
  ASSUME TypeOK, OneCall, Claims, NEW q \in net, NEW ans \in {"ok", "no"}, Answered(q, ans),
         q.kind \in {"claim", "attempt"} => ans = "no" \/ q.by # "run",
         q.kind \in {"claim", "running", "attempt"} \union Outcome
  PROVE  \A n \in Node, i \in Item : run'[n][i].tok = NoTok \/ Follows(run'[n][i], run[n][i])
  <1> DEFINE r == run[q.node][q.item]
             x == [r EXCEPT !.reply = ans]
  <1>1. \A n \in Node, i \in Item : Follows(run[n][i], run[n][i])  BY DEF Follows
  <1>2. CASE q.by # "run"
    <2>1. run' = run  BY <1>2 DEF Answered
    <2> QED  BY <2>1, <1>1
  <1>3. CASE q.by = "run"
    <2>1. /\ q.node \in Node /\ q.item \in Item /\ r \in RunRecord
          /\ q.kind = "claim" => r.tok = NoTok
          /\ q.kind = "running" => r.pc = "starting"
          /\ q.kind = "attempt" => r.pc = "reserving"
          /\ q.kind \in Outcome => r.pc = "finishing"
      BY <1>3, AwaitedRun
    <2>2. run' = [run EXCEPT ![q.node][q.item].reply = ans]  BY <1>3 DEF Answered
    <2>3. /\ run'[q.node][q.item] = x
          /\ \A n \in Node, i \in Item : n # q.node \/ i # q.item => run'[n][i] = run[n][i]
      BY <2>1, <2>2 DEF TypeOK
    <2>4. x.pc = r.pc /\ x.tok = r.tok /\ x.att = r.att /\ x.reply = ans  BY <2>1 DEF RunRecord
    <2> HIDE DEF x
    <2>5. x.tok = NoTok \/ Follows(x, r)  BY <2>1, <2>4, <1>3 DEF Follows, Settling, Executing
    <2> QED  BY <2>3, <2>5, <1>1
  <1> QED  BY <1>2, <1>3

\* One run goes on or ends; the rows keep their numbers.
LEMMA OneFollows ==
  ASSUME TypeOK, TypeOK', Claims, Claims', Numbering, NEW n \in Node, NEW i \in Item, NEW x,
         run' = [run EXCEPT ![n][i] = x], x.tok = NoTok \/ Follows(x, run[n][i]),
         row' = row \/ row' = [row EXCEPT ![i].denied = TRUE],
         \A q \in net' : Again(q) \/ Asking(q),
         \A z \in produced' : z \in produced \/ z.action = "needs-attention" \/ Reporting(z),
         nextTok' = nextTok, execs' = execs
  PROVE  Numbering'
  <1>1. run'[n][i] = x /\ \A m \in Node, j \in Item : m # n \/ j # i => run'[m][j] = run[m][j]
    BY DEF TypeOK
  <1>2. \A m \in Node, j \in Item : run'[m][j].tok = NoTok \/ Follows(run'[m][j], run[m][j])
    BY <1>1 DEF Follows
  <1>3. \A j \in Item : row'[j].tok = row[j].tok /\ row'[j].owner = row[j].owner /\ row'[j].att = row[j].att
    <2> TAKE j \in Item
    <2>1. row[j] \in RowRecord  BY DEF TypeOK
    <2>2. row'[j] = row[j] \/ row'[j] = [row[j] EXCEPT !.denied = TRUE]  BY DEF TypeOK
    <2> QED  BY <2>1, <2>2 DEF RowRecord
  <1> QED  BY <1>2, <1>3, QuietStep

-----------------------------------------------------------------------------
(* The store. *)

\* POST claim, granted: nothing yet bears the new token.
LEMMA GrantNumbering ==
  ASSUME TypeOK, OneCall, Claims, Numbering, NEW q \in net, ServeClaim(q),
         Listed(row[q.item]), ClaimAttempt(row[q.item]) <= MaxAttempts
  PROVE  Numbering'
  <1> DEFINE n == q.node
             i == q.item
             A == ClaimAttempt(row[i])
  <1>0. n \in Node /\ i \in Item  BY RequestTypes
  <1>t. /\ nextTok \in Nat
        /\ \A p \in net : p.tok \in Nat /\ p.item \in Item
        /\ \A x \in produced : x.item \in Item /\ x.tok \in Nat
        /\ \A j \in Item : row[j].tok \in Nat /\ row[j].att \in Attempt
        /\ \A m \in Node, j \in Item : run[m][j].tok \in Nat
    BY RequestTypes
  <1>e. /\ row'[i].tok = nextTok /\ row'[i].att = A /\ \A j \in Item : j # i => row'[j] = row[j]
        /\ nextTok' = nextTok + 1 /\ net' = net \ {q} /\ produced' = produced /\ execs' = execs
        /\ \A m \in Node, j \in Item : m # n \/ j # i => run'[m][j] = run[m][j]
        /\ \/ run'[n][i] = run[n][i]
           \/ /\ run'[n][i].pc = "claiming" /\ run'[n][i].reply = "ok"
              /\ run'[n][i].tok = nextTok /\ run'[n][i].att = A
    BY GrantEffect
  <1>a. A \in Attempt  BY <1>0, <1>t, AttemptAssumption DEF ClaimAttempt, Attempt
  <1>l. /\ \A m \in Node, j \in Item : run[m][j].tok < nextTok
        /\ \A x \in produced : x.tok < nextTok
        /\ \A p \in net : p.tok < nextTok
    <2>1. \A m \in Node, j \in Item : run[m][j].tok <= row[j].tok /\ row[j].tok < nextTok
      BY DEF Claims, Tokens
    <2> QED  BY <2>1, <1>t DEF Claims, Tokens, Numbering, Reservations
  <1> HIDE DEF A
  <1>r. \A m \in Node, j \in Item :
          \/ run'[m][j] = run[m][j]
          \/ /\ j = i /\ run'[m][j].pc = "claiming" /\ run'[m][j].reply = "ok"
             /\ run'[m][j].tok = nextTok /\ run'[m][j].att = A
    BY <1>e
  <1>1. Reservations'
    <2> SUFFICES ASSUME NEW p \in net'
                 PROVE  p.tok < nextTok' /\ (p.kind = "attempt" => \A m \in Node : Older(p, run'[m][p.item]))
      BY DEF Reservations
    <2>1. p \in net /\ p.tok < nextTok /\ p.tok \in Nat /\ p.item \in Item  BY <1>e, <1>l, <1>t
    <2>2. ASSUME p.kind = "attempt", NEW m \in Node PROVE Older(p, run'[m][p.item])
      <3>1. CASE run'[m][p.item] = run[m][p.item]  BY <2>1, <2>2, <3>1 DEF Numbering, Reservations
      <3>2. CASE run'[m][p.item].tok = nextTok  BY <2>1, <3>2, <1>t DEF Older
      <3> QED  BY <2>1, <3>1, <3>2, <1>r
    <2> QED  BY <2>1, <2>2, <1>e, <1>t
  <1>2. Attempts'
    <2> SUFFICES ASSUME NEW m \in Node, NEW j \in Item, Held(m, j)'
                 PROVE  /\ run'[m][j].att \in Attempt
                        /\ Executing(run'[m][j]) => execs[j][run'[m][j].att] # 0
                        /\ Certain(run'[m][j]) /\ Current(j, run[m][j].tok)' => row'[j].att = Top(run'[m][j])
      BY <1>e DEF Attempts, Attempt
    <2>1. CASE run'[m][j] = run[m][j]
      <3>1. Held(m, j)  BY <2>1 DEF Held
      <3>2. /\ run[m][j].att \in Attempt
            /\ Executing(run[m][j]) => execs[j][run[m][j].att] # 0
            /\ Certain(run[m][j]) /\ Current(j, run[m][j].tok) => row[j].att = Top(run[m][j])
        BY <3>1 DEF Numbering, Attempts
      <3>3. Current(j, run[m][j].tok)' => j # i /\ Current(j, run[m][j].tok) /\ row'[j] = row[j]
        BY <2>1, <1>e, <1>l, <1>t DEF Current
      <3> QED  BY <2>1, <3>2, <3>3
    <2>2. CASE j = i /\ run'[m][j].pc = "claiming" /\ run'[m][j].reply = "ok" /\ run'[m][j].att = A
      BY <2>2, <1>a, <1>e DEF Executing, Top
    <2> QED  BY <2>1, <2>2, <1>r
  <1>3. Reports'
    <2> SUFFICES ASSUME NEW x \in produced', x.action # "needs-attention", Current(x.item, x.tok)'
                 PROVE  /\ execs[x.item][row'[x.item].att] # 0
                        /\ \A p \in net' : p.kind = "attempt" /\ p.item = x.item /\ p.tok = x.tok => p.att < row'[x.item].att
      BY <1>e DEF Reports, Reported
    <2>1. x \in produced /\ x.item \in Item /\ x.tok < nextTok /\ x.tok \in Nat  BY <1>e, <1>l, <1>t
    <2>2. x.item # i /\ row'[x.item] = row[x.item]  BY <2>1, <1>e, <1>t DEF Current
    <2>3. Current(x.item, x.tok)  BY <2>2 DEF Current
    <2>4. Reported(x)  BY <2>1, <2>3 DEF Numbering, Reports
    <2> QED  BY <2>2, <2>4, <1>e DEF Reported
  <1> QED  BY <1>1, <1>2, <1>3 DEF Numbering
\* A request under way is one.
LEMMA NetAgain ==
  ASSUME Numbering, NEW q \in net
  PROVE  Again(q)
  BY DEF Numbering, Reservations, Again

\* POST attempt, granted: a repeated reservation moves the row on no further, so
\* whoever executed or reported under the row's number still does.
LEMMA ReservedNumbering ==
  ASSUME TypeOK, OneCall, Claims, Numbering, NEW q \in net, ServeAttempt(q),
         MayAdvance(row[q.item], q.node, q.tok, q.att)
  PROVE  Numbering'
  <1> DEFINE n == q.node
             i == q.item
  <1>0. n \in Node /\ i \in Item /\ row[i] \in RowRecord  BY RequestTypes DEF TypeOK
  <1>t. /\ nextTok \in Nat
        /\ \A p \in net : p.tok \in Nat /\ p.att \in Nat /\ p.item \in Item
        /\ \A x \in produced : x.item \in Item /\ x.tok \in Nat
        /\ \A j \in Item : row[j].tok \in Nat /\ row[j].att \in Nat
        /\ \A m \in Node, j \in Item : run[m][j].tok \in Nat /\ run[m][j].att \in Nat /\ Top(run[m][j]) \in Nat
    BY RequestTypes
  <1>m. row[i].tok = q.tok /\ (row[i].att = q.att \/ row[i].att = q.att + 1)
    BY DEF MayAdvance, OwnsWorkClaim
  <1>1. /\ row' = [row EXCEPT ![i].att = q.att + 1] /\ Answered(q, "ok") /\ net' = net \ {q}
        /\ nextTok' = nextTok /\ produced' = produced /\ execs' = execs
    BY DEF ServeAttempt, Yes, Answered
  <1>2. /\ row'[i].att = q.att + 1 /\ row'[i].tok = row[i].tok /\ row'[i].owner = row[i].owner
        /\ \A j \in Item : j # i => row'[j] = row[j]
    <2> HIDE DEF i
    <2> QED  BY <1>0, <1>1 DEF TypeOK, RowRecord
  <1>3. \A m \in Node, j \in Item :
          \/ run'[m][j] = run[m][j]
          \/ /\ m = n /\ j = i /\ run[n][i].pc = "reserving" /\ run'[n][i].pc = "reserving"
             /\ run'[n][i].reply = "ok"
             /\ run'[n][i].tok = q.tok /\ run[n][i].tok = q.tok
             /\ run'[n][i].att = q.att /\ run[n][i].att = q.att
    <2>1. CASE q.by # "run"
      <3>1. run' = run  BY <1>1, <2>1 DEF Answered
      <3> QED  BY <3>1
    <2>2. CASE q.by = "run"
      <3> DEFINE r == run[n][i]
                 x == [r EXCEPT !.reply = "ok"]
      <3>1. r \in RunRecord /\ r.pc = "reserving" /\ q.tok = r.tok /\ q.att = r.att
        BY <2>2, AwaitedRun DEF ServeAttempt
      <3>2. run' = [run EXCEPT ![n][i].reply = "ok"]  BY <1>1, <2>2 DEF Answered
      <3>3. run'[n][i] = x /\ \A m \in Node, j \in Item : m # n \/ j # i => run'[m][j] = run[m][j]
        BY <1>0, <3>2 DEF TypeOK
      <3> HIDE DEF r
      <3>4. x.pc = "reserving" /\ x.reply = "ok" /\ x.tok = r.tok /\ x.att = r.att  BY <3>1 DEF RunRecord
      <3> HIDE DEF x
      <3> QED  BY <3>1, <3>3, <3>4 DEF r
    <2> QED  BY <2>1, <2>2
  <1>s. ASSUME NEW m \in Node, Held(m, i), Certain(run[m][i]), Current(i, run[m][i].tok)
        PROVE  row[i].att = q.att + 1 /\ Top(run[m][i]) = q.att + 1
    <2>1. row[i].att = Top(run[m][i])  BY <1>0, <1>s DEF Numbering, Attempts
    <2>2. Older(q, run[m][i])  BY <1>0 DEF Numbering, Reservations, ServeAttempt
    <2>3. q.att <= run[m][i].att /\ (Settling(run[m][i]) => q.att < run[m][i].att)
      BY <1>m, <1>s, <2>2 DEF Older, Current, Held
    <2>4. q.att < Top(run[m][i])
      <3>1. CASE Settling(run[m][i])  BY <3>1, <2>3 DEF Settling, Top
      <3>2. CASE run[m][i].pc = "reserving" /\ run[m][i].reply = "ok"
        <4>1. Top(run[m][i]) = run[m][i].att + 1  BY <3>2 DEF Top
        <4> QED  BY <4>1, <2>3, <1>0, <1>t
      <3> QED  BY <3>1, <3>2, <1>s DEF Certain
    <2> QED  BY <2>1, <2>4, <1>0, <1>m, <1>t
  <1>4. \A j \in Item : \A t : Current(j, t)' => Current(j, t)  BY <1>2 DEF Current
  <1> HIDE DEF n, i
  <1>5. Reservations'
    <2> SUFFICES ASSUME NEW p \in net'
                 PROVE  p.tok < nextTok' /\ (p.kind = "attempt" => \A m \in Node : Older(p, run'[m][p.item]))
      BY DEF Reservations
    <2>1. p \in net /\ p.tok < nextTok /\ p.item \in Item  BY <1>1, <1>t DEF Numbering, Reservations
    <2>2. ASSUME p.kind = "attempt", NEW m \in Node PROVE Older(p, run'[m][p.item])
      <3>1. Older(p, run[m][p.item])  BY <2>1, <2>2 DEF Numbering, Reservations
      <3>2. CASE run'[m][p.item] = run[m][p.item]  BY <3>1, <3>2
      <3>3. CASE /\ run'[m][p.item].pc = "reserving" /\ run'[m][p.item].tok = run[m][p.item].tok
                 /\ run'[m][p.item].att = run[m][p.item].att
        BY <3>1, <3>3 DEF Older, Settling
      <3> QED  BY <2>1, <3>2, <3>3, <1>3
    <2> QED  BY <2>1, <2>2, <1>1
  <1>6. Attempts'
    <2> SUFFICES ASSUME NEW m \in Node, NEW j \in Item, Held(m, j)'
                 PROVE  /\ run'[m][j].att \in Attempt
                        /\ Executing(run'[m][j]) => execs[j][run'[m][j].att] # 0
                        /\ Certain(run'[m][j]) /\ Current(j, run[m][j].tok)' => row'[j].att = Top(run'[m][j])
      BY <1>1 DEF Attempts, Attempt
    <2>0. Held(m, j)  BY <1>3 DEF Held
    <2>1. /\ run[m][j].att \in Attempt
          /\ Executing(run[m][j]) => execs[j][run[m][j].att] # 0
          /\ Certain(run[m][j]) /\ Current(j, run[m][j].tok) => row[j].att = Top(run[m][j])
      BY <2>0 DEF Numbering, Attempts
    <2>2. CASE run'[m][j] = run[m][j]
      <3>1. CASE j # i  BY <2>1, <2>2, <3>1, <1>2, <1>4
      <3>2. CASE j = i
        <4>1. ASSUME Certain(run[m][i]), Current(i, run[m][i].tok)  PROVE Top(run[m][i]) = q.att + 1
          BY <2>0, <3>2, <4>1, <1>s
        <4>2. Current(j, run[m][j].tok)' => Current(i, run[m][i].tok)  BY <2>2, <3>2, <1>4
        <4>3. Certain(run[m][i]) /\ Current(i, run[m][i].tok) => row'[i].att = Top(run[m][i])  BY <4>1, <1>2
        <4> QED  BY <4>2, <4>3, <2>1, <2>2, <3>2
      <3> QED  BY <3>1, <3>2
    <2>3. CASE /\ j = i /\ run[m][j].pc = "reserving" /\ run'[m][j].pc = "reserving"
               /\ run'[m][j].reply = "ok" /\ run'[m][j].att = q.att /\ run[m][j].att = q.att
      <3>1. Top(run'[m][j]) = q.att + 1  BY <2>3 DEF Top
      <3>2. Executing(run[m][j])  BY <2>3 DEF Executing
      <3> QED  BY <2>1, <2>3, <3>1, <3>2, <1>2
    <2> QED  BY <2>2, <2>3, <1>3
  <1>7. Reports'
    <2> SUFFICES ASSUME NEW x \in produced, x.action # "needs-attention", Current(x.item, x.tok)'
                 PROVE  /\ execs[x.item][row'[x.item].att] # 0
                        /\ \A p \in net' : p.kind = "attempt" /\ p.item = x.item /\ p.tok = x.tok => p.att < row'[x.item].att
      BY <1>1 DEF Reports, Reported
    <2>1. Current(x.item, x.tok) /\ x.item \in Item  BY <1>t, <1>4
    <2>2. Reported(x)  BY <2>1 DEF Numbering, Reports
    <2>3. row'[x.item].att = row[x.item].att
      <3>1. CASE x.item = i
        <4>1. q.att < row[i].att
          BY <2>1, <2>2, <3>1, <1>m DEF Reported, Current, ServeAttempt, i
        <4> QED  BY <4>1, <3>1, <1>0, <1>2, <1>m, <1>t
      <3>2. CASE x.item # i  BY <3>2, <2>1, <1>2
      <3> QED  BY <3>1, <3>2
    <2> QED  BY <2>2, <2>3, <1>1 DEF Reported
  <1> QED  BY <1>5, <1>6, <1>7 DEF Numbering

\* The agent starts under the number that the run was certain of.
LEMMA StartNumbering ==
  ASSUME TypeOK, Claims, Numbering, NEW n \in Node, NEW i \in Item, NEW x,
         run' = [run EXCEPT ![n][i] = x], Held(n, i), Certain(run[n][i]),
         x.pc = "agent", x.tok = run[n][i].tok, x.att = Top(run[n][i]),
         execs' = [execs EXCEPT ![i][x.att] = @ + 1],
         UNCHANGED <<row, nextTok, produced, net>>
  PROVE  Numbering'
  <1> DEFINE r == run[n][i]
             b == Top(r)
  <1>t. /\ \A p \in net : p.att \in Nat /\ p.item \in Item
        /\ \A z \in produced : z.item \in Item
        /\ \A j \in Item : row[j].att \in Attempt
        /\ r.att \in Nat /\ b \in Nat
    BY RequestTypes
  <1>1. run'[n][i] = x /\ \A m \in Node, j \in Item : m # n \/ j # i => run'[m][j] = run[m][j]
    BY DEF TypeOK
  <1>2. b \in Attempt
    <2>1. r.att \in Attempt  BY DEF Numbering, Attempts
    <2>2. b <= row[i].att  BY DEF Claims, Numbers
    <2>3. r.att <= b  BY <1>t DEF Top
    <2> QED  BY <1>t, <2>1, <2>2, <2>3, AttemptAssumption DEF Attempt
  <1>3. /\ execs'[i][b] # 0
        /\ \A j \in Item : \A a \in Attempt : execs[j][a] # 0 => execs'[j][a] # 0
    <2>1. \A j \in Item : \A a \in Attempt :
            execs'[j][a] = IF j = i /\ a = b THEN execs[j][a] + 1 ELSE execs[j][a]
      BY DEF TypeOK
    <2>2. \A j \in Item : \A a \in Attempt : execs[j][a] \in Nat  BY DEF TypeOK
    <2> QED  BY <1>2, <2>1, <2>2
  <1>4. Top(x) = b  BY DEF Top
  <1> HIDE DEF b
  <1>5. Reservations'
    <2> SUFFICES ASSUME NEW p \in net
                 PROVE  p.tok < nextTok /\ (p.kind = "attempt" => \A m \in Node : Older(p, run'[m][p.item]))
      BY DEF Reservations
    <2>1. p.tok < nextTok  BY DEF Numbering, Reservations
    <2>2. ASSUME p.kind = "attempt", NEW m \in Node PROVE Older(p, run'[m][p.item])
      <3>1. Older(p, run[m][p.item])  BY <2>2 DEF Numbering, Reservations
      <3>2. CASE m # n \/ p.item # i  BY <3>1, <3>2, <1>1, <1>t
      <3>3. CASE m = n /\ p.item = i
        <4>1. ASSUME x.tok = p.tok, x.tok # NoTok PROVE p.att < x.att
          <5>1. p.att <= r.att /\ (Settling(r) => p.att < r.att)  BY <3>1, <3>3, <4>1 DEF Older
          <5>2. CASE Settling(r)
            <6>1. b = r.att  BY <5>2 DEF Settling, Top, b
            <6> QED  BY <5>1, <5>2, <6>1 DEF b
          <5>3. CASE r.pc = "reserving" /\ r.reply = "ok"
            <6>1. b = r.att + 1  BY <5>3 DEF Top, b
            <6> QED  BY <5>1, <6>1, <1>t DEF b
          <5> QED  BY <5>2, <5>3 DEF Certain
        <4>2. x.att \in Nat  BY <1>t DEF b
        <4> QED  BY <3>3, <4>1, <4>2, <1>1, <1>t DEF Older
      <3> QED  BY <3>2, <3>3
    <2> QED  BY <2>1, <2>2
  <1>6. Attempts'
    <2> SUFFICES ASSUME NEW m \in Node, NEW j \in Item, Held(m, j)'
                 PROVE  /\ run'[m][j].att \in Attempt
                        /\ Executing(run'[m][j]) => execs'[j][run'[m][j].att] # 0
                        /\ Certain(run'[m][j]) /\ Current(j, run'[m][j].tok) => row[j].att = Top(run'[m][j])
      BY DEF Attempts, Attempt, Current
    <2>1. CASE m = n /\ j = i
      <3>1. Current(i, r.tok) => row[i].att = b  BY DEF Numbering, Attempts, b
      <3> QED  BY <2>1, <3>1, <1>1, <1>2, <1>3, <1>4 DEF b
    <2>2. CASE m # n \/ j # i
      <3>1. run'[m][j] = run[m][j] /\ Held(m, j)  BY <2>2, <1>1 DEF Held
      <3> QED  BY <3>1, <1>3 DEF Numbering, Attempts
    <2> QED  BY <2>1, <2>2
  <1>7. Reports'
    <2> SUFFICES ASSUME NEW z \in produced, z.action # "needs-attention", Current(z.item, z.tok)
                 PROVE  /\ execs'[z.item][row[z.item].att] # 0
                        /\ \A p \in net : p.kind = "attempt" /\ p.item = z.item /\ p.tok = z.tok => p.att < row[z.item].att
      BY DEF Reports, Reported, Current
    <2>1. Reported(z)  BY DEF Numbering, Reports
    <2> QED  BY <2>1, <1>t, <1>3 DEF Reported
  <1> QED  BY <1>5, <1>6, <1>7 DEF Numbering
\* A served request that moves on no number.
LEMMA AnswerNumbering ==
  ASSUME TypeOK, TypeOK', OneCall, Claims, Claims', Numbering, NEW q \in net,
         NEW ans \in {"ok", "no"}, Answered(q, ans), NEW y, row' = [row EXCEPT ![q.item] = y],
         y.tok = row[q.item].tok, y.owner = row[q.item].owner, y.att = row[q.item].att,
         q.kind \in {"claim", "attempt"} => ans = "no" \/ q.by # "run",
         q.kind \in {"claim", "running", "attempt"} \union Outcome,
         UNCHANGED <<nextTok, produced, execs>>
  PROVE  Numbering'
  <1>1. \A m \in Node, j \in Item : run'[m][j].tok = NoTok \/ Follows(run'[m][j], run[m][j])
    BY AnswerFollows
  <1>2. \A j \in Item : /\ row'[j].tok = row[j].tok
                        /\ row'[j].owner # NoNode => row'[j].owner = row[j].owner /\ row'[j].att = row[j].att
    <2>1. q.item \in Item  BY RequestTypes
    <2>2. row'[q.item] = y /\ \A j \in Item : j # q.item => row'[j] = row[j]  BY <2>1 DEF TypeOK
    <2> QED  BY <2>2
  <1>3. \A p \in net' : Again(p)  BY NetAgain DEF Answered
  <1> QED  BY <1>1, <1>2, <1>3, QuietStep

\* POST claim, refused: at most the row is parked, and keeps its last owner.
LEMMA RefusalNumbering ==
  ASSUME TypeOK, TypeOK', OneCall, Claims, Claims', Numbering, NEW q \in net, ServeClaim(q),
         ~(Listed(row[q.item]) /\ ClaimAttempt(row[q.item]) <= MaxAttempts)
  PROVE  Numbering'
  <1> DEFINE n == q.node
             i == q.item
             r == row[i]
             y == IF Listed(r) THEN ClaimRow(r, n, nextTok) ELSE r
  <1>0. n \in Node /\ i \in Item /\ r \in RowRecord  BY AwaitedRun DEF TypeOK
  <1>1. /\ row' = [row EXCEPT ![i] = y] /\ nextTok' = nextTok /\ net' = net \ {q}
        /\ produced' = produced /\ execs' = execs
    BY DEF ServeClaim
  <1>2. y.tok = r.tok /\ y.owner = r.owner /\ y.att = r.att
    <2>1. CASE Listed(r)
      <3>1. ClaimAttempt(r) > MaxAttempts
        <4>1. ClaimAttempt(r) \in Nat /\ MaxAttempts \in Nat
          BY <1>0, RequestTypes, AttemptAssumption DEF ClaimAttempt
        <4> QED  BY <2>1, <4>1
      <3>2. y = [r EXCEPT !.st = "needs_attention", !.lease = FALSE]  BY <2>1, <3>1 DEF ClaimRow
      <3> HIDE DEF r, y
      <3> QED  BY <3>2, <1>0 DEF RowRecord
    <2>2. CASE ~Listed(r)  BY <2>2
    <2> QED  BY <2>1, <2>2
  <1> HIDE DEF y
  <1>3. \A j \in Item : /\ row'[j].tok = row[j].tok
                        /\ row'[j].owner # NoNode => row'[j].owner = row[j].owner /\ row'[j].att = row[j].att
    <2>1. row'[i] = y /\ \A j \in Item : j # i => row'[j] = row[j]  BY <1>0, <1>1 DEF TypeOK
    <2> QED  BY <2>1, <1>2
  <1>4. \A m \in Node, j \in Item : run'[m][j].tok = NoTok \/ Follows(run'[m][j], run[m][j])
    <2>1. \A m \in Node, j \in Item : Follows(run[m][j], run[m][j])  BY DEF Follows
    <2>2. CASE q.by # "run"
      <3>1. run' = run  BY <2>2 DEF ServeClaim
      <3> QED  BY <2>1, <3>1
    <2>3. CASE q.by = "run"
      <3> DEFINE x == [run[n][i] EXCEPT !.reply = "no", !.tok = @, !.att = @]
      <3>1. run' = [run EXCEPT ![n][i] = x]  BY <2>3 DEF ServeClaim, Yes
      <3>2. run[n][i] \in RunRecord /\ run[n][i].tok = NoTok  BY <2>3, AwaitedRun DEF ServeClaim
      <3>3. run'[n][i] = x /\ \A m \in Node, j \in Item : m # n \/ j # i => run'[m][j] = run[m][j]
        BY <3>1, <1>0 DEF TypeOK
      <3>4. x.tok = NoTok
        <4> HIDE DEF n, i
        <4> QED  BY <3>2 DEF RunRecord
      <3> HIDE DEF x
      <3> QED  BY <2>1, <3>3, <3>4
    <2> QED  BY <2>2, <2>3
  <1>5. \A p \in net' : Again(p)  BY <1>1, NetAgain
  <1> QED  BY <1>1, <1>3, <1>4, <1>5, QuietStep

\* No endpoint disturbs the numbering.
LEMMA ServeNumbering ==
  ASSUME Inv, TypeOK', Claims, Claims', Numbering, NEW q \in net, Serve(q)
  PROVE  Numbering'
  <1> DEFINE i == q.item
             r == row[i]
  <1>0. /\ TypeOK /\ OneCall /\ q.node \in Node /\ i \in Item /\ r \in RowRecord
        /\ row \in [Item -> RowRecord]
    BY AwaitedRun DEF Inv, TypeOK
  <1>1. CASE ServeClaim(q)  BY <1>0, <1>1, GrantNumbering, RefusalNumbering
  <1>2. CASE DenyClaim(q)
    <2> DEFINE y == ParkForPolicy(r)
    <2>1. y.tok = r.tok /\ y.owner = r.owner /\ y.att = r.att  BY <1>0, RowKeeps
    <2>2. row' = [row EXCEPT ![i] = y] /\ Answered(q, "no") /\ q.kind = "claim"
          /\ UNCHANGED <<nextTok, produced, execs>>
      BY <1>2 DEF DenyClaim
    <2> HIDE DEF y
    <2> QED  BY <2>1, <2>2, <1>0, AnswerNumbering
  <1>3. CASE ServeRunning(q)
    <2> DEFINE y == Transition(r, q.node, q.tok, "running")
               ans == Yes(MayTransition(row[q.item], q.node, q.tok, "running"))
    <2>1. y.tok = r.tok /\ y.owner = r.owner /\ y.att = r.att  BY <1>0, RowKeeps
    <2>2. row' = [row EXCEPT ![i] = y] /\ Answered(q, ans) /\ q.kind = "running"
          /\ UNCHANGED <<nextTok, produced, execs>>
      BY <1>3 DEF ServeRunning
    <2>3. ans \in {"ok", "no"}  BY DEF Yes
    <2> HIDE DEF y, ans
    <2> QED  BY <2>1, <2>2, <2>3, <1>0, AnswerNumbering
  <1>4. CASE ServeAttempt(q)
    <2> DEFINE may == MayAdvance(row[q.item], q.node, q.tok, q.att)
               y == [r EXCEPT !.att = r.att]
    <2>1. CASE may  BY <2>1, <1>0, <1>4, ReservedNumbering
    <2>2. CASE ~may
      <3>1. row' = [row EXCEPT ![i] = y] /\ Answered(q, "no") /\ q.kind = "attempt"
            /\ UNCHANGED <<nextTok, produced, execs>>
        BY <1>0, <1>4, <2>2 DEF ServeAttempt, Yes
      <3>2. y.tok = r.tok /\ y.owner = r.owner /\ y.att = r.att
        <4> HIDE DEF r
        <4> QED  BY <1>0 DEF RowRecord
      <3> HIDE DEF y
      <3> QED  BY <3>1, <3>2, <1>0, AnswerNumbering
    <2> QED  BY <2>1, <2>2
  <1>5. CASE ServeOutcome(q)
    <2> DEFINE y == AfterOutcome(r, q.node, q.tok, q.kind)
               ans == Yes(OutcomeAcknowledged(row[q.item], q.node, q.tok, q.kind))
    <2>1. row' = [row EXCEPT ![i] = y] /\ Answered(q, ans) /\ q.kind \in Outcome
          /\ UNCHANGED <<nextTok, produced, execs>>
      BY <1>5 DEF ServeOutcome
    <2>2. y.tok = r.tok /\ y.owner = r.owner /\ y.att = r.att  BY <1>0, <2>1, OutcomeRowKeeps
    <2>3. ans \in {"ok", "no"}  BY DEF Yes
    <2>4. q.kind \notin {"claim", "attempt"}  BY <2>1 DEF Outcome
    <2> HIDE DEF y, ans
    <2> QED  BY <2>1, <2>2, <2>3, <2>4, <1>0, AnswerNumbering
  <1> QED  BY <1>1, <1>2, <1>3, <1>4, <1>5 DEF Serve

-----------------------------------------------------------------------------
(* Time, the operator and the poller. *)

\* A lease that runs out and a cancellation touch no number; a retry moves the
\* row on, but nobody owns it any more.
LEMMA OperatorNumbering ==
  ASSUME TypeOK, TypeOK', Claims, Claims', Numbering,
         \/ \E t \in 1 .. nextTok - 1 : LeaseLapses(t)
         \/ \E j \in Item : Cancel(j) \/ Retry(j)
  PROVE  Numbering'
  <1>1. /\ run' = run /\ nextTok' = nextTok /\ produced' = produced /\ execs' = execs /\ net' = net
    BY DEF LeaseLapses, Cancel, Retry
  <1>2. \A m \in Node, j \in Item : run'[m][j].tok = NoTok \/ Follows(run'[m][j], run[m][j])
    BY <1>1 DEF Follows
  <1>3. \A j \in Item : /\ row'[j].tok = row[j].tok
                        /\ row'[j].owner # NoNode => row'[j].owner = row[j].owner /\ row'[j].att = row[j].att
    <2>1. ASSUME NEW i \in Item, Cancel(i) \/ Retry(i), NEW j \in Item
          PROVE  /\ row'[j].tok = row[j].tok
                 /\ row'[j].owner # NoNode => row'[j].owner = row[j].owner /\ row'[j].att = row[j].att
      <3>1. row[i] \in RowRecord  BY DEF TypeOK
      <3>2. j # i => row'[j] = row[j]  BY <2>1 DEF Cancel, Retry, TypeOK
      <3>3. CASE Cancel(i)
        <4>1. row'[i].tok = row[i].tok /\ row'[i].owner = row[i].owner /\ row'[i].att = row[i].att
          BY <3>1, <3>3 DEF Cancel, TypeOK, RowRecord
        <4> QED  BY <3>2, <4>1
      <3>4. CASE Retry(i)
        <4>1. row'[i] = [row[i] EXCEPT !.st = "pending", !.att = @ + 1, !.owner = NoNode, !.lease = FALSE]
          BY <3>4 DEF Retry, TypeOK
        <4>2. row'[i].tok = row[i].tok /\ row'[i].owner = NoNode  BY <3>1, <4>1 DEF RowRecord
        <4> QED  BY <3>2, <4>2
      <3> QED  BY <2>1, <3>3, <3>4
    <2>2. CASE \E t \in 1 .. nextTok - 1 : LeaseLapses(t)  BY <2>2 DEF LeaseLapses
    <2> QED  BY <2>1, <2>2
  <1>4. \A p \in net' : Again(p)  BY <1>1, NetAgain
  <1> QED  BY <1>1, <1>2, <1>3, <1>4, QuietStep

\* A flush, a tick and a crash: the claims a tick asks for bear no token yet.
LEMMA PollerNumbering ==
  ASSUME TypeOK, TypeOK', Claims, Claims', Numbering, NEW n \in Node, Poller(n),
         outbox[n] \subseteq produced, flush[n].todo \subseteq produced
  PROVE  Numbering'
  <1>1. row' = row /\ nextTok' = nextTok /\ produced' = produced /\ execs' = execs
    BY DEF Poller, FlushBegin, FlushReply, FlushFails, Tick, Crash, serverVars
  <1>2. \A m \in Node, j \in Item : run'[m][j] = run[m][j] \/ run'[m][j].tok = NoTok
    <2>1. CASE FlushBegin(n) \/ FlushReply(n) \/ FlushFails(n)
      <3>1. run' = run  BY <2>1 DEF FlushBegin, FlushReply, FlushFails
      <3> QED  BY <3>1
    <2>2. CASE Tick(n)
      <3> DEFINE x == [Idle EXCEPT !.pc = "claiming", !.active = TRUE, !.reply = "wait"]
      <3>1. PICK S \in SUBSET Eligible(n) :
              run' = [run EXCEPT ![n] = [i \in Item |-> IF i \in S THEN x ELSE @[i]]]
        BY <2>2 DEF Tick
      <3>2. x.tok = NoTok  BY DEF Idle
      <3> HIDE DEF x
      <3>3. \A m \in Node, j \in Item : run'[m][j] = run[m][j] \/ run'[m][j] = x  BY <3>1 DEF TypeOK
      <3> QED  BY <3>2, <3>3
    <2>3. CASE Crash(n)
      <3>1. run' = [run EXCEPT ![n] = [j \in Item |-> Idle]]  BY <2>3 DEF Crash
      <3>2. \A m \in Node, j \in Item : run'[m][j] = run[m][j] \/ run'[m][j] = Idle  BY <3>1 DEF TypeOK
      <3>3. Idle.tok = NoTok  BY DEF Idle
      <3> QED  BY <3>2, <3>3
    <2> QED  BY <2>1, <2>2, <2>3 DEF Poller
  <1>3. \A m \in Node, j \in Item : run'[m][j].tok = NoTok \/ Follows(run'[m][j], run[m][j])
    BY <1>2 DEF Follows
  <1>4. \A p \in net' : Again(p)
    <2>1. CASE FlushBegin(n)  BY <2>1, NetAgain, FlushAgain DEF FlushBegin
    <2>2. CASE FlushReply(n)  BY <2>2, NetAgain, FlushAgain DEF FlushReply
    <2>3. CASE FlushFails(n)
      <3> DEFINE qs == OwnedBy(n, flush[n].cur.item, "flush")
      <3>1. PICK net1 \in Abandon(qs) : FlushNext(n, flush[n].todo, net1)  BY <2>3 DEF FlushFails
      <3>2. qs \in SUBSET net  BY DEF OwnedBy
      <3> HIDE DEF qs
      <3>3. \A p \in net1 : Again(p)  BY <3>1, <3>2, AbandonAgain
      <3> QED  BY <3>1, <3>3, FlushAgain
    <2>4. CASE Tick(n)
      <3>1. \A p \in net' : p \in net \/ \E i : p = Req(n, i, "claim", NoTok, 0, "run")  BY <2>4 DEF Tick
      <3>2. \A i : Again(Req(n, i, "claim", NoTok, 0, "run"))  BY DEF TypeOK, Again, Req, NoTok
      <3> QED  BY <3>1, <3>2, NetAgain
    <2>5. CASE Crash(n)
      <3> DEFINE qs == {q \in net : q.node = n}
      <3>1. net' \in Abandon(qs)  BY <2>5 DEF Crash
      <3>2. qs \in SUBSET net  OBVIOUS
      <3> HIDE DEF qs
      <3> QED  BY <3>1, <3>2, AbandonAgain
    <2> QED  BY <2>1, <2>2, <2>3, <2>4, <2>5 DEF Poller
  <1> QED  BY <1>1, <1>3, <1>4, QuietStep
-----------------------------------------------------------------------------
(* The run. *)

\* What a run sends other than a reservation.
LEMMA SentAgain ==
  ASSUME TypeOK, Claims, NEW n \in Node, NEW i \in Item, NEW kind, kind # "attempt"
  PROVE  Again(Req(n, i, kind, run[n][i].tok, 0, "run"))
  <1>1. run[n][i].tok <= row[i].tok /\ row[i].tok < nextTok  BY DEF Claims, Tokens
  <1>2. run[n][i].tok < nextTok  BY <1>1, RequestTypes
  <1> QED  BY <1>2 DEF Again, Req

\* finishWork: the agent reports under the number it executes, or asks for review.
LEMMA FinishNumbering ==
  ASSUME TypeOK, TypeOK', Claims, Claims', Numbering, NEW n \in Node, NEW i \in Item, NEW action \in Outcome,
         Finish(n, i, action),
         run[n][i].pc = "agent" \/ (run[n][i].pc = "checking" /\ action = "needs-attention"),
         row' = row \/ row' = [row EXCEPT ![i].denied = TRUE],
         nextTok' = nextTok, execs' = execs
  PROVE  Numbering'
  <1> DEFINE r == run[n][i]
             h == IF r.pc = "checking" THEN "none" ELSE r.hb
             x == [r EXCEPT !.pc = "finishing", !.reply = "wait", !.hb = h, !.action = action]
             z == [item |-> i, tok |-> r.tok, action |-> action]
  <1>1. r \in RunRecord /\ Held(n, i)
    <2>1. r \in RunRecord /\ WellTokened(r)  BY DEF TypeOK, Claims, Tokens
    <2> QED  BY <2>1 DEF WellTokened, Held
  <1>2. /\ run' = [run EXCEPT ![n][i] = x] /\ produced' = produced \union {z}
        /\ net' = net \union {Req(n, i, action, r.tok, 0, "run")}
    BY DEF Finish
  <1>3. z.item = i /\ z.tok = r.tok /\ z.action = action  OBVIOUS
  <1> HIDE DEF h, z
  <1>4. run'[n][i] = x  BY <1>2 DEF TypeOK
  <1>5. x.pc = "finishing" /\ x.tok = r.tok /\ x.att = r.att
    <2> HIDE DEF r
    <2> QED  BY <1>1 DEF RunRecord
  <1> HIDE DEF x
  <1>6. Follows(x, r)  BY <1>5 DEF Follows, Settling, Executing
  <1>7. \A p \in net' : Again(p)
    <2>1. action # "attempt"  BY DEF Outcome
    <2> QED  BY <2>1, <1>2, NetAgain, SentAgain
  <1>8. \A y \in produced' : y \in produced \/ y.action = "needs-attention" \/ Reporting(y)
    <2>1. action = "needs-attention" \/ Reporting(z)
      <3>1. CASE r.pc = "agent"  BY <3>1, <1>1, <1>3, <1>4, <1>5 DEF Reporting
      <3>2. CASE r.pc # "agent"  BY <3>2
      <3> QED  BY <3>1, <3>2
    <2> QED  BY <2>1, <1>2, <1>3
  <1> QED  BY <1>2, <1>6, <1>7, <1>8, OneFollows

\* The reservation of the attempt after the one the run executes.
LEMMA AskNumbering ==
  ASSUME TypeOK, TypeOK', Claims, Claims', Numbering, NEW n \in Node, NEW i \in Item, NEW net1,
         \A q \in net1 : Again(q), run[n][i].pc \in {"agent", "reserving"},
         run' = [run EXCEPT ![n][i] = [run[n][i] EXCEPT !.pc = "reserving", !.reply = "wait"]],
         net' = net1 \union {Req(n, i, "attempt", run[n][i].tok, run[n][i].att, "run")},
         UNCHANGED <<row, nextTok, produced, execs>>
  PROVE  Numbering'
  <1> DEFINE r == run[n][i]
             x == [r EXCEPT !.pc = "reserving", !.reply = "wait"]
             q == Req(n, i, "attempt", r.tok, r.att, "run")
  <1>1. r \in RunRecord /\ Held(n, i)  BY DEF TypeOK, Claims, Tokens, WellTokened, Held
  <1>2. run'[n][i] = x  BY DEF TypeOK
  <1>3. x.pc = "reserving" /\ x.reply = "wait" /\ x.tok = r.tok /\ x.att = r.att  BY <1>1 DEF RunRecord
  <1>4. q.kind = "attempt" /\ q.item = i /\ q.tok = r.tok /\ q.att = r.att  BY DEF Req
  <1> HIDE DEF x, q
  <1>5. Follows(x, r)  BY <1>3 DEF Follows, Settling, Executing
  <1>6. Asking(q)  BY <1>1, <1>2, <1>3, <1>4 DEF Asking
  <1>7. \A p \in net' : Again(p) \/ Asking(p)  BY <1>6 DEF q
  <1> QED  BY <1>5, <1>7, OneFollows DEF x

\* A step of a run executes a number that its row was moved on to, if the row
\* still carries its claim.
LEMMA RunStepNumbering ==
  ASSUME TypeOK, TypeOK', Claims, Claims', Numbering, NEW n \in Node, NEW i \in Item, RunStep(n, i)
  PROVE  Numbering'
  <1> DEFINE r == run[n][i]
             Server == row' = row /\ nextTok' = nextTok
             Quiet == Server /\ execs' = execs /\ produced' = produced
  <1>1. r \in RunRecord /\ WellTokened(r)  BY DEF TypeOK, Claims, Tokens
  <1>2. ASSUME NEW x, run' = [run EXCEPT ![n][i] = x], x.tok = NoTok \/ Follows(x, r),
               Quiet, \A q \in net' : Again(q)
        PROVE  Numbering'
    BY <1>2, OneFollows
  <1>3. ASSUME run' = [run EXCEPT ![n][i] = Idle], Quiet, \A q \in net' : Again(q)
        PROVE  Numbering'
    <2>1. Idle.tok = NoTok  BY DEF Idle
    <2> QED  BY <1>2, <1>3, <2>1
  <1>n. net' = net => \A q \in net' : Again(q)  BY NetAgain
  <1>a. \A net1 \in Abandon(OwnedBy(n, i, "run")) : \A q \in net1 : Again(q)
    <2>1. OwnedBy(n, i, "run") \in SUBSET net  BY DEF OwnedBy
    <2> QED  BY <2>1, AbandonAgain
  <1>4. CASE ClaimReply(n, i)
    <2>0. Quiet  BY <1>4 DEF ClaimReply, serverVars
    <2>1. CASE r.reply = "ok" /\ r.active
      <3>1. PICK a \in DeadlineVerdict(r.tok) :
              run' = [run EXCEPT ![n][i] = [r EXCEPT !.pc = "starting", !.reply = "wait", !.active = a]]
        BY <1>4, <2>1 DEF ClaimReply
      <3> DEFINE x == [r EXCEPT !.pc = "starting", !.reply = "wait", !.active = a]
      <3>2. x.pc = "starting" /\ x.tok = r.tok /\ x.att = r.att  BY <1>1 DEF RunRecord
      <3>3. r.pc = "claiming" /\ net' = net \union {Req(n, i, "running", r.tok, 0, "run")}
        BY <1>4, <2>1 DEF ClaimReply
      <3> HIDE DEF x
      <3>4. Follows(x, r)  BY <3>2, <3>3 DEF Follows, Settling, Executing
      <3>5. \A q \in net' : Again(q)  BY <3>3, NetAgain, SentAgain
      <3> QED  BY <1>2, <2>0, <3>1, <3>4, <3>5 DEF x
    <2>2. CASE ~(r.reply = "ok" /\ r.active)
      <3>1. run' = [run EXCEPT ![n][i] = Idle] /\ net' = net  BY <1>4, <2>2 DEF ClaimReply
      <3> QED  BY <1>3, <1>n, <2>0, <3>1
    <2> QED  BY <2>1, <2>2
  <1>5. CASE StartReply(n, i)
    <2>0. Server /\ produced' = produced /\ net' = net /\ r.pc = "starting"  BY <1>5 DEF StartReply, serverVars
    <2>1. CASE r.reply = "ok" /\ r.active
      <3> DEFINE x == [r EXCEPT !.pc = "agent", !.reply = "none"]
      <3>1. run' = [run EXCEPT ![n][i] = x] /\ execs' = [execs EXCEPT ![i][r.att] = @ + 1]
        BY <1>5, <2>1 DEF StartReply
      <3>2. x.pc = "agent" /\ x.tok = r.tok /\ x.att = r.att  BY <1>1 DEF RunRecord
      <3>3. Held(n, i) /\ Certain(r) /\ Top(r) = r.att
        BY <1>1, <2>0 DEF WellTokened, Held, Certain, Settling, Top
      <3> HIDE DEF x
      <3> QED  BY <2>0, <3>1, <3>2, <3>3, StartNumbering
    <2>2. CASE ~(r.reply = "ok" /\ r.active)
      <3>1. run' = [run EXCEPT ![n][i] = Idle] /\ execs' = execs  BY <1>5, <2>2 DEF StartReply
      <3> QED  BY <1>3, <1>n, <2>0, <3>1
    <2> QED  BY <2>1, <2>2
  <1>6. CASE StartFails(n, i)
    <2>1. run' = [run EXCEPT ![n][i] = Idle] /\ Quiet /\ net' \in Abandon(OwnedBy(n, i, "run"))
      BY <1>6 DEF StartFails, serverVars
    <2> QED  BY <1>3, <1>a, <2>1
  <1>7. CASE AgentEnds(n, i)
    <2>1. PICK action \in Outcome : Finish(n, i, action)  BY <1>7 DEF AgentEnds, Outcome
    <2>2. nextTok' = nextTok /\ execs' = execs /\ r.pc = "agent"  BY <1>7 DEF AgentEnds
    <2>3. row' = row \/ row' = [row EXCEPT ![i].denied = TRUE]  BY <1>7 DEF AgentEnds
    <2> QED  BY <2>1, <2>2, <2>3, FinishNumbering
  <1>8. CASE AgentRetries(n, i)
    <2>1. /\ run' = [run EXCEPT ![n][i] = [r EXCEPT !.pc = "reserving", !.reply = "wait"]] /\ r.pc = "agent"
          /\ net' = net \union {Req(n, i, "attempt", r.tok, r.att, "run")} /\ Quiet
      BY <1>8 DEF AgentRetries, serverVars
    <2> QED  BY <2>1, NetAgain, AskNumbering
  <1>9. CASE AgentAborted(n, i)
    <2>1. run' = [run EXCEPT ![n][i] = Idle] /\ Quiet /\ net' = net
      BY <1>9 DEF AgentAborted, Unwind, serverVars
    <2> QED  BY <1>3, <1>n, <2>1
  <1>10. CASE ReserveReply(n, i)
    <2>0. Server /\ produced' = produced /\ net' = net /\ r.pc = "reserving"
      BY <1>10 DEF ReserveReply, serverVars
    <2>1. CASE ~r.active
      <3>1. run' = [run EXCEPT ![n][i] = Idle] /\ execs' = execs  BY <1>10, <2>1 DEF ReserveReply
      <3> QED  BY <1>3, <1>n, <2>0, <3>1
    <2>2. CASE r.active /\ r.reply = "ok"
      <3> DEFINE b == r.att + 1
                 x == [r EXCEPT !.pc = "agent", !.reply = "none", !.att = b]
      <3>1. run' = [run EXCEPT ![n][i] = x] /\ execs' = [execs EXCEPT ![i][b] = @ + 1]
        BY <1>10, <2>2 DEF ReserveReply
      <3>2. Held(n, i) /\ Certain(r) /\ Top(r) = b
        BY <1>1, <2>0, <2>2 DEF WellTokened, Held, Certain, Top
      <3> HIDE DEF b
      <3>3. x.pc = "agent" /\ x.tok = r.tok /\ x.att = b  BY <1>1 DEF RunRecord
      <3> HIDE DEF x
      <3> QED  BY <2>0, <3>1, <3>2, <3>3, StartNumbering
    <2>3. CASE r.active /\ r.reply # "ok"
      <3> DEFINE h == IF r.hb = "none" THEN "wait" ELSE r.hb
                 x == [r EXCEPT !.pc = "checking", !.reply = "none", !.hb = h]
      <3>1. run' = [run EXCEPT ![n][i] = x] /\ execs' = execs  BY <1>10, <2>3 DEF ReserveReply
      <3> HIDE DEF h
      <3>2. x.pc = "checking" /\ x.tok = r.tok /\ x.att = r.att  BY <1>1 DEF RunRecord
      <3> HIDE DEF x
      <3>3. Follows(x, r)  BY <2>0, <3>2 DEF Follows, Settling, Executing
      <3> QED  BY <1>2, <1>n, <2>0, <3>1, <3>3
    <2> QED  BY <2>1, <2>2, <2>3
  <1>11. CASE ReserveFails(n, i)
    <2>0. Quiet /\ r.pc = "reserving"  BY <1>11 DEF ReserveFails, serverVars
    <2>1. PICK net1 \in Abandon(OwnedBy(n, i, "run")) :
            IF r.active
            THEN /\ run' = [run EXCEPT ![n][i].reply = "wait"]
                 /\ net' = net1 \union {Req(n, i, "attempt", r.tok, r.att, "run")}
            ELSE run' = [run EXCEPT ![n][i] = Idle] /\ net' = net1
      BY <1>11 DEF ReserveFails
    <2>2. \A q \in net1 : Again(q)  BY <1>a
    <2>3. CASE r.active
      <3>1. run' = [run EXCEPT ![n][i] = [r EXCEPT !.reply = "wait"]]  BY <2>1, <2>3 DEF TypeOK
      <3>2. [r EXCEPT !.reply = "wait"] = [r EXCEPT !.pc = "reserving", !.reply = "wait"]
        BY <1>1, <2>0 DEF RunRecord
      <3>3. run' = [run EXCEPT ![n][i] = [r EXCEPT !.pc = "reserving", !.reply = "wait"]]
        BY <3>1, <3>2
      <3> QED  BY <2>0, <2>1, <2>2, <2>3, <3>3, AskNumbering
    <2>4. CASE ~r.active  BY <1>3, <2>0, <2>1, <2>2, <2>4
    <2> QED  BY <2>3, <2>4
  <1>12. CASE FinishReply(n, i)
    <2>1. run' = [run EXCEPT ![n][i] = Idle] /\ Quiet /\ net' = net  BY <1>12 DEF FinishReply, serverVars
    <2> QED  BY <1>3, <1>n, <2>1
  <1>13. CASE FinishFails(n, i)
    <2> DEFINE x == [r EXCEPT !.reply = "wait"]
    <2>0. Quiet /\ r.pc = "finishing"  BY <1>13 DEF FinishFails, serverVars
    <2>1. PICK net1 \in Abandon(OwnedBy(n, i, "run")) :
            IF r.active
            THEN /\ run' = [run EXCEPT ![n][i].reply = "wait"]
                 /\ net' = net1 \union {Req(n, i, r.action, r.tok, 0, "run")}
            ELSE run' = [run EXCEPT ![n][i] = Idle] /\ net' = net1
      BY <1>13 DEF FinishFails
    <2>2. \A q \in net1 : Again(q)  BY <1>a
    <2>3. CASE r.active
      <3>1. run' = [run EXCEPT ![n][i] = x]  BY <2>1, <2>3 DEF TypeOK
      <3>2. x.pc = "finishing" /\ x.tok = r.tok /\ x.att = r.att  BY <1>1, <2>0 DEF RunRecord
      <3>3. r.action # "attempt"  BY <1>1 DEF RunRecord, Outcome
      <3> HIDE DEF x
      <3>4. Follows(x, r)  BY <3>2 DEF Follows, Settling, Executing
      <3>5. Again(Req(n, i, r.action, r.tok, 0, "run"))  BY <3>3, SentAgain
      <3>6. \A q \in net' : Again(q)  BY <2>1, <2>2, <2>3, <3>5
      <3> QED  BY <1>2, <2>0, <3>1, <3>4, <3>6
    <2>4. CASE ~r.active  BY <1>3, <2>0, <2>1, <2>2, <2>4
    <2> QED  BY <2>3, <2>4
  <1>14. ASSUME NEW x, run' = [run EXCEPT ![n][i] = x], Quiet, net' = net,
                x.pc = r.pc, x.reply = r.reply, x.tok = r.tok, x.att = r.att
         PROVE  Numbering'
    <2>1. Follows(x, r)  BY <1>14 DEF Follows, Settling, Executing
    <2> QED  BY <1>2, <1>n, <1>14, <2>1
  <1>15. CASE CheckLease(n, i) \/ ServeHeartbeat(n, i) \/ DeadlineFires(n, i)
    <2>0. Quiet /\ net' = net
      BY <1>15 DEF CheckLease, ServeHeartbeat, DeadlineFires, serverVars
    <2>1. PICK h \in Reply \union {"bare"}, a \in BOOLEAN :
            run' = [run EXCEPT ![n][i] = [r EXCEPT !.hb = h, !.active = a]]
      BY <1>15, LeaseMoves
    <2> DEFINE x == [r EXCEPT !.hb = h, !.active = a]
    <2>2. x.pc = r.pc /\ x.reply = r.reply /\ x.tok = r.tok /\ x.att = r.att  BY <1>1 DEF RunRecord
    <2> HIDE DEF x
    <2> QED  BY <1>14, <2>0, <2>1, <2>2 DEF x
  <1>16. CASE HeartbeatReply(n, i) \/ HeartbeatFails(n, i)
    <2>0. Server /\ execs' = execs  BY <1>16 DEF HeartbeatReply, HeartbeatFails, serverVars
    <2>1. PICK a : Checked(n, i, a)  BY <1>16 DEF HeartbeatReply, HeartbeatFails
    <2>2. CASE r.pc # "checking"
      <3> DEFINE x == [r EXCEPT !.hb = "none", !.active = a]
      <3>1. run' = [run EXCEPT ![n][i] = x] /\ produced' = produced /\ net' = net
        BY <2>1, <2>2 DEF Checked, TypeOK
      <3>2. x.pc = r.pc /\ x.reply = r.reply /\ x.tok = r.tok /\ x.att = r.att  BY <1>1 DEF RunRecord
      <3> HIDE DEF x
      <3> QED  BY <1>14, <2>0, <3>1, <3>2
    <2>3. CASE r.pc = "checking" /\ a
      <3> DEFINE na == "needs-attention"
      <3>1. na \in Outcome /\ Finish(n, i, na)  BY <2>1, <2>3 DEF Checked, Outcome
      <3> HIDE DEF na
      <3> QED  BY <2>0, <2>3, <3>1, FinishNumbering DEF na
    <2>4. CASE r.pc = "checking" /\ ~a
      <3>1. run' = [run EXCEPT ![n][i] = Idle] /\ produced' = produced /\ net' = net
        BY <2>1, <2>4 DEF Checked, Unwind
      <3> QED  BY <1>3, <1>n, <2>0, <3>1
    <2> QED  BY <2>2, <2>3, <2>4
  <1> QED
    BY <1>4, <1>5, <1>6, <1>7, <1>8, <1>9, <1>10, <1>11, <1>12, <1>13, <1>15, <1>16 DEF RunStep
-----------------------------------------------------------------------------
(* The invariant holds. *)

\* Nothing was claimed, reserved or reported yet.
LEMMA NumberingInit == Init => Numbering
  <1> SUFFICES ASSUME Init PROVE Numbering  OBVIOUS
  <1>1. net = {} /\ produced = {} /\ \A n \in Node, i \in Item : run[n][i] = Idle  BY DEF Init
  <1>2. \A n \in Node, i \in Item : ~Held(n, i)  BY <1>1 DEF Held, Idle
  <1> QED  BY <1>1, <1>2 DEF Numbering, Reservations, Attempts, Reports

\* Every step keeps the numbering.
LEMMA NextNumbering ==
  ASSUME Inv, TypeOK', Claims, Claims', Numbering, [Next]_vars
  PROVE  Numbering'
  <1>0. TypeOK /\ SavedBeforeSent  BY DEF Inv
  <1>1. CASE UNCHANGED vars
    <2>1. /\ row' = row /\ nextTok' = nextTok /\ run' = run /\ net' = net
          /\ produced' = produced /\ execs' = execs
      BY <1>1 DEF vars
    <2>2. \A m \in Node, j \in Item : Follows(run'[m][j], run[m][j])  BY <2>1 DEF Follows
    <2>3. \A q \in net' : Again(q)  BY <2>1, NetAgain
    <2> QED  BY <1>0, <2>1, <2>2, <2>3, QuietStep
  <1>2. ASSUME NEW q \in net, Serve(q)  PROVE Numbering'  BY <1>2, ServeNumbering
  <1>3. ASSUME NEW n \in Node, Poller(n)  PROVE Numbering'
    <2>1. outbox[n] \subseteq produced /\ flush[n].todo \subseteq produced  BY <1>0 DEF SavedBeforeSent
    <2> QED  BY <1>0, <1>3, <2>1, PollerNumbering
  <1>4. ASSUME NEW n \in Node, NEW i \in Item, RunStep(n, i)  PROVE Numbering'
    BY <1>0, <1>4, RunStepNumbering
  <1>5. CASE \/ \E t \in 1 .. nextTok - 1 : LeaseLapses(t)
             \/ \E j \in Item : Cancel(j) \/ Retry(j)
    BY <1>0, <1>5, OperatorNumbering
  <1> QED  BY <1>1, <1>2, <1>3, <1>4, <1>5 DEF Next

\* A machine executes the attempt its row carries, and what it reported stays
\* about that attempt, whatever becomes of repeated and late reservations
\* (reserveAttempt in task-poller, advanceWorkItemAttempt in the store).
THEOREM NumberingInvariance == Spec => []Numbering
  <1>1. Inv /\ Inv' /\ Claims /\ Claims' /\ Numbering /\ [Next]_vars => Numbering'
    <2>1. Inv' => TypeOK'  BY DEF Inv
    <2> QED  BY <2>1, NextNumbering
  <1> QED  BY <1>1, NumberingInit, Invariance, ClaimInvariance, PTL DEF Spec

-----------------------------------------------------------------------------
(* The steps of a run's life. *)

\* A step that changes row i only, under the token it has, and no history.
RowBecomes(i, y) ==
  /\ row' = [row EXCEPT ![i] = y] /\ y.tok = row[i].tok
  /\ UNCHANGED <<produced, execs>>

\* What such a step changes of the run's life.
LEMMA RowLife ==
  ASSUME TypeOK, NEW i \in Item, NEW y, RowBecomes(i, y)
  PROVE  Life!Becomes(i, y.st, y.att) /\ UNCHANGED Claimed
  <1>1. row'[i] = y /\ \A j \in Item : j # i => row'[j] = row[j]  BY DEF RowBecomes, TypeOK
  <1>2. Statuses' = [Statuses EXCEPT ![i] = y.st]  BY <1>1 DEF Statuses
  <1>3. Numbered' = [Numbered EXCEPT ![i] = y.att]  BY <1>1 DEF Numbered
  <1>4. Claimed' = Claimed  BY <1>1 DEF Claimed, RowBecomes
  <1> QED  BY <1>2, <1>3, <1>4 DEF Life!Becomes, RowBecomes

\* A step that leaves statuses, numbers, tokens and histories alone.
LEMMA AsideStep ==
  ASSUME \A i \in Item : row'[i].st = row[i].st /\ row'[i].att = row[i].att /\ row'[i].tok = row[i].tok,
         UNCHANGED <<produced, execs>>
  PROVE  Life!Next
  <1>1. UNCHANGED <<Statuses, Numbered, Claimed>>  BY DEF Statuses, Numbered, Claimed
  <1> QED  BY <1>1 DEF Life!Next, Life!Aside, Life!vars

\* A row that is where it was, or goes on in its life.
LEMMA RowStep ==
  ASSUME TypeOK, NEW i \in Item, NEW y, RowBecomes(i, y),
         \/ y.st = row[i].st /\ y.att = row[i].att
         \/ row[i].st = "claimed" /\ y.st = "running" /\ y.att = row[i].att
         \/ /\ row[i].st \in {"claimed", "running"} /\ row[i].att < MaxAttempts
            /\ y.st = row[i].st /\ y.att = row[i].att + 1
         \/ /\ row[i].st \in {"pending", "claimed", "running"}
            /\ y.st = "needs_attention" /\ y.att = row[i].att
         \/ /\ row[i].st \notin Terminal /\ y.st = "cancelled" /\ y.att = row[i].att
         \/ /\ row[i].st \in {"needs_attention", "succeeded", "failed"} /\ row[i].att < MaxAttempts
            /\ y.st = "pending" /\ y.att = row[i].att + 1
  PROVE  Life!Next
  <1>1. Life!Becomes(i, y.st, y.att) /\ UNCHANGED Claimed  BY RowLife
  <1>2. Statuses[i] = row[i].st /\ Numbered[i] = row[i].att  BY DEF Statuses, Numbered
  <1>3. CASE y.st = row[i].st /\ y.att = row[i].att
    <2>1. row'[i] = y /\ \A j \in Item : j # i => row'[j] = row[j]  BY DEF RowBecomes, TypeOK
    <2> QED  BY <2>1, <1>3, AsideStep DEF RowBecomes
  <1>4. CASE row[i].st = "claimed" /\ y.st = "running" /\ y.att = row[i].att
    <2>1. Life!Start(i)  BY <1>1, <1>2, <1>4 DEF Life!Start
    <2> QED  BY <2>1 DEF Life!Next
  <1>5. CASE /\ row[i].st \in {"claimed", "running"} /\ row[i].att < MaxAttempts
             /\ y.st = row[i].st /\ y.att = row[i].att + 1
    <2>1. Life!Reserve(i)  BY <1>1, <1>2, <1>5 DEF Life!Reserve, Life!Claimed
    <2> QED  BY <2>1 DEF Life!Next
  <1>6. CASE /\ row[i].st \in {"pending", "claimed", "running"}
             /\ y.st = "needs_attention" /\ y.att = row[i].att
    <2>1. Life!Park(i)  BY <1>1, <1>2, <1>6 DEF Life!Park, Life!Claimed
    <2> QED  BY <2>1 DEF Life!Next
  <1>7. CASE row[i].st \notin Terminal /\ y.st = "cancelled" /\ y.att = row[i].att
    <2>1. row[i].st \in Status  BY DEF TypeOK, RowRecord
    <2>2. Life!Cancel(i)  BY <1>1, <1>2, <1>7, <2>1 DEF Life!Cancel, Life!Claimed, Status, Terminal
    <2> QED  BY <2>2 DEF Life!Next
  <1>8. CASE /\ row[i].st \in {"needs_attention", "succeeded", "failed"} /\ row[i].att < MaxAttempts
             /\ y.st = "pending" /\ y.att = row[i].att + 1
    <2>1. Life!Retry(i)  BY <1>1, <1>2, <1>8 DEF Life!Retry
    <2> QED  BY <2>1 DEF Life!Next
  <1> QED  BY <1>3, <1>4, <1>5, <1>6, <1>7, <1>8
-----------------------------------------------------------------------------
(* The endpoints implement the life of a run. *)

\* POST claim, granted: a claim under a generation above all earlier ones.
LEMMA GrantLives ==
  ASSUME TypeOK, OneCall, Claims, NEW q \in net, ServeClaim(q),
         Listed(row[q.item]), ClaimAttempt(row[q.item]) <= MaxAttempts
  PROVE  Life!Next
  <1> DEFINE i == q.item
             A == ClaimAttempt(row[i])
  <1>0. i \in Item /\ row[i].tok < nextTok /\ (row[i].st = "pending" => ~row[i].lease)
    BY RequestTypes DEF Claims, Tokens
  <1>1. /\ row'[i].st = "claimed" /\ row'[i].tok = nextTok /\ row'[i].att = A
        /\ \A j \in Item : j # i => row'[j] = row[j]
        /\ UNCHANGED <<produced, execs>>
    BY GrantEffect
  <1>2. A = IF row[i].st = "pending" THEN row[i].att ELSE row[i].att + 1
    BY <1>0 DEF ClaimAttempt, Listed, Reclaimable, Expired
  <1>3. row[i].st \in {"pending", "claimed", "running"}  BY DEF Listed, Reclaimable
  <1>4. A <= MaxAttempts  OBVIOUS
  <1> HIDE DEF i, A
  <1>5. Statuses' = [Statuses EXCEPT ![i] = "claimed"]  BY <1>0, <1>1 DEF Statuses
  <1>6. Numbered' = [Numbered EXCEPT ![i] = A]  BY <1>0, <1>1 DEF Numbered
  <1>7. Claimed'[i] = nextTok /\ Claimed' = [Claimed EXCEPT ![i] = nextTok]  BY <1>0, <1>1 DEF Claimed
  <1>8. Statuses[i] = row[i].st /\ Numbered[i] = row[i].att /\ Claimed[i] = row[i].tok
    BY <1>0 DEF Statuses, Numbered, Claimed
  <1>9. Life!Becomes(i, "claimed", A)  BY <1>1, <1>5, <1>6 DEF Life!Becomes
  <1>10. Life!Claim(i)  BY <1>0, <1>2, <1>3, <1>4, <1>7, <1>8, <1>9 DEF Life!Claim, Life!Claimed
  <1> QED  BY <1>0, <1>10 DEF Life!Next

\* POST claim, refused: the row is parked when it is out of attempts.
LEMMA RefusalLives ==
  ASSUME TypeOK, OneCall, Claims, NEW q \in net, ServeClaim(q),
         ~(Listed(row[q.item]) /\ ClaimAttempt(row[q.item]) <= MaxAttempts)
  PROVE  Life!Next
  <1> DEFINE i == q.item
             r == row[i]
             y == IF Listed(r) THEN ClaimRow(r, q.node, nextTok) ELSE r
  <1>0. i \in Item /\ r \in RowRecord  BY AwaitedRun DEF TypeOK
  <1>1. row' = [row EXCEPT ![i] = y] /\ UNCHANGED <<produced, execs>>  BY DEF ServeClaim
  <1>2. CASE Listed(r)
    <2>1. ClaimAttempt(r) > MaxAttempts
      <3>1. ClaimAttempt(r) \in Nat /\ MaxAttempts \in Nat
        BY <1>0, RequestTypes, AttemptAssumption DEF ClaimAttempt
      <3> QED  BY <1>2, <3>1
    <2>2. y = [r EXCEPT !.st = "needs_attention", !.lease = FALSE]  BY <1>2, <2>1 DEF ClaimRow
    <2>3. y.st = "needs_attention" /\ y.tok = r.tok /\ y.att = r.att
      <3> HIDE DEF r, y
      <3> QED  BY <1>0, <2>2 DEF RowRecord
    <2>4. r.st \in {"pending", "claimed", "running"}  BY <1>2 DEF Listed, Reclaimable
    <2> HIDE DEF y
    <2> QED  BY <1>0, <1>1, <2>3, <2>4, RowStep DEF RowBecomes
  <1>3. CASE ~Listed(r)
    <2>1. y = r  BY <1>3
    <2> HIDE DEF y
    <2> QED  BY <1>0, <1>1, <2>1, RowStep DEF RowBecomes
  <1> QED  BY <1>2, <1>3

\* A reported outcome leaves the row, parks it, or decides it from a status that
\* is not final.
LEMMA OutcomeCases ==
  ASSUME NEW r \in RowRecord, NEW n, NEW t, NEW action \in Outcome
  PROVE  LET s == AfterOutcome(r, n, t, action)
         IN \/ s = r
            \/ /\ r.owner = n /\ r.tok = t /\ s.st = StatusOf(action)
               /\ r.st \in {"claimed", "running"}
                    \union IF action = "needs-attention" THEN {"pending"} ELSE {"needs_attention"}
  <1> DEFINE z == BeforeOutcome(r, n, t, action)
             s == AfterOutcome(r, n, t, action)
  <1>1. \A y \in RowRecord, status \in {"running", "needs_attention", "succeeded", "failed"} :
          LET x == Transition(y, n, t, status)
          IN IF MayTransition(y, n, t, status)
             THEN /\ x.st = status /\ x.owner = y.owner /\ x.tok = y.tok
                  /\ y.owner = n /\ y.tok = t /\ y.st \in From[status]
             ELSE x = y
    BY DEF Transition, MayTransition, OwnsWorkClaim, RowRecord
  <1>2. StatusOf(action) = CASE action = "complete" -> "succeeded" [] action = "fail" -> "failed"
                             [] action = "needs-attention" -> "needs_attention"
    BY DEF StatusOf
  <1>3. s = Transition(z, n, t, StatusOf(action)) /\ z \in RowRecord
    BY TransitionType DEF AfterOutcome, BeforeOutcome
  <1>4. z = r \/ (action = "complete" /\ r.st = "claimed" /\ r.owner = n /\ r.tok = t
                  /\ MayTransition(z, n, t, "succeeded"))
    <2>1. CASE action = "complete" /\ r.st = "claimed" /\ MayTransition(r, n, t, "running")
      <3>1. z = Transition(r, n, t, "running")  BY <2>1 DEF BeforeOutcome
      <3>2. z.st = "running" /\ z.owner = n /\ z.tok = t /\ r.owner = n /\ r.tok = t
        BY <1>1, <2>1, <3>1
      <3> HIDE DEF z
      <3> QED  BY <2>1, <3>2 DEF MayTransition, OwnsWorkClaim, From
    <2>2. CASE ~(action = "complete" /\ r.st = "claimed" /\ MayTransition(r, n, t, "running"))
      BY <2>2 DEF BeforeOutcome, Transition
    <2> QED  BY <2>1, <2>2
  <1> HIDE DEF z, s
  <1>5. CASE z = r
    <2>1. StatusOf(action) \in {"needs_attention", "succeeded", "failed"}  BY <1>2 DEF Outcome
    <2>2. s = r \/ (s.st = StatusOf(action) /\ r.owner = n /\ r.tok = t /\ r.st \in From[StatusOf(action)])
      BY <1>1, <1>3, <1>5, <2>1
    <2>3. From[StatusOf(action)] \subseteq {"claimed", "running"}
            \union IF action = "needs-attention" THEN {"pending"} ELSE {"needs_attention"}
      BY <1>2 DEF Outcome, From
    <2> QED  BY <2>2, <2>3 DEF s
  <1>6. CASE /\ action = "complete" /\ r.st = "claimed" /\ r.owner = n /\ r.tok = t
             /\ MayTransition(z, n, t, "succeeded")
    <2>1. s.st = "succeeded"  BY <1>1, <1>2, <1>3, <1>6
    <2> QED  BY <1>2, <1>6, <2>1 DEF s
  <1> QED  BY <1>4, <1>5, <1>6

\* POST complete and fail decide a run only in an attempt that was executed.
LEMMA OutcomeLives ==
  ASSUME TypeOK, OneCall, SavedBeforeSent, Claims, Numbering, NEW q \in net, ServeOutcome(q)
  PROVE  Life!Next
  <1> DEFINE i == q.item
             r == row[i]
             y == AfterOutcome(r, q.node, q.tok, q.kind)
             x == [item |-> i, tok |-> q.tok, action |-> q.kind]
  <1>0. i \in Item /\ r \in RowRecord /\ q.kind \in Outcome /\ q.node \in Node
    BY AwaitedRun DEF TypeOK, ServeOutcome
  <1>1. row' = [row EXCEPT ![i] = y] /\ UNCHANGED <<produced, execs>>  BY DEF ServeOutcome
  <1>2. y.tok = r.tok /\ y.owner = r.owner /\ y.att = r.att  BY <1>0, OutcomeRowKeeps
  <1>3. \/ y = r
        \/ /\ r.owner = q.node /\ r.tok = q.tok /\ y.st = StatusOf(q.kind)
           /\ r.st \in {"claimed", "running"}
                \union IF q.kind = "needs-attention" THEN {"pending"} ELSE {"needs_attention"}
    BY <1>0, OutcomeCases
  <1>4. x \in produced  BY <1>0 DEF SavedBeforeSent
  <1>5. x.item = i /\ x.tok = q.tok /\ x.action = q.kind  OBVIOUS
  <1> HIDE DEF y
  <1>6. RowBecomes(i, y)  BY <1>1, <1>2 DEF RowBecomes
  <1>7. CASE y = r  BY <1>0, <1>6, <1>7, RowStep
  <1>8. CASE q.kind = "needs-attention" /\ y.st = StatusOf(q.kind) /\ r.st \in {"pending", "claimed", "running"}
    <2>1. y.st = "needs_attention"  BY <1>8 DEF StatusOf
    <2> QED  BY <1>0, <1>2, <1>6, <1>8, <2>1, RowStep
  <1>9. CASE /\ q.kind # "needs-attention" /\ r.owner = q.node /\ r.tok = q.tok /\ y.st = StatusOf(q.kind)
             /\ r.st \in {"claimed", "running", "needs_attention"}
    <2>1. r.owner # NoNode  BY <1>0, <1>9, NodeAssumption
    <2>2. execs[i][r.att] # 0
      <3>1. Current(x.item, x.tok)  BY <1>5, <1>9, <2>1 DEF Current
      <3> HIDE DEF x
      <3>2. Reported(x)  BY <1>4, <1>5, <1>9, <3>1 DEF Numbering, Reports
      <3> QED  BY <1>5, <3>2 DEF Reported
    <2>3. q.kind \in {"complete", "fail"} /\ y.st = Life!Decided[q.kind] /\ q.kind \in DOMAIN Life!Decided
      BY <1>0, <1>9 DEF Outcome, StatusOf, Life!Decided
    <2>4. Statuses[i] = r.st /\ Numbered[i] = r.att /\ Claimed[i] = r.tok
      BY <1>0 DEF Statuses, Numbered, Claimed
    <2>5. Life!Becomes(i, y.st, y.att) /\ UNCHANGED Claimed  BY <1>0, <1>6, RowLife
    <2>6. [item |-> i, tok |-> Claimed[i], action |-> q.kind] \in produced  BY <1>4, <1>9, <2>4
    <2>7. Life!Decide(i)  BY <1>2, <1>9, <2>2, <2>3, <2>4, <2>5, <2>6 DEF Life!Decide, Life!Claimed
    <2> QED  BY <1>0, <2>7 DEF Life!Next
  <1> QED  BY <1>3, <1>7, <1>8, <1>9
\* Every endpoint serves a step of the life, or none.
LEMMA ServeLives ==
  ASSUME TypeOK, OneCall, SavedBeforeSent, Claims, Numbering, NEW q \in net, Serve(q)
  PROVE  Life!Next
  <1> DEFINE i == q.item
             r == row[i]
  <1>0. i \in Item /\ r \in RowRecord  BY AwaitedRun DEF TypeOK
  <1>1. CASE ServeClaim(q)  BY <1>1, GrantLives, RefusalLives
  <1>2. CASE DenyClaim(q)
    <2> DEFINE y == ParkForPolicy(r)
    <2>1. y.tok = r.tok /\ y.att = r.att /\ (y = r \/ (r.st = "pending" /\ y.st = "needs_attention"))
      <3> HIDE DEF r
      <3> QED  BY <1>0 DEF ParkForPolicy, RowRecord
    <2>2. row' = [row EXCEPT ![i] = y] /\ UNCHANGED <<produced, execs>>  BY <1>2 DEF DenyClaim
    <2> HIDE DEF y
    <2> QED  BY <1>0, <2>1, <2>2, RowStep DEF RowBecomes
  <1>3. CASE ServeRunning(q)
    <2> DEFINE y == Transition(r, q.node, q.tok, "running")
    <2>1. y.tok = r.tok /\ y.att = r.att /\ (y = r \/ (r.st = "claimed" /\ y.st = "running"))
      <3> HIDE DEF r
      <3> QED  BY <1>0 DEF Transition, MayTransition, From, RowRecord
    <2>2. row' = [row EXCEPT ![i] = y] /\ UNCHANGED <<produced, execs>>  BY <1>3 DEF ServeRunning
    <2> HIDE DEF y
    <2> QED  BY <1>0, <2>1, <2>2, RowStep DEF RowBecomes
  <1>4. CASE ServeAttempt(q)
    <2> DEFINE may == MayAdvance(row[q.item], q.node, q.tok, q.att)
               a == IF may THEN q.att + 1 ELSE r.att
               y == [r EXCEPT !.att = a]
    <2>1. row' = [row EXCEPT ![i] = y] /\ UNCHANGED <<produced, execs>>
      BY <1>0, <1>4 DEF ServeAttempt, TypeOK
    <2>2. \/ a = r.att
          \/ r.st \in {"claimed", "running"} /\ r.att < MaxAttempts /\ a = r.att + 1
      BY DEF MayAdvance
    <2>3. y.tok = r.tok /\ y.st = r.st /\ y.att = a
      <3> HIDE DEF r, a
      <3> QED  BY <1>0 DEF RowRecord
    <2> HIDE DEF y, a
    <2> QED  BY <1>0, <2>1, <2>2, <2>3, RowStep DEF RowBecomes
  <1>5. CASE ServeOutcome(q)  BY <1>5, OutcomeLives
  <1> QED  BY <1>1, <1>2, <1>3, <1>4, <1>5 DEF Serve

\* A cancellation and a retry, and a lease that runs out.
LEMMA OperatorLives ==
  ASSUME TypeOK,
         \/ \E t \in 1 .. nextTok - 1 : LeaseLapses(t)
         \/ \E j \in Item : Cancel(j) \/ Retry(j)
  PROVE  Life!Next
  <1>1. ASSUME NEW i \in Item, Cancel(i) PROVE Life!Next
    <2> DEFINE y == [row[i] EXCEPT !.st = "cancelled", !.lease = FALSE]
    <2>1. row' = [row EXCEPT ![i] = y] /\ row[i].st \notin Terminal /\ UNCHANGED <<produced, execs>>
      BY <1>1 DEF Cancel, TypeOK
    <2>2. row[i] \in RowRecord  BY DEF TypeOK
    <2>3. y.tok = row[i].tok /\ y.att = row[i].att /\ y.st = "cancelled"  BY <2>2 DEF RowRecord
    <2> HIDE DEF y
    <2> QED  BY <2>1, <2>3, RowStep DEF RowBecomes
  <1>2. ASSUME NEW i \in Item, Retry(i) PROVE Life!Next
    <2> DEFINE y == [row[i] EXCEPT !.st = "pending", !.att = @ + 1, !.owner = NoNode, !.lease = FALSE]
    <2>1. /\ row' = [row EXCEPT ![i] = y] /\ row[i].st \in {"needs_attention", "succeeded", "failed"}
          /\ row[i].att < MaxAttempts /\ UNCHANGED <<produced, execs>>
      BY <1>2 DEF Retry
    <2>2. row[i] \in RowRecord  BY DEF TypeOK
    <2>3. y.tok = row[i].tok /\ y.att = row[i].att + 1 /\ y.st = "pending"  BY <2>2 DEF RowRecord
    <2> HIDE DEF y
    <2> QED  BY <2>1, <2>3, RowStep DEF RowBecomes
  <1>3. ASSUME NEW t \in 1 .. nextTok - 1, LeaseLapses(t) PROVE Life!Next
    BY <1>3, AsideStep DEF LeaseLapses
  <1> QED  BY <1>1, <1>2, <1>3

-----------------------------------------------------------------------------
(* The machines implement the life of a run. *)

\* The agent starts under a number that was issued and never executed.
LEMMA ExecuteLives ==
  ASSUME TypeOK, Claims, Numbering, NEW n \in Node, NEW i \in Item, NEW a \in Nat,
         Held(n, i), a = Top(run[n][i]), a \in Due(run[n][i]),
         execs' = [execs EXCEPT ![i][a] = @ + 1], UNCHANGED <<row, produced>>
  PROVE  Life!Next
  <1>1. a <= row[i].att  BY DEF Claims, Numbers
  <1>2. a \in Attempt
    <2>1. run[n][i].att \in Attempt  BY DEF Numbering, Attempts
    <2>2. run[n][i].att <= a  BY <2>1, RequestTypes DEF Top
    <2> QED  BY <1>1, <2>1, <2>2, RequestTypes, AttemptAssumption DEF Attempt
  <1>3. execs[i][a] = 0  BY <1>2 DEF Claims, Numbers
  <1>4. execs' = [execs EXCEPT ![i][a] = 1]  BY <1>3
  <1>5. Numbered[i] = row[i].att  BY DEF Numbered
  <1>6. UNCHANGED <<Statuses, Numbered, Claimed>>  BY DEF Statuses, Numbered, Claimed
  <1>7. Life!Execute(i, a)  BY <1>1, <1>3, <1>4, <1>5, <1>6 DEF Life!Execute
  <1> QED  BY <1>2, <1>7 DEF Life!Next, Attempt

\* The agent comes to the first outcome of its claim, having executed an attempt.
LEMMA FinishLives ==
  ASSUME TypeOK, Claims, Numbering, NEW n \in Node, NEW i \in Item, NEW action \in Outcome,
         Finish(n, i, action), run[n][i].pc \in {"agent", "checking"},
         row' = row \/ row' = [row EXCEPT ![i].denied = TRUE], execs' = execs
  PROVE  Life!Next
  <1> DEFINE r == run[n][i]
             z == [item |-> i, tok |-> r.tok, action |-> action]
  <1>1. produced' = produced \union {z}  BY DEF Finish
  <1>2. Held(n, i)
    <2>1. WellTokened(r)  BY DEF Claims, Tokens
    <2> QED  BY <2>1 DEF WellTokened, Held
  <1>3. z.item = i /\ z.tok = r.tok  OBVIOUS
  <1> HIDE DEF z
  <1>4. \A x \in produced : x.item = i => x.tok # r.tok  BY <1>2 DEF Claims, Sole, HasNoResult
  <1>5. r.tok <= row[i].tok  BY DEF Claims, Tokens
  <1>6. r.att \in 1 .. row[i].att /\ execs[i][r.att] # 0
    <2>1. r.att \in Attempt /\ execs[i][r.att] # 0  BY <1>2 DEF Numbering, Attempts, Executing
    <2>2. r.att <= row[i].att  BY <2>1 DEF Claims, Numbers
    <2> QED  BY <2>1, <2>2, RequestTypes DEF Attempt
  <1>7. Claimed[i] = row[i].tok /\ Numbered[i] = row[i].att  BY DEF Claimed, Numbered
  <1>8. \A j \in Item : row'[j].st = row[j].st /\ row'[j].att = row[j].att /\ row'[j].tok = row[j].tok
    <2> TAKE j \in Item
    <2>1. row[j] \in RowRecord  BY DEF TypeOK
    <2>2. row'[j] = row[j] \/ row'[j] = [row[j] EXCEPT !.denied = TRUE]  BY DEF TypeOK
    <2> QED  BY <2>1, <2>2 DEF RowRecord
  <1>9. UNCHANGED <<Statuses, Numbered, Claimed>>  BY <1>8 DEF Statuses, Numbered, Claimed
  <1>10. Life!Report
    <2>1. z \in produced' \ produced  BY <1>1, <1>3, <1>4
    <2>2. z.tok <= Claimed[z.item]  BY <1>3, <1>5, <1>7
    <2>3. \E a \in 1 .. Numbered[z.item] : execs[z.item][a] # 0  BY <1>3, <1>6, <1>7
    <2>4. \A y \in produced : y.item = z.item => y.tok # z.tok  BY <1>3, <1>4
    <2> HIDE DEF r
    <2> QED  BY <1>1, <1>9, <2>1, <2>2, <2>3, <2>4 DEF Life!Report
  <1> QED  BY <1>10 DEF Life!Next

\* A step of a run executes an attempt, reports, or is none of the run's life.
LEMMA RunStepLives ==
  ASSUME TypeOK, Claims, Numbering, NEW n \in Node, NEW i \in Item, RunStep(n, i)
  PROVE  Life!Next
  <1> DEFINE r == run[n][i]
  <1>1. r \in RunRecord /\ WellTokened(r) /\ r.att \in Nat  BY RequestTypes DEF TypeOK, Claims, Tokens
  <1>2. row' = row /\ UNCHANGED <<produced, execs>> => Life!Next  BY AsideStep
  <1>3. CASE \/ ClaimReply(n, i) \/ StartFails(n, i) \/ AgentRetries(n, i) \/ AgentAborted(n, i)
             \/ ReserveFails(n, i) \/ FinishReply(n, i) \/ FinishFails(n, i)
             \/ CheckLease(n, i) \/ ServeHeartbeat(n, i) \/ DeadlineFires(n, i)
    <2>1. row' = row /\ UNCHANGED <<produced, execs>>
      BY <1>3 DEF ClaimReply, StartFails, AgentRetries, AgentAborted, Unwind, ReserveFails, FinishReply,
                  FinishFails, CheckLease, ServeHeartbeat, DeadlineFires, serverVars
    <2> QED  BY <1>2, <2>1
  <1>4. CASE StartReply(n, i)
    <2>0. row' = row /\ UNCHANGED produced /\ r.pc = "starting"  BY <1>4 DEF StartReply, serverVars
    <2>1. CASE r.reply = "ok" /\ r.active
      <3>1. execs' = [execs EXCEPT ![i][r.att] = @ + 1]  BY <1>4, <2>1 DEF StartReply
      <3>2. Held(n, i) /\ r.att = Top(r) /\ r.att \in Due(r)  BY <1>1, <2>0 DEF WellTokened, Held, Top, Due
      <3> QED  BY <1>1, <2>0, <3>1, <3>2, ExecuteLives
    <2>2. CASE ~(r.reply = "ok" /\ r.active)  BY <1>2, <1>4, <2>0, <2>2 DEF StartReply
    <2> QED  BY <2>1, <2>2
  <1>5. CASE ReserveReply(n, i)
    <2>0. row' = row /\ UNCHANGED produced /\ r.pc = "reserving"  BY <1>5 DEF ReserveReply, serverVars
    <2>1. CASE r.reply = "ok" /\ r.active
      <3> DEFINE b == r.att + 1
      <3>1. execs' = [execs EXCEPT ![i][b] = @ + 1]  BY <1>5, <2>1 DEF ReserveReply
      <3>2. b \in Nat /\ Held(n, i) /\ b = Top(r) /\ b \in Due(r)
        BY <1>1, <2>0, <2>1 DEF WellTokened, Held, Top, Due
      <3> HIDE DEF b
      <3> QED  BY <2>0, <3>1, <3>2, ExecuteLives
    <2>2. CASE ~(r.reply = "ok" /\ r.active)  BY <1>2, <1>5, <2>0, <2>2 DEF ReserveReply
    <2> QED  BY <2>1, <2>2
  <1>6. CASE AgentEnds(n, i)
    <2>1. PICK action \in Outcome : Finish(n, i, action)  BY <1>6 DEF AgentEnds, Outcome
    <2>2. execs' = execs /\ r.pc = "agent"  BY <1>6 DEF AgentEnds
    <2>3. row' = row \/ row' = [row EXCEPT ![i].denied = TRUE]  BY <1>6 DEF AgentEnds
    <2> QED  BY <2>1, <2>2, <2>3, FinishLives
  <1>7. CASE HeartbeatReply(n, i) \/ HeartbeatFails(n, i)
    <2>0. row' = row /\ execs' = execs  BY <1>7 DEF HeartbeatReply, HeartbeatFails, serverVars
    <2>1. PICK a : Checked(n, i, a)  BY <1>7 DEF HeartbeatReply, HeartbeatFails
    <2>2. CASE r.pc = "checking" /\ a
      <3> DEFINE na == "needs-attention"
      <3>1. na \in Outcome /\ Finish(n, i, na)  BY <2>1, <2>2 DEF Checked, Outcome
      <3> HIDE DEF na
      <3> QED  BY <2>0, <2>2, <3>1, FinishLives
    <2>3. CASE ~(r.pc = "checking" /\ a)
      <3>1. produced' = produced  BY <2>1, <2>3 DEF Checked, Unwind
      <3> QED  BY <1>2, <2>0, <3>1
    <2> QED  BY <2>2, <2>3
  <1> QED  BY <1>3, <1>4, <1>5, <1>6, <1>7 DEF RunStep

\* Every step of the queue and its pollers is one of the run's life, or none.
LEMMA NextLives ==
  ASSUME Inv, Claims, Numbering, [Next]_vars
  PROVE  Life!Next
  <1>0. TypeOK /\ OneCall /\ SavedBeforeSent  BY DEF Inv
  <1>1. CASE UNCHANGED vars  BY <1>1, AsideStep DEF vars
  <1>2. ASSUME NEW q \in net, Serve(q)  PROVE Life!Next  BY <1>0, <1>2, ServeLives
  <1>3. ASSUME NEW n \in Node, Poller(n)  PROVE Life!Next
    <2>1. row' = row /\ produced' = produced /\ execs' = execs
      BY <1>3 DEF Poller, FlushBegin, FlushReply, FlushFails, Tick, Crash, serverVars
    <2> QED  BY <2>1, AsideStep
  <1>4. ASSUME NEW n \in Node, NEW i \in Item, RunStep(n, i)  PROVE Life!Next
    BY <1>0, <1>4, RunStepLives
  <1>5. CASE \/ \E t \in 1 .. nextTok - 1 : LeaseLapses(t)
             \/ \E j \in Item : Cancel(j) \/ Retry(j)
    BY <1>0, <1>5, OperatorLives
  <1> QED  BY <1>1, <1>2, <1>3, <1>4, <1>5 DEF Next

\* The hosted queue implements the documented life of a run (docs/automation-runs.md),
\* through lost and late calls, crashes, reclaims and repeated reservations: an
\* attempt is executed once and only after it was issued, a claim is never reused,
\* and a run is decided by the one outcome of its claim, in an attempt that ran.
THEOREM LifecycleRefinement == Spec => Lifecycle
  <1>1. Init => Life!Init
    <2> SUFFICES ASSUME Init PROVE Life!Init  OBVIOUS
    <2>1. Statuses = [i \in Item |-> "pending"]  BY DEF Init, Statuses
    <2>2. Numbered = [i \in Item |-> 1]  BY DEF Init, Numbered
    <2>3. Claimed = [i \in Item |-> 0]  BY DEF Init, Claimed, NoTok
    <2>4. execs = [i \in Item |-> [a \in 1 .. MaxAttempts |-> 0]] /\ produced = {}  BY DEF Init, Attempt
    <2> QED  BY <2>1, <2>2, <2>3, <2>4 DEF Life!Init
  <1>2. Inv /\ Claims /\ Numbering /\ [Next]_vars => Life!Next  BY NextLives
  <1> QED  BY <1>1, <1>2, Invariance, ClaimInvariance, NumberingInvariance, PTL DEF Spec, Lifecycle, Life!Spec
=============================================================================
