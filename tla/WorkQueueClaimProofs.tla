------------------------- MODULE WorkQueueClaimProofs -------------------------
(***************************************************************************)
(* Who may run the agent, and how often, for every value of the constants: *)
(* claim tokens order the claims of a row, attempt numbers follow that     *)
(* order, and a claim whose lease has not run out is the row's.  With one  *)
(* run, that a saved result is kept until the row no longer waits for it.  *)
(***************************************************************************)
EXTENDS WorkQueueProofs

Held(n, i) == run[n][i].tok # NoTok

\* The highest attempt number a run has, or was granted by its last reservation.
Top(r) == IF r.pc = "reserving" /\ r.reply = "ok" THEN r.att + 1 ELSE r.att

\* The attempt numbers whose agent a run may yet start without asking again.
Due(r) == IF r.tok # NoTok /\ r.pc \in {"claiming", "starting"} THEN {r.att}
          ELSE IF r.pc = "reserving" /\ r.reply = "ok" THEN {r.att + 1} ELSE {}

\* A run has a claim token once its claim was granted.
WellTokened(r) ==
  /\ r.pc \notin {"idle", "claiming"} => r.tok # NoTok
  /\ r.pc = "claiming" => (r.tok # NoTok <=> r.reply = "ok")

\* Tokens are handed out in ascending order, each to one run.
Tokens ==
  /\ \A i \in Item : row[i].tok < nextTok /\ (row[i].st \notin {"claimed", "running"} => ~row[i].lease)
  /\ \A x \in produced : x.tok < nextTok
  /\ \A n \in Node, i \in Item : run[n][i].tok <= row[i].tok /\ WellTokened(run[n][i])
  /\ \A n, m \in Node, i \in Item : n # m /\ Held(n, i) => run[n][i].tok # run[m][i].tok

\* Until its lease runs out, a claim that has produced no result is the row's.
HasNoResult(i, t) == \A x \in produced : x.item = i => x.tok # t
Sole ==
  \A n \in Node, i \in Item : Held(n, i) /\ run[n][i].pc # "finishing" =>
    /\ run[n][i].tok \notin lapsed =>
         row[i].tok = run[n][i].tok /\ row[i].owner = n /\ row[i].st \in {"claimed", "running", "cancelled"}
    /\ HasNoResult(i, run[n][i].tok)

\* Attempt numbers follow the order of the tokens, and a number that is due has
\* not been used.
Numbers ==
  /\ \A n \in Node, i \in Item : Held(n, i) =>
       /\ Top(run[n][i]) <= row[i].att
       /\ (run[n][i].tok # row[i].tok \/ row[i].st = "pending") => Top(run[n][i]) < row[i].att
       /\ run[n][i].tok = row[i].tok => \A a \in Attempt : a > run[n][i].att => execs[i][a] = 0
  /\ \A n, m \in Node, i \in Item :
       Held(n, i) /\ run[n][i].tok < run[m][i].tok => Top(run[n][i]) < run[m][i].att
  /\ \A n \in Node, i \in Item : \A a \in Attempt : a \in Due(run[n][i]) => execs[i][a] = 0
  /\ \A i \in Item : \A a \in Attempt : execs[i][a] # 0 =>
       a <= row[i].att /\ (row[i].st = "pending" => a < row[i].att)
  /\ AttemptExecutedOnce

Claims == Tokens /\ Sole /\ Numbers

-----------------------------------------------------------------------------
(* Steps that grant no claim and start no agent. *)

\* A run that asks for a claim, or none.
Fresh(x) == x.tok = NoTok /\ (x.pc = "idle" \/ (x.pc = "claiming" /\ x.reply # "ok"))

\* Run r goes on as x: with its claim; with its attempt too, and no number to
\* start that it did not have before.
Carries(x, r) == x.tok = r.tok /\ (r.pc = "finishing" => x.pc = "finishing") /\ WellTokened(x)
Continues(x, r) == Carries(x, r) /\ x.att = r.att /\ Due(x) \subseteq Due(r) /\ Top(x) <= Top(r)
Steady(x, r) == Fresh(x) \/ Continues(x, r)

\* Row r of item i becomes y: under the same token, and a claim that is the
\* row's stays so unless it lapsed or produced a result.
RowSteady(y, r, i) ==
  /\ y.tok = r.tok /\ r.att <= y.att
  /\ y.st = "pending" => r.st = "pending" \/ r.att < y.att
  /\ y.st \notin {"claimed", "running"} => ~y.lease
  /\ r.st \in {"claimed", "running", "cancelled"} /\ r.tok \notin lapsed /\ HasNoResult(i, r.tok) =>
       y.owner = r.owner /\ y.st \in {"claimed", "running", "cancelled"}

\* What the types say of tokens and attempt numbers.
LEMMA NumberTypes ==
  ASSUME NEW rows \in [Item -> RowRecord], NEW runs \in [Node -> [Item -> RunRecord]]
  PROVE  /\ \A i \in Item : rows[i].tok \in Nat /\ rows[i].att \in Nat
         /\ \A n \in Node, i \in Item :
              runs[n][i].tok \in Nat /\ runs[n][i].att \in Nat /\ Top(runs[n][i]) \in Nat
         /\ \A a \in Attempt : a \in Nat
  <1>1. \A i \in Item : rows[i] \in RowRecord  OBVIOUS
  <1>2. \A n \in Node, i \in Item : runs[n][i] \in RunRecord  OBVIOUS
  <1>3. \A i \in Item : rows[i].tok \in Nat /\ rows[i].att \in Nat
    BY <1>1, AttemptAssumption DEF RowRecord, Attempt
  <1>4. \A n \in Node, i \in Item : runs[n][i].tok \in Nat /\ runs[n][i].att \in Nat
    BY <1>2 DEF RunRecord
  <1>5. \A n \in Node, i \in Item : Top(runs[n][i]) \in Nat  BY <1>4 DEF Top
  <1> QED  BY <1>3, <1>4, <1>5, AttemptAssumption DEF Attempt

\* A step that hands out no token keeps the tokens and the claims they stand for.
LEMMA TokensKept ==
  ASSUME TypeOK, TypeOK', Claims,
         \A i \in Item : RowSteady(row'[i], row[i], i),
         \A n \in Node, i \in Item : Fresh(run'[n][i]) \/ Carries(run'[n][i], run[n][i]),
         nextTok' = nextTok, lapsed \subseteq lapsed',
         \A x \in produced' : x \in produced \/ \E n \in Node :
           /\ x.item \in Item /\ Held(n, x.item) /\ x.tok = run[n][x.item].tok
           /\ run'[n][x.item].pc = "finishing"
  PROVE  Tokens' /\ Sole'
  <1>t. /\ nextTok \in Nat
        /\ \A i \in Item : row[i].tok \in Nat /\ row'[i].tok \in Nat
        /\ \A n \in Node, i \in Item : run[n][i].tok \in Nat /\ run'[n][i].tok \in Nat
    BY NumberTypes DEF TypeOK
  <1>r. \A i \in Item : row'[i].tok = row[i].tok  BY DEF RowSteady
  <1>f. \A n \in Node, i \in Item : ~Held(n, i)' \/ Carries(run'[n][i], run[n][i])
    BY DEF Fresh, Held
  <1>c. \A n \in Node, i \in Item : Held(n, i)' =>
          /\ Held(n, i) /\ run'[n][i].tok = run[n][i].tok
          /\ run'[n][i].pc # "finishing" => run[n][i].pc # "finishing"
    BY <1>f DEF Carries, Held
  <1>1. Tokens'
    <2>1. \A i \in Item : row'[i].tok < nextTok' /\ (row'[i].st \notin {"claimed", "running"} => ~row'[i].lease)
      BY DEF RowSteady, Claims, Tokens
    <2>2. \A x \in produced' : x.tok < nextTok'
      <3> TAKE x \in produced'
      <3>1. CASE x \in produced  BY <3>1 DEF Claims, Tokens
      <3>2. CASE x \notin produced
        <4>1. PICK n \in Node : x.item \in Item /\ x.tok = run[n][x.item].tok  BY <3>2
        <4>2. x.tok <= row[x.item].tok /\ row[x.item].tok < nextTok  BY <4>1 DEF Claims, Tokens
        <4> QED  BY <4>1, <4>2, <1>t
      <3> QED  BY <3>1, <3>2
    <2>3. ASSUME NEW n \in Node, NEW i \in Item  PROVE run'[n][i].tok <= row'[i].tok /\ WellTokened(run'[n][i])
      <3>1. CASE Held(n, i)'
        <4>1. run[n][i].tok <= row[i].tok  BY DEF Claims, Tokens
        <4> QED  BY <3>1, <4>1, <1>c, <1>f, <1>r DEF Carries
      <3>2. CASE ~Held(n, i)'
        <4>1. run'[n][i].tok = 0  BY <3>2 DEF Held, NoTok
        <4>2. WellTokened(run'[n][i])
          BY DEF Fresh, Carries, WellTokened
        <4> QED  BY <4>1, <4>2, <1>t
      <3> QED  BY <3>1, <3>2
    <2>4. ASSUME NEW n \in Node, NEW m \in Node, NEW i \in Item, n # m, Held(n, i)'
          PROVE  run'[n][i].tok # run'[m][i].tok
      <3>1. CASE Held(m, i)'
        BY <2>4, <3>1, <1>c DEF Claims, Tokens
      <3>2. CASE ~Held(m, i)'  BY <2>4, <3>2 DEF Held
      <3> QED  BY <3>1, <3>2
    <2> QED  BY <2>1, <2>2, <2>3, <2>4 DEF Tokens
  <1>2. Sole'
    <2> SUFFICES ASSUME NEW n \in Node, NEW i \in Item, Held(n, i)', run'[n][i].pc # "finishing"
                 PROVE  /\ run'[n][i].tok \notin lapsed' =>
                             /\ row'[i].tok = run'[n][i].tok /\ row'[i].owner = n
                             /\ row'[i].st \in {"claimed", "running", "cancelled"}
                        /\ \A x \in produced' : x.item = i => x.tok # run'[n][i].tok
      BY DEF Sole, HasNoResult
    <2>1. Held(n, i) /\ run[n][i].pc # "finishing" /\ run'[n][i].tok = run[n][i].tok  BY <1>c
    <2>2. HasNoResult(i, run[n][i].tok)  BY <2>1 DEF Claims, Sole
    <2>3. run[n][i].tok \notin lapsed =>
            row[i].tok = run[n][i].tok /\ row[i].owner = n /\ row[i].st \in {"claimed", "running", "cancelled"}
      BY <2>1 DEF Claims, Sole
    <2>4. run'[n][i].tok \notin lapsed' =>
            /\ row'[i].tok = run'[n][i].tok /\ row'[i].owner = n
            /\ row'[i].st \in {"claimed", "running", "cancelled"}
      BY <2>1, <2>2, <2>3 DEF RowSteady
    <2>5. ASSUME NEW x \in produced', x.item = i  PROVE x.tok # run[n][i].tok
      <3>1. CASE x \in produced  BY <2>2, <2>5, <3>1 DEF HasNoResult
      <3>2. CASE x \notin produced
        <4>1. PICK m \in Node : Held(m, i) /\ x.tok = run[m][i].tok /\ run'[m][i].pc = "finishing"
          BY <2>5, <3>2
        <4>2. m # n  BY <4>1
        <4> QED  BY <4>1, <4>2 DEF Claims, Tokens
      <3> QED  BY <3>1, <3>2
    <2> QED  BY <2>1, <2>4, <2>5
  <1> QED  BY <1>1, <1>2

\* A step that grants no claim and starts no agent keeps the claims in order.
LEMMA CalmStep ==
  ASSUME TypeOK, TypeOK', Claims,
         \A i \in Item : RowSteady(row'[i], row[i], i),
         \A n \in Node, i \in Item : Steady(run'[n][i], run[n][i]),
         nextTok' = nextTok, lapsed \subseteq lapsed', execs' = execs,
         \A x \in produced' : x \in produced \/ \E n \in Node :
           /\ x.item \in Item /\ Held(n, x.item) /\ x.tok = run[n][x.item].tok
           /\ run'[n][x.item].pc = "finishing"
  PROVE  Claims'
  <1>t. /\ nextTok \in Nat
        /\ \A i \in Item : row[i].tok \in Nat /\ row[i].att \in Nat /\ row'[i].tok \in Nat /\ row'[i].att \in Nat
        /\ \A n \in Node, i \in Item :
             /\ run[n][i].tok \in Nat /\ run[n][i].att \in Nat /\ Top(run[n][i]) \in Nat
             /\ run'[n][i].tok \in Nat /\ run'[n][i].att \in Nat /\ Top(run'[n][i]) \in Nat
        /\ \A i \in Item : \A a \in Attempt : a \in Nat
    BY NumberTypes DEF TypeOK
  <1>r. \A i \in Item : /\ row'[i].tok = row[i].tok /\ row[i].att <= row'[i].att
                        /\ row'[i].st = "pending" => row[i].st = "pending" \/ row[i].att < row'[i].att
    BY DEF RowSteady
  <1>f. \A n \in Node, i \in Item : ~Held(n, i)' \/ Continues(run'[n][i], run[n][i])
    BY DEF Steady, Fresh, Held
  <1>c. \A n \in Node, i \in Item : Held(n, i)' =>
          /\ Held(n, i) /\ run'[n][i].tok = run[n][i].tok /\ run'[n][i].att = run[n][i].att
          /\ Top(run'[n][i]) <= Top(run[n][i])
          /\ run'[n][i].pc # "finishing" => run[n][i].pc # "finishing"
    BY <1>f DEF Continues, Carries, Held
  <1>1. Tokens' /\ Sole'
    <2>1. \A n \in Node, i \in Item : Fresh(run'[n][i]) \/ Carries(run'[n][i], run[n][i])
      BY DEF Steady, Continues
    <2> QED  BY <2>1, TokensKept
  <1>3. Numbers'
    <2>1. ASSUME NEW n \in Node, NEW i \in Item, Held(n, i)'
          PROVE  /\ Top(run'[n][i]) <= row'[i].att
                 /\ run'[n][i].tok # row'[i].tok \/ row'[i].st = "pending" => Top(run'[n][i]) < row'[i].att
                 /\ run'[n][i].tok = row'[i].tok => \A a \in Attempt : a > run'[n][i].att => execs'[i][a] = 0
      <3>1. /\ Held(n, i) /\ run'[n][i].tok = run[n][i].tok /\ run'[n][i].att = run[n][i].att
            /\ Top(run'[n][i]) <= Top(run[n][i])
        BY <2>1, <1>c
      <3>2. /\ Top(run[n][i]) <= row[i].att
            /\ run[n][i].tok # row[i].tok \/ row[i].st = "pending" => Top(run[n][i]) < row[i].att
            /\ run[n][i].tok = row[i].tok => \A a \in Attempt : a > run[n][i].att => execs[i][a] = 0
        BY <3>1 DEF Claims, Numbers
      <3> QED  BY <3>1, <3>2, <1>r, <1>t
    <2>2. ASSUME NEW n \in Node, NEW m \in Node, NEW i \in Item, Held(n, i)', run'[n][i].tok < run'[m][i].tok
          PROVE  Top(run'[n][i]) < run'[m][i].att
      <3>1. Held(m, i)'  BY <2>2, <1>t DEF Held, NoTok
      <3>2. Held(n, i) /\ run[n][i].tok < run[m][i].tok /\ run'[m][i].att = run[m][i].att
            /\ Top(run'[n][i]) <= Top(run[n][i])
        BY <2>2, <3>1, <1>c
      <3>3. Top(run[n][i]) < run[m][i].att  BY <3>2 DEF Claims, Numbers
      <3> QED  BY <3>2, <3>3, <1>t
    <2>3. ASSUME NEW n \in Node, NEW i \in Item, NEW a \in Attempt, a \in Due(run'[n][i])
          PROVE  execs'[i][a] = 0
      <3>1. a \in Due(run[n][i])
        <4>1. CASE Fresh(run'[n][i])
          BY <4>1, <2>3 DEF Fresh, Due
        <4>2. CASE Continues(run'[n][i], run[n][i])  BY <4>2, <2>3 DEF Continues
        <4> QED  BY <4>1, <4>2 DEF Steady
      <3> QED  BY <3>1 DEF Claims, Numbers
    <2>4. ASSUME NEW i \in Item, NEW a \in Attempt, execs'[i][a] # 0
          PROVE  a <= row'[i].att /\ (row'[i].st = "pending" => a < row'[i].att)
      <3>1. a <= row[i].att /\ (row[i].st = "pending" => a < row[i].att)  BY <2>4 DEF Claims, Numbers
      <3> QED  BY <3>1, <1>r, <1>t
    <2>5. AttemptExecutedOnce'  BY DEF Claims, Numbers, AttemptExecutedOnce
    <2> QED  BY <2>1, <2>2, <2>3, <2>4, <2>5 DEF Numbers
  <1> QED  BY <1>1, <1>3 DEF Claims

\* A row that keeps its status, owner, token, lease and attempt.
LEMMA RowIdle ==
  ASSUME TypeOK, Claims, NEW i \in Item, NEW y, y.tok = row[i].tok, y.att = row[i].att, y.st = row[i].st,
         y.owner = row[i].owner, y.lease = row[i].lease
  PROVE  RowSteady(y, row[i], i)
  <1>1. row[i].att \in Nat  BY NumberTypes DEF TypeOK
  <1> QED  BY <1>1 DEF RowSteady, Claims, Tokens

\* A run that waits, is heard of, checks its lease, reports or moves on to start.
LEMMA GoesOn ==
  ASSUME TypeOK, Claims, NEW n \in Node, NEW i \in Item, NEW x \in RunRecord,
         x.tok = run[n][i].tok, x.att = run[n][i].att,
         \/ x.pc = run[n][i].pc /\ (x.reply = run[n][i].reply \/ x.pc \in {"starting", "finishing"})
         \/ run[n][i].pc \notin {"idle", "claiming", "finishing"} /\ x.reply # "ok"
            /\ x.pc \in {"reserving", "checking", "finishing"}
         \/ run[n][i].pc = "claiming" /\ run[n][i].reply = "ok" /\ x.pc = "starting"
  PROVE  Continues(x, run[n][i])
  <1> DEFINE r == run[n][i]
  <1>1. r \in RunRecord /\ WellTokened(r) /\ r.tok \in Nat /\ r.att \in Nat
    BY NumberTypes DEF TypeOK, Claims, Tokens
  <1> HIDE DEF r
  <1>2. ASSUME x.pc = r.pc, x.reply = r.reply \/ x.pc \in {"starting", "finishing"}
        PROVE  Carries(x, r) /\ Due(x) \subseteq Due(r) /\ Top(x) <= Top(r)
    BY <1>1, <1>2 DEF r, Carries, WellTokened, Due, Top
  <1>3. ASSUME r.pc \notin {"idle", "claiming", "finishing"}, x.reply # "ok",
               x.pc \in {"reserving", "checking", "finishing"}
        PROVE  Carries(x, r) /\ Due(x) \subseteq Due(r) /\ Top(x) <= Top(r)
    BY <1>1, <1>3 DEF r, Carries, WellTokened, Due, Top
  <1>4. ASSUME r.pc = "claiming", r.reply = "ok", x.pc = "starting"
        PROVE  Carries(x, r) /\ Due(x) \subseteq Due(r) /\ Top(x) <= Top(r)
    BY <1>1, <1>4 DEF r, Carries, WellTokened, Due, Top
  <1> QED  BY <1>2, <1>3, <1>4 DEF r, Continues

\* A run that does not change goes on.
LEMMA StandsStill ==
  ASSUME TypeOK, Claims, NEW n \in Node, NEW i \in Item
  PROVE  Continues(run[n][i], run[n][i])
  <1>1. run[n][i] \in RunRecord  BY DEF TypeOK
  <1> QED  BY <1>1, GoesOn

\* One run goes on or ends, the rows keep what matters.
LEMMA RunMoves ==
  ASSUME TypeOK, TypeOK', Claims, NEW n \in Node, NEW i \in Item, NEW x,
         run' = [run EXCEPT ![n][i] = x], Steady(x, run[n][i]),
         \A j \in Item : /\ row'[j].tok = row[j].tok /\ row'[j].att = row[j].att /\ row'[j].st = row[j].st
                         /\ row'[j].owner = row[j].owner /\ row'[j].lease = row[j].lease,
         nextTok' = nextTok, lapsed' = lapsed, execs' = execs,
         \A z \in produced' : z \in produced \/
           (z.item = i /\ Held(n, i) /\ z.tok = run[n][i].tok /\ x.pc = "finishing")
  PROVE  Claims'
  <1>1. run'[n][i] = x /\ \A m \in Node, j \in Item : m # n \/ j # i => run'[m][j] = run[m][j]
    BY DEF TypeOK
  <1>2. \A m \in Node, j \in Item : Steady(run'[m][j], run[m][j])
    BY <1>1, StandsStill DEF Steady
  <1>3. \A j \in Item : RowSteady(row'[j], row[j], j)  BY RowIdle
  <1>4. \A z \in produced' : z \in produced \/ \E m \in Node :
           /\ z.item \in Item /\ Held(m, z.item) /\ z.tok = run[m][z.item].tok
           /\ run'[m][z.item].pc = "finishing"
    BY <1>1
  <1> QED  BY <1>2, <1>3, <1>4, CalmStep

-----------------------------------------------------------------------------
(* The agent is started. *)

\* The run of n starts the agent under number b, which was due to it.
LEMMA AgentStarts ==
  ASSUME TypeOK, TypeOK', Claims, NEW n \in Node, NEW i \in Item, NEW x, NEW b \in Nat,
         run' = [run EXCEPT ![n][i] = x], b \in Due(run[n][i]),
         x.pc = "agent", x.tok = run[n][i].tok, x.att = b,
         execs' = [execs EXCEPT ![i][b] = @ + 1],
         UNCHANGED <<row, lapsed, nextTok, produced>>
  PROVE  Claims'
  <1> DEFINE r == run[n][i]
  <1>t. /\ \A j \in Item : row[j].tok \in Nat /\ row[j].att \in Nat
        /\ \A m \in Node, j \in Item : run[m][j].tok \in Nat /\ run[m][j].att \in Nat /\ Top(run[m][j]) \in Nat
        /\ \A a \in Attempt : a \in Nat
    BY NumberTypes DEF TypeOK
  <1>1. run'[n][i] = x /\ \A m \in Node, j \in Item : m # n \/ j # i => run'[m][j] = run[m][j]
    BY DEF TypeOK
  <1>2. r.tok # NoTok /\ r.pc \in {"claiming", "starting", "reserving"}
    BY DEF Due, Claims, Tokens, WellTokened
  <1>3. r.att <= b /\ b <= Top(r)  BY <1>2, <1>t DEF Due, Top
  <1>4. Top(x) = b /\ Due(x) = {} /\ Carries(x, r)  BY <1>2 DEF Top, Due, Carries, WellTokened
  <1>5. \A j \in Item : \A a \in Attempt :
          execs'[j][a] = IF j = i /\ a = b THEN execs[j][a] + 1 ELSE execs[j][a]
    BY DEF TypeOK
  <1>6. Tokens' /\ Sole'
    <2>1. \A m \in Node, j \in Item : Fresh(run'[m][j]) \/ Carries(run'[m][j], run[m][j])
      BY <1>1, <1>4, StandsStill DEF Continues
    <2>2. \A j \in Item : RowSteady(row'[j], row[j], j)  BY RowIdle
    <2> QED  BY <2>1, <2>2, TokensKept
  <1>7. ASSUME NEW m \in Node, m # n, Held(m, i)
        PROVE  run[m][i].tok # r.tok /\ (run[m][i].tok < r.tok => Top(run[m][i]) < r.att)
               /\ (r.tok < run[m][i].tok => Top(r) < run[m][i].att)
    BY <1>7, <1>2 DEF Claims, Tokens, Numbers, Held
  <1>8. ASSUME NEW m \in Node, Held(m, i), run[m][i].tok = row[i].tok, NEW a \in Attempt, a > run'[m][i].att
        PROVE  execs'[i][a] = 0
    <2>1. CASE m = n
      <3>1. a > b /\ a > r.att  BY <2>1, <1>1, <1>3, <1>8, <1>t
      <3>2. execs[i][a] = 0  BY <3>1, <1>8, <2>1 DEF Claims, Numbers
      <3> QED  BY <3>1, <3>2, <1>5, <1>t
    <2>2. CASE m # n
      <3>1. r.tok < run[m][i].tok
        <4>1. r.tok <= row[i].tok /\ r.tok # run[m][i].tok  BY <1>7, <1>8, <2>2 DEF Claims, Tokens
        <4> QED  BY <4>1, <1>8, <1>t
      <3>2. Top(r) < run[m][i].att /\ run'[m][i] = run[m][i]  BY <3>1, <1>1, <1>7, <1>8, <2>2
      <3>3. a # b  BY <3>2, <1>3, <1>8, <1>t
      <3>4. execs[i][a] = 0  BY <1>8, <3>2 DEF Claims, Numbers
      <3> QED  BY <3>3, <3>4, <1>5
    <2> QED  BY <2>1, <2>2
  <1>9. Numbers'
    <2>1. ASSUME NEW m \in Node, NEW j \in Item, Held(m, j)'
          PROVE  /\ Top(run'[m][j]) <= row[j].att
                 /\ run'[m][j].tok # row[j].tok \/ row[j].st = "pending" => Top(run'[m][j]) < row[j].att
                 /\ run'[m][j].tok = row[j].tok => \A a \in Attempt : a > run'[m][j].att => execs'[j][a] = 0
      <3>0. run'[m][j].tok = run[m][j].tok /\ Held(m, j) /\ Top(run'[m][j]) <= Top(run[m][j])
        BY <2>1, <1>1, <1>3, <1>4, <1>t DEF Held
      <3>1. Top(run'[m][j]) \in Nat  BY <1>1, <1>4, <1>t
      <3>2. /\ Top(run[m][j]) <= row[j].att
            /\ run[m][j].tok # row[j].tok \/ row[j].st = "pending" => Top(run[m][j]) < row[j].att
            /\ run[m][j].tok = row[j].tok => \A a \in Attempt : a > run[m][j].att => execs[j][a] = 0
        BY <3>0 DEF Claims, Numbers
      <3>3. run'[m][j].tok = row[j].tok => \A a \in Attempt : a > run'[m][j].att => execs'[j][a] = 0
        <4>1. CASE j = i  BY <4>1, <3>0, <1>8
        <4>2. CASE j # i  BY <4>2, <3>0, <3>2, <1>1, <1>5
        <4> QED  BY <4>1, <4>2
      <3> QED  BY <3>0, <3>1, <3>2, <3>3, <1>t
    <2>2. ASSUME NEW m \in Node, NEW o \in Node, NEW j \in Item, Held(m, j)', run'[m][j].tok < run'[o][j].tok
          PROVE  Top(run'[m][j]) < run'[o][j].att
      <3>1. run'[m][j].tok = run[m][j].tok /\ run'[o][j].tok = run[o][j].tok  BY <1>1
      <3>2. Held(m, j) /\ run[m][j].tok < run[o][j].tok  BY <2>2, <3>1 DEF Held
      <3>3. Top(run[m][j]) < run[o][j].att  BY <3>2 DEF Claims, Numbers
      <3>4. Top(run'[m][j]) <= Top(run[m][j]) /\ Top(run'[m][j]) \in Nat  BY <1>1, <1>3, <1>4, <1>t
      <3>5. run[o][j].att <= run'[o][j].att /\ run'[o][j].att \in Nat  BY <1>1, <1>3, <1>t
      <3> QED  BY <3>3, <3>4, <3>5, <1>t
    <2>3. ASSUME NEW m \in Node, NEW j \in Item, NEW a \in Attempt, a \in Due(run'[m][j])
          PROVE  execs'[j][a] = 0
      <3>1. m # n \/ j # i  BY <2>3, <1>1, <1>4
      <3>2. run'[m][j] = run[m][j]  BY <3>1, <1>1
      <3>3. execs[j][a] = 0  BY <2>3, <3>2 DEF Claims, Numbers
      <3>4. CASE j = i
        <4>1. Held(m, j) /\ run[m][j].att <= a /\ a <= Top(run[m][j])
          <5>1. WellTokened(run[m][j])  BY DEF Claims, Tokens
          <5> QED  BY <5>1, <2>3, <3>2, <1>t DEF Due, Top, Held, WellTokened
        <4>2. a # b
          <5>1. run[m][i].tok < r.tok \/ r.tok < run[m][i].tok
            BY <4>1, <3>1, <3>4, <1>7, <1>t
          <5> QED  BY <5>1, <4>1, <3>1, <3>4, <1>3, <1>7, <1>t
        <4> QED  BY <4>2, <3>3, <1>5
      <3>5. CASE j # i  BY <3>3, <3>5, <1>5
      <3> QED  BY <3>4, <3>5
    <2>b. /\ b <= row[i].att /\ (row[i].st = "pending" => b < row[i].att)
          /\ b \in Attempt => execs[i][b] = 0
      <3>1. Top(r) <= row[i].att /\ (row[i].st = "pending" => Top(r) < row[i].att)
        BY <1>2 DEF Claims, Numbers, Held
      <3>2. b \in Attempt => execs[i][b] = 0  BY DEF Claims, Numbers
      <3> QED  BY <3>1, <3>2, <1>3, <1>t
    <2>4. ASSUME NEW j \in Item, NEW a \in Attempt, execs'[j][a] # 0
          PROVE  a <= row[j].att /\ (row[j].st = "pending" => a < row[j].att)
      <3>1. CASE j = i /\ a = b  BY <3>1, <2>b
      <3>2. CASE ~(j = i /\ a = b)
        <4>1. execs[j][a] # 0  BY <2>4, <3>2, <1>5
        <4> QED  BY <4>1 DEF Claims, Numbers
      <3> QED  BY <3>1, <3>2
    <2>5. AttemptExecutedOnce'
      <3> SUFFICES ASSUME NEW j \in Item, NEW a \in Attempt PROVE execs'[j][a] <= 1
        BY DEF AttemptExecutedOnce
      <3>1. CASE j = i /\ a = b  BY <3>1, <2>b, <1>5
      <3>2. CASE ~(j = i /\ a = b)
        <4>1. execs[j][a] <= 1  BY DEF Claims, Numbers, AttemptExecutedOnce
        <4> QED  BY <4>1, <3>2, <1>5
      <3> QED  BY <3>1, <3>2
    <2> QED  BY <2>1, <2>2, <2>3, <2>4, <2>5 DEF Numbers
  <1> QED  BY <1>6, <1>9 DEF Claims
-----------------------------------------------------------------------------
(* The endpoints. *)

\* The run behind an awaited request.
LEMMA AwaitedRun ==
  ASSUME TypeOK, OneCall, Claims, NEW q \in net
  PROVE  /\ q.node \in Node /\ q.item \in Item
         /\ q.by = "run" =>
              LET r == run[q.node][q.item]
              IN /\ r \in RunRecord /\ WellTokened(r) /\ r.reply = "wait"
                 /\ q.kind = "claim" => r.pc = "claiming" /\ r.tok = NoTok
                 /\ q.kind = "running" => r.pc = "starting"
                 /\ q.kind = "attempt" => r.pc = "reserving" /\ q.tok = r.tok /\ q.att = r.att
                 /\ q.kind \in Outcome => r.pc = "finishing"
  <1>1. q.node \in Node /\ q.item \in Item  BY DEF TypeOK, Request
  <1>2. ASSUME q.by = "run"
        PROVE  LET r == run[q.node][q.item]
               IN /\ r \in RunRecord /\ WellTokened(r) /\ r.reply = "wait"
                  /\ q.kind = "claim" => r.pc = "claiming" /\ r.tok = NoTok
                  /\ q.kind = "running" => r.pc = "starting"
                  /\ q.kind = "attempt" => r.pc = "reserving" /\ q.tok = r.tok /\ q.att = r.att
                  /\ q.kind \in Outcome => r.pc = "finishing"
    <2> DEFINE r == run[q.node][q.item]
    <2>1. r \in RunRecord /\ WellTokened(r)  BY <1>1 DEF TypeOK, Claims, Tokens
    <2>2. r.pc \in Calling /\ r.reply = "wait" /\ q = Awaited(q.node, q.item, r)  BY <1>2 DEF OneCall
    <2> HIDE DEF r
    <2>3. /\ q.kind = CASE r.pc = "claiming" -> "claim" [] r.pc = "starting" -> "running"
                        [] r.pc = "reserving" -> "attempt" [] OTHER -> r.action
          /\ q.tok = r.tok /\ q.att = IF r.pc = "reserving" THEN r.att ELSE 0
      BY <2>2 DEF Awaited, Req
    <2>4. r.action \in Outcome \union {"none"}  BY <2>1 DEF RunRecord
    <2>5. /\ q.kind = "claim" => r.pc = "claiming"
          /\ q.kind = "running" => r.pc = "starting"
          /\ q.kind = "attempt" => r.pc = "reserving"
          /\ q.kind \in Outcome => r.pc = "finishing"
      BY <2>2, <2>3, <2>4 DEF Calling, Outcome
    <2>6. r.pc = "claiming" => r.tok = NoTok  BY <2>1, <2>2 DEF WellTokened
    <2> QED  BY <2>1, <2>2, <2>3, <2>5, <2>6 DEF r
  <1> QED  BY <1>1, <1>2

\* An answer that grants nothing new.
LEMMA AnswerSteady ==
  ASSUME TypeOK, OneCall, Claims, NEW q \in net, NEW ans \in {"ok", "no"}, Answered(q, ans),
         q.kind \in {"claim", "attempt"} => ans = "no" \/ q.by # "run",
         q.kind \in {"claim", "running", "attempt"} \union Outcome
  PROVE  \A n \in Node, i \in Item : Steady(run'[n][i], run[n][i])
  <1> DEFINE r == run[q.node][q.item]
             x == [r EXCEPT !.reply = ans]
  <1>1. \A n \in Node, i \in Item : Continues(run[n][i], run[n][i])  BY StandsStill
  <1>2. CASE q.by # "run"
    <2>1. run' = run  BY <1>2 DEF Answered
    <2> QED  BY <2>1, <1>1 DEF Steady
  <1>3. CASE q.by = "run"
    <2>1. /\ q.node \in Node /\ q.item \in Item /\ r \in RunRecord /\ WellTokened(r)
          /\ q.kind = "claim" => r.pc = "claiming" /\ r.tok = NoTok
          /\ q.kind = "running" => r.pc = "starting"
          /\ q.kind = "attempt" => r.pc = "reserving"
          /\ q.kind \in Outcome => r.pc = "finishing"
      BY <1>3, AwaitedRun
    <2>2. run' = [run EXCEPT ![q.node][q.item].reply = ans]  BY <1>3 DEF Answered
    <2>3. /\ run'[q.node][q.item] = x
          /\ \A n \in Node, i \in Item : n # q.node \/ i # q.item => run'[n][i] = run[n][i]
      BY <2>1, <2>2 DEF TypeOK
    <2>4. x \in RunRecord /\ x.pc = r.pc /\ x.tok = r.tok /\ x.att = r.att /\ x.reply = ans
      BY <2>1 DEF RunRecord, Reply
    <2> HIDE DEF x
    <2>5. Steady(x, r)
      <3>1. CASE q.kind = "claim"  BY <3>1, <1>3, <2>1, <2>4 DEF Steady, Fresh
      <3>2. CASE q.kind = "running" \/ q.kind \in Outcome
        <4>1. x.pc = r.pc /\ x.pc \in {"starting", "finishing"}  BY <3>2, <2>1, <2>4
        <4> QED  BY <4>1, <2>1, <2>4, GoesOn DEF Steady
      <3>3. CASE q.kind = "attempt"
        <4>1. r.pc = "reserving" /\ x.pc = "reserving" /\ x.reply # "ok"  BY <3>3, <1>3, <2>1, <2>4
        <4> QED  BY <4>1, <2>1, <2>4, GoesOn DEF Steady
      <3> QED  BY <3>1, <3>2, <3>3
    <2> QED  BY <2>3, <2>5, <1>1 DEF Steady
  <1> QED  BY <1>2, <1>3

\* What a granted claim changes: the row, and the run if it still waits for it.
LEMMA GrantEffect ==
  ASSUME TypeOK, OneCall, Claims, NEW q \in net, ServeClaim(q),
         Listed(row[q.item]), ClaimAttempt(row[q.item]) <= MaxAttempts
  PROVE  LET n == q.node
             i == q.item
             A == ClaimAttempt(row[i])
         IN /\ row'[i].st = "claimed" /\ row'[i].owner = n /\ row'[i].tok = nextTok /\ row'[i].att = A
            /\ row'[i].lease = TRUE
            /\ \A j \in Item : j # i => row'[j] = row[j]
            /\ nextTok' = nextTok + 1 /\ net' = net \ {q}
            /\ lapsed' = lapsed /\ produced' = produced /\ execs' = execs
            /\ \A m \in Node, j \in Item : m # n \/ j # i => run'[m][j] = run[m][j]
            /\ \/ run'[n][i] = run[n][i]
               \/ /\ run'[n][i].pc = "claiming" /\ run'[n][i].reply = "ok"
                  /\ run'[n][i].tok = nextTok /\ run'[n][i].att = A
  <1> DEFINE n == q.node
             i == q.item
             r == row[i]
             A == ClaimAttempt(r)
  <1>0. n \in Node /\ i \in Item  BY AwaitedRun
  <1>t. /\ nextTok \in Nat
        /\ \A j \in Item : row[j].tok \in Nat /\ row[j].att \in Nat
        /\ \A m \in Node, j \in Item : run[m][j].tok \in Nat /\ run[m][j].att \in Nat /\ Top(run[m][j]) \in Nat
        /\ \A a \in Attempt : a \in Nat
    BY NumberTypes DEF TypeOK
  <1>1. /\ row' = [row EXCEPT ![i] = ClaimRow(r, n, nextTok)] /\ nextTok' = nextTok + 1
        /\ net' = net \ {q} /\ lapsed' = lapsed /\ produced' = produced /\ execs' = execs
    BY DEF ServeClaim
  <1>2. /\ row'[i].st = "claimed" /\ row'[i].owner = n /\ row'[i].tok = nextTok /\ row'[i].att = A
        /\ row'[i].lease = TRUE
        /\ \A j \in Item : j # i => row'[j] = row[j]
    <2>1. r \in RowRecord /\ ~(A > MaxAttempts)
      <3>1. A \in Nat /\ MaxAttempts \in Nat
        BY <1>0, <1>t, AttemptAssumption DEF ClaimAttempt
      <3> QED  BY <3>1, <1>0 DEF TypeOK
    <2>2. ClaimRow(r, n, nextTok) = [r EXCEPT !.st = "claimed", !.owner = n, !.tok = nextTok, !.lease = TRUE, !.att = A]
      BY <2>1 DEF ClaimRow
    <2>3. row'[i] = ClaimRow(r, n, nextTok) /\ \A j \in Item : j # i => row'[j] = row[j]
      BY <1>0, <1>1 DEF TypeOK
    <2> HIDE DEF A, r, n
    <2>4. LET y == [r EXCEPT !.st = "claimed", !.owner = n, !.tok = nextTok, !.lease = TRUE, !.att = A]
          IN y.st = "claimed" /\ y.owner = n /\ y.tok = nextTok /\ y.att = A /\ y.lease = TRUE
      BY <2>1 DEF RowRecord
    <2> QED  BY <2>2, <2>3, <2>4
  <1>3. /\ \A m \in Node, j \in Item : m # n \/ j # i => run'[m][j] = run[m][j]
        /\ \/ run'[n][i] = run[n][i]
           \/ /\ run'[n][i].pc = "claiming" /\ run'[n][i].reply = "ok"
              /\ run'[n][i].tok = nextTok /\ run'[n][i].att = A
    <2>1. CASE q.by # "run"
      <3>1. run' = run  BY <2>1 DEF ServeClaim
      <3> QED  BY <3>1
    <2>2. CASE q.by = "run"
      <3> DEFINE x == [run[n][i] EXCEPT !.reply = "ok", !.tok = nextTok, !.att = A]
      <3>1. run' = [run EXCEPT ![n][i] = x]  BY <2>2 DEF ServeClaim, Yes
      <3>2. run[n][i] \in RunRecord /\ run[n][i].pc = "claiming"
        BY <2>2, AwaitedRun DEF ServeClaim
      <3>3. run'[n][i] = x /\ \A m \in Node, j \in Item : m # n \/ j # i => run'[m][j] = run[m][j]
        BY <3>1, <1>0 DEF TypeOK
      <3>4. x.pc = "claiming" /\ x.reply = "ok" /\ x.tok = nextTok /\ x.att = A
        <4> HIDE DEF A, n, i
        <4> QED  BY <3>2 DEF RunRecord
      <3> QED  BY <3>3, <3>4
    <2> QED  BY <2>1, <2>2
  <1> QED  BY <1>1, <1>2, <1>3

\* POST claim, granted: the new token is above all others, and its number above
\* every number of the item that was used or is due.
LEMMA GrantKeeps ==
  ASSUME TypeOK, TypeOK', OneCall, Claims, NEW q \in net, ServeClaim(q),
         Listed(row[q.item]), ClaimAttempt(row[q.item]) <= MaxAttempts
  PROVE  Claims'
  <1> DEFINE n == q.node
             i == q.item
             r == row[i]
             A == ClaimAttempt(r)
  <1>0. n \in Node /\ i \in Item  BY AwaitedRun
  <1>t. /\ nextTok \in Nat
        /\ \A j \in Item : row[j].tok \in Nat /\ row[j].att \in Nat
        /\ \A m \in Node, j \in Item : run[m][j].tok \in Nat /\ run[m][j].att \in Nat /\ Top(run[m][j]) \in Nat
        /\ \A a \in Attempt : a \in Nat
    BY NumberTypes DEF TypeOK
  <1>1. /\ nextTok' = nextTok + 1 /\ lapsed' = lapsed /\ produced' = produced /\ execs' = execs
    BY GrantEffect
  <1>2. /\ row'[i].st = "claimed" /\ row'[i].owner = n /\ row'[i].tok = nextTok /\ row'[i].att = A
        /\ row'[i].lease = TRUE
        /\ \A j \in Item : j # i => row'[j] = row[j]
    BY GrantEffect
  <1>3. /\ \A m \in Node, j \in Item : m # n \/ j # i => run'[m][j] = run[m][j]
        /\ \/ run'[n][i] = run[n][i]
           \/ /\ run'[n][i].pc = "claiming" /\ run'[n][i].reply = "ok"
              /\ run'[n][i].tok = nextTok /\ run'[n][i].att = A
    BY GrantEffect
  <1>a. /\ A \in Nat /\ r.att <= A /\ (r.st # "pending" => r.att < A)
        /\ r.st = "pending" \/ (r.st \in {"claimed", "running"} /\ r.tok \in lapsed)
    <2>1. r.st = "pending" => ~r.lease  BY <1>0 DEF Claims, Tokens
    <2> QED  BY <2>1, <1>0, <1>t DEF ClaimAttempt, Listed, Reclaimable, Expired
  <1>b. \A m \in Node : Held(m, i) => Top(run[m][i]) < A
    <2> TAKE m \in Node
    <2> HAVE Held(m, i)
    <2>1. Top(run[m][i]) <= r.att /\ (r.st = "pending" => Top(run[m][i]) < r.att)
      BY <1>0 DEF Claims, Numbers
    <2> HIDE DEF A
    <2> QED  BY <2>1, <1>0, <1>a, <1>t
  <1>c. \A a \in Attempt : a >= A => execs[i][a] = 0
    <2> TAKE a \in Attempt
    <2>1. execs[i][a] # 0 => a <= r.att /\ (r.st = "pending" => a < r.att)  BY <1>0 DEF Claims, Numbers
    <2> HIDE DEF A
    <2> QED  BY <2>1, <1>0, <1>a, <1>t
  <1>d. \A m \in Node, j \in Item : run[m][j].tok <= row[j].tok /\ row[j].tok < nextTok /\ run[m][j].tok < nextTok
    <2>1. \A m \in Node, j \in Item : run[m][j].tok <= row[j].tok /\ row[j].tok < nextTok
      BY DEF Claims, Tokens
    <2> QED  BY <2>1, <1>t
  <1>e. nextTok # NoTok  BY DEF TypeOK, NoTok
  <1> HIDE DEF n, i, r, A
  <1>4. Tokens'
    <2>1. \A j \in Item : row'[j].tok < nextTok' /\ (row'[j].st \notin {"claimed", "running"} => ~row'[j].lease)
      <3> TAKE j \in Item
      <3>1. CASE j = i  BY <3>1, <1>1, <1>2, <1>t
      <3>2. CASE j # i
        <4>1. row[j].tok < nextTok /\ (row[j].st \notin {"claimed", "running"} => ~row[j].lease)
          BY DEF Claims, Tokens
        <4> QED  BY <3>2, <4>1, <1>1, <1>2, <1>t
      <3> QED  BY <3>1, <3>2
    <2>2. \A x \in produced' : x.tok < nextTok'
      <3>1. \A x \in produced : x.tok < nextTok /\ x.tok \in Nat  BY DEF Claims, Tokens, TypeOK, Result
      <3> QED  BY <3>1, <1>1, <1>t
    <2>3. ASSUME NEW m \in Node, NEW j \in Item  PROVE run'[m][j].tok <= row'[j].tok /\ WellTokened(run'[m][j])
      <3>1. CASE run'[m][j] = run[m][j]
        <4>1. WellTokened(run[m][j])  BY DEF Claims, Tokens
        <4>2. row[j].tok <= row'[j].tok /\ row'[j].tok \in Nat  BY <1>2, <1>d, <1>t
        <4> QED  BY <3>1, <4>1, <4>2, <1>d, <1>t
      <3>2. CASE m = n /\ j = i /\ run'[n][i].pc = "claiming" /\ run'[n][i].reply = "ok" /\ run'[n][i].tok = nextTok
        BY <3>2, <1>2, <1>e, <1>t DEF WellTokened
      <3> QED  BY <3>1, <3>2, <1>3
    <2>4. ASSUME NEW m \in Node, NEW o \in Node, NEW j \in Item, m # o, Held(m, j)'
          PROVE  run'[m][j].tok # run'[o][j].tok
      <3>1. CASE run'[m][j] = run[m][j] /\ run'[o][j] = run[o][j]
        BY <2>4, <3>1 DEF Claims, Tokens, Held
      <3>2. CASE j = i /\ m = n /\ run'[n][i].tok = nextTok
        BY <2>4, <3>2, <1>3, <1>d, <1>t
      <3>3. CASE j = i /\ o = n /\ run'[n][i].tok = nextTok
        BY <2>4, <3>3, <1>3, <1>d, <1>t
      <3> QED  BY <3>1, <3>2, <3>3, <1>3
    <2> QED  BY <2>1, <2>2, <2>3, <2>4 DEF Tokens
  <1>5. Sole'
    <2> SUFFICES ASSUME NEW m \in Node, NEW j \in Item, Held(m, j)', run'[m][j].pc # "finishing"
                 PROVE  /\ run'[m][j].tok \notin lapsed =>
                             /\ row'[j].tok = run'[m][j].tok /\ row'[j].owner = m
                             /\ row'[j].st \in {"claimed", "running", "cancelled"}
                        /\ \A x \in produced : x.item = j => x.tok # run'[m][j].tok
      BY <1>1 DEF Sole, HasNoResult
    <2>1. CASE run'[m][j] = run[m][j]
      <3>1. /\ run[m][j].tok \notin lapsed =>
                 row[j].tok = run[m][j].tok /\ row[j].owner = m /\ row[j].st \in {"claimed", "running", "cancelled"}
            /\ \A x \in produced : x.item = j => x.tok # run[m][j].tok
        BY <2>1 DEF Claims, Sole, HasNoResult, Held
      <3>2. CASE j = i
        <4>1. run[m][j].tok \in lapsed  BY <3>1, <3>2, <1>a DEF r
        <4> QED  BY <4>1, <3>1, <2>1
      <3>3. CASE j # i  BY <3>1, <3>3, <2>1, <1>2
      <3> QED  BY <3>2, <3>3
    <2>2. CASE m = n /\ j = i /\ run'[n][i].tok = nextTok
      <3>1. \A x \in produced : x.tok < nextTok /\ x.tok \in Nat  BY DEF Claims, Tokens, TypeOK, Result
      <3> QED  BY <2>2, <3>1, <1>2, <1>t
    <2> QED  BY <2>1, <2>2, <1>3
  <1>6. Numbers'
    <2>1. ASSUME NEW m \in Node, NEW j \in Item, Held(m, j)'
          PROVE  /\ Top(run'[m][j]) <= row'[j].att
                 /\ run'[m][j].tok # row'[j].tok \/ row'[j].st = "pending" => Top(run'[m][j]) < row'[j].att
                 /\ run'[m][j].tok = row'[j].tok => \A a \in Attempt : a > run'[m][j].att => execs[j][a] = 0
      <3>1. CASE run'[m][j] = run[m][j] /\ j # i
        BY <2>1, <3>1, <1>2 DEF Claims, Numbers, Held
      <3>2. CASE run'[m][j] = run[m][j] /\ j = i
        <4>1. Held(m, i) /\ Top(run'[m][j]) < row'[j].att  BY <2>1, <3>2, <1>b, <1>2 DEF Held
        <4>2. run'[m][j].tok # row'[j].tok  BY <3>2, <1>2, <1>d, <1>t
        <4> QED  BY <4>1, <4>2, <3>2, <1>2, <1>a, <1>t
      <3>3. CASE m = n /\ j = i /\ run'[n][i].pc = "claiming" /\ run'[n][i].tok = nextTok /\ run'[n][i].att = A
        <4>1. Top(run'[m][j]) = A  BY <3>3 DEF Top
        <4> QED  BY <3>3, <4>1, <1>2, <1>a, <1>c, <1>t
      <3> QED  BY <3>1, <3>2, <3>3, <1>3
    <2>2. ASSUME NEW m \in Node, NEW o \in Node, NEW j \in Item, Held(m, j)', run'[m][j].tok < run'[o][j].tok
          PROVE  Top(run'[m][j]) < run'[o][j].att
      <3>1. CASE run'[m][j] = run[m][j] /\ run'[o][j] = run[o][j]
        BY <2>2, <3>1 DEF Claims, Numbers, Held
      <3>2. CASE run'[m][j] = run[m][j] /\ o = n /\ j = i /\ run'[n][i].att = A
        BY <2>2, <3>2, <1>b DEF Held
      <3>3. CASE m = n /\ j = i /\ run'[n][i].tok = nextTok
        <4>1. CASE run'[o][j] = run[o][j]  BY <2>2, <3>3, <4>1, <1>d, <1>t
        <4>2. CASE o = n  BY <2>2, <3>3, <4>2, <1>t
        <4> QED  BY <4>1, <4>2, <1>3
      <3> QED  BY <3>1, <3>2, <3>3, <1>3
    <2>3. ASSUME NEW m \in Node, NEW j \in Item, NEW a \in Attempt, a \in Due(run'[m][j])
          PROVE  execs[j][a] = 0
      <3>1. CASE run'[m][j] = run[m][j]  BY <2>3, <3>1 DEF Claims, Numbers
      <3>2. CASE m = n /\ j = i /\ run'[n][i].pc = "claiming" /\ run'[n][i].att = A
        <4>1. a = A  BY <2>3, <3>2 DEF Due
        <4> QED  BY <4>1, <3>2, <1>a, <1>c
      <3> QED  BY <3>1, <3>2, <1>3
    <2>4. ASSUME NEW j \in Item, NEW a \in Attempt, execs[j][a] # 0
          PROVE  a <= row'[j].att /\ (row'[j].st = "pending" => a < row'[j].att)
      <3>1. a <= row[j].att /\ (row[j].st = "pending" => a < row[j].att)  BY <2>4 DEF Claims, Numbers
      <3>2. CASE j = i  BY <3>1, <3>2, <1>2, <1>a, <1>t DEF r
      <3>3. CASE j # i  BY <3>1, <3>3, <1>2
      <3> QED  BY <3>2, <3>3
    <2>5. AttemptExecutedOnce'  BY <1>1 DEF Claims, Numbers, AttemptExecutedOnce
    <2> QED  BY <2>1, <2>2, <2>3, <2>4, <2>5, <1>1 DEF Numbers
  <1> QED  BY <1>4, <1>5, <1>6 DEF Claims

\* POST claim of a row that is not listed, or that is out of attempts.
LEMMA RefusalKeeps ==
  ASSUME TypeOK, TypeOK', OneCall, Claims, NEW q \in net, ServeClaim(q),
         ~(Listed(row[q.item]) /\ ClaimAttempt(row[q.item]) <= MaxAttempts)
  PROVE  Claims'
  <1> DEFINE n == q.node
             i == q.item
             r == row[i]
             y == IF Listed(r) THEN ClaimRow(r, n, nextTok) ELSE r
  <1>0. n \in Node /\ i \in Item /\ r \in RowRecord  BY AwaitedRun DEF TypeOK
  <1>t. r.att \in Nat /\ MaxAttempts \in Nat /\ r.tok \in Nat
    BY <1>0, NumberTypes, AttemptAssumption DEF TypeOK
  <1>1. /\ row' = [row EXCEPT ![i] = y] /\ nextTok' = nextTok
        /\ lapsed' = lapsed /\ produced' = produced /\ execs' = execs
    BY DEF ServeClaim
  <1>2. RowSteady(y, r, i)
    <2>1. CASE ~Listed(r)  BY <2>1, <1>0, RowIdle
    <2>2. CASE Listed(r)
      <3>1. ClaimAttempt(r) > MaxAttempts  BY <2>2, <1>t DEF ClaimAttempt
      <3>2. y = [r EXCEPT !.st = "needs_attention", !.lease = FALSE]  BY <2>2, <3>1 DEF ClaimRow
      <3>3. y.st = "needs_attention" /\ y.lease = FALSE /\ y.tok = r.tok /\ y.att = r.att
        <4> HIDE DEF r
        <4> QED  BY <3>2, <1>0 DEF RowRecord
      <3>4. r.st = "pending" \/ r.tok \in lapsed  BY <2>2 DEF Listed, Reclaimable, Expired
      <3> HIDE DEF y
      <3> QED  BY <3>3, <3>4, <1>t DEF RowSteady
    <2> QED  BY <2>1, <2>2
  <1> HIDE DEF y
  <1>3. \A j \in Item : RowSteady(row'[j], row[j], j)
    <2>1. row'[i] = y /\ \A j \in Item : j # i => row'[j] = row[j]  BY <1>0, <1>1 DEF TypeOK
    <2> QED  BY <2>1, <1>2, RowIdle
  <1>4. \A m \in Node, j \in Item : Steady(run'[m][j], run[m][j])
    <2>1. \A m \in Node, j \in Item : Continues(run[m][j], run[m][j])  BY StandsStill
    <2>2. CASE q.by # "run"
      <3>1. run' = run  BY <2>2 DEF ServeClaim
      <3> QED  BY <2>1, <3>1 DEF Steady
    <2>3. CASE q.by = "run"
      <3> DEFINE x == [run[n][i] EXCEPT !.reply = "no", !.tok = @, !.att = @]
      <3>1. run' = [run EXCEPT ![n][i] = x]  BY <2>3 DEF ServeClaim, Yes
      <3>2. run[n][i] \in RunRecord /\ run[n][i].pc = "claiming" /\ run[n][i].tok = NoTok
        BY <2>3, AwaitedRun DEF ServeClaim
      <3>3. run'[n][i] = x /\ \A m \in Node, j \in Item : m # n \/ j # i => run'[m][j] = run[m][j]
        BY <3>1, <1>0 DEF TypeOK
      <3>4. Fresh(x)
        <4> HIDE DEF n, i
        <4> QED  BY <3>2 DEF RunRecord, Fresh
      <3> HIDE DEF x
      <3> QED  BY <3>3, <3>4, <2>1 DEF Steady
    <2> QED  BY <2>2, <2>3
  <1> QED  BY <1>1, <1>3, <1>4, CalmStep

\* POST attempt, granted to the run that asked: it has the row's token, so no
\* other run comes after it.
LEMMA ReservedKeeps ==
  ASSUME TypeOK, TypeOK', OneCall, Claims, NEW q \in net, ServeAttempt(q), q.by = "run",
         MayAdvance(row[q.item], q.node, q.tok, q.att)
  PROVE  Claims'
  <1> DEFINE n == q.node
             i == q.item
             r == run[n][i]
             x == [r EXCEPT !.reply = "ok"]
  <1>0. /\ n \in Node /\ i \in Item /\ r \in RunRecord /\ WellTokened(r) /\ r.pc = "reserving"
        /\ q.tok = r.tok /\ q.att = r.att
    BY AwaitedRun DEF ServeAttempt
  <1>t. /\ \A j \in Item : row[j].tok \in Nat /\ row[j].att \in Nat
        /\ \A m \in Node, j \in Item : run[m][j].tok \in Nat /\ run[m][j].att \in Nat /\ Top(run[m][j]) \in Nat
        /\ \A a \in Attempt : a \in Nat
    BY NumberTypes DEF TypeOK
  <1>1. /\ row' = [row EXCEPT ![i].att = q.att + 1] /\ Answered(q, "ok")
        /\ lapsed' = lapsed /\ nextTok' = nextTok /\ produced' = produced /\ execs' = execs
    BY DEF ServeAttempt, Yes
  <1>2. row[i].owner = n /\ row[i].tok = r.tok /\ row[i].st \in {"claimed", "running"}
        /\ (row[i].att = r.att \/ row[i].att = r.att + 1)
    BY <1>0 DEF MayAdvance, OwnsWorkClaim
  <1>3. /\ row'[i].att = r.att + 1 /\ row'[i].tok = row[i].tok /\ row'[i].st = row[i].st
        /\ row'[i].owner = row[i].owner /\ row'[i].lease = row[i].lease
        /\ \A j \in Item : j # i => row'[j] = row[j]
    <2>1. row[i] \in RowRecord  BY <1>0 DEF TypeOK
    <2> QED  BY <2>1, <1>0, <1>1 DEF TypeOK, RowRecord
  <1>4. run'[n][i] = x /\ \A m \in Node, j \in Item : m # n \/ j # i => run'[m][j] = run[m][j]
    <2>1. run' = [run EXCEPT ![n][i].reply = "ok"]  BY <1>1 DEF Answered
    <2> QED  BY <2>1, <1>0 DEF TypeOK
  <1>5. x.pc = "reserving" /\ x.reply = "ok" /\ x.tok = r.tok /\ x.att = r.att
    BY <1>0 DEF RunRecord
  <1>h. r.tok # NoTok /\ Held(n, i)  BY <1>0 DEF WellTokened, Held
  <1> HIDE DEF x
  <1>6. Carries(x, r) /\ Top(x) = r.att + 1 /\ Due(x) = {r.att + 1}
    BY <1>0, <1>5, <1>h DEF Carries, WellTokened, Top, Due
  <1>7. \A j \in Item : row[j].att <= row'[j].att /\ row'[j].att \in Nat
        /\ row'[j].tok = row[j].tok /\ row'[j].st = row[j].st
    BY <1>2, <1>3, <1>t
  <1>8. Tokens' /\ Sole'
    <2>1. \A m \in Node, j \in Item : Fresh(run'[m][j]) \/ Carries(run'[m][j], run[m][j])
      BY <1>4, <1>6, StandsStill DEF Continues
    <2>2. RowSteady(row'[i], row[i], i)
      <3>1. row[i].st \notin {"claimed", "running"} => ~row[i].lease  BY <1>0 DEF Claims, Tokens
      <3> QED  BY <3>1, <1>0, <1>2, <1>3, <1>7 DEF RowSteady
    <2>3. \A j \in Item : RowSteady(row'[j], row[j], j)  BY <2>2, <1>3, RowIdle
    <2> QED  BY <2>1, <2>3, <1>1, TokensKept
  <1> HIDE DEF r
  <1>9. Numbers'
    <2>1. ASSUME NEW m \in Node, NEW j \in Item, Held(m, j)'
          PROVE  /\ Top(run'[m][j]) <= row'[j].att
                 /\ run'[m][j].tok # row'[j].tok \/ row'[j].st = "pending" => Top(run'[m][j]) < row'[j].att
                 /\ run'[m][j].tok = row'[j].tok => \A a \in Attempt : a > run'[m][j].att => execs[j][a] = 0
      <3>1. CASE m = n /\ j = i
        <4>1. \A a \in Attempt : a > r.att => execs[i][a] = 0
          BY <1>0, <1>2, <1>h DEF Claims, Numbers, r
        <4>2. r.att \in Nat  BY <1>0, <1>t DEF r
        <4> QED  BY <3>1, <4>1, <4>2, <1>2, <1>3, <1>4, <1>5, <1>6
      <3>2. CASE m # n \/ j # i
        <4>1. run'[m][j] = run[m][j] /\ Held(m, j)  BY <2>1, <3>2, <1>4 DEF Held
        <4>2. /\ Top(run[m][j]) <= row[j].att
              /\ run[m][j].tok # row[j].tok \/ row[j].st = "pending" => Top(run[m][j]) < row[j].att
              /\ run[m][j].tok = row[j].tok => \A a \in Attempt : a > run[m][j].att => execs[j][a] = 0
          BY <4>1 DEF Claims, Numbers
        <4> QED  BY <4>1, <4>2, <1>7, <1>t
      <3> QED  BY <3>1, <3>2
    <2>2. ASSUME NEW m \in Node, NEW o \in Node, NEW j \in Item, Held(m, j)', run'[m][j].tok < run'[o][j].tok
          PROVE  Top(run'[m][j]) < run'[o][j].att
      <3>1. /\ run'[m][j].tok = run[m][j].tok /\ run'[o][j].tok = run[o][j].tok /\ run'[o][j].att = run[o][j].att
        BY <1>4, <1>5 DEF r
      <3>2. m # n \/ j # i
        <4>1. run[o][j].tok <= row[j].tok  BY DEF Claims, Tokens
        <4> QED  BY <4>1, <2>2, <3>1, <1>2, <1>t DEF r
      <3>3. run'[m][j] = run[m][j]  BY <3>2, <1>4
      <3>4. Held(m, j) /\ run[m][j].tok < run[o][j].tok  BY <2>2, <3>1 DEF Held
      <3> QED  BY <3>1, <3>3, <3>4 DEF Claims, Numbers
    <2>3. ASSUME NEW m \in Node, NEW j \in Item, NEW a \in Attempt, a \in Due(run'[m][j])
          PROVE  execs[j][a] = 0
      <3>1. CASE m = n /\ j = i
        <4>1. a = r.att + 1 /\ r.att \in Nat  BY <2>3, <3>1, <1>0, <1>4, <1>6, <1>t DEF r
        <4>2. a > r.att  BY <4>1
        <4>3. \A e \in Attempt : e > r.att => execs[i][e] = 0
          BY <1>0, <1>2, <1>h DEF Claims, Numbers, r
        <4> QED  BY <3>1, <4>2, <4>3
      <3>2. CASE m # n \/ j # i  BY <2>3, <3>2, <1>4 DEF Claims, Numbers
      <3> QED  BY <3>1, <3>2
    <2>4. ASSUME NEW j \in Item, NEW a \in Attempt, execs[j][a] # 0
          PROVE  a <= row'[j].att /\ (row'[j].st = "pending" => a < row'[j].att)
      <3>1. a <= row[j].att /\ (row[j].st = "pending" => a < row[j].att)  BY <2>4 DEF Claims, Numbers
      <3> QED  BY <3>1, <1>7, <1>t
    <2>5. AttemptExecutedOnce'  BY <1>1 DEF Claims, Numbers, AttemptExecutedOnce
    <2> QED  BY <2>1, <2>2, <2>3, <2>4, <2>5, <1>1 DEF Numbers
  <1> QED  BY <1>8, <1>9 DEF Claims

\* A late outcome changes a row only under the token whose result it reports.
LEMMA OutcomeRowSteady ==
  ASSUME TypeOK, SavedBeforeSent, Claims, NEW q \in net, q.kind \in Outcome
  PROVE  RowSteady(AfterOutcome(row[q.item], q.node, q.tok, q.kind), row[q.item], q.item)
  <1> DEFINE i == q.item
             r == row[i]
             n == q.node
             t == q.tok
             b == BeforeOutcome(r, n, t, q.kind)
             y == AfterOutcome(r, n, t, q.kind)
  <1>0. i \in Item /\ r \in RowRecord /\ r.att \in Nat
    <2>1. i \in Item  BY DEF TypeOK, Request
    <2> QED  BY <2>1, NumberTypes DEF TypeOK
  <1>1. CASE OwnsWorkClaim(r, n, t)
    <2>1. r.tok = t /\ ~HasNoResult(i, t)
      <3>1. [item |-> i, tok |-> t, action |-> q.kind] \in produced  BY DEF SavedBeforeSent
      <3> QED  BY <1>1, <3>1 DEF OwnsWorkClaim, HasNoResult
    <2>2. \A s \in RowRecord, status \in {"running", "needs_attention", "succeeded", "failed"} :
            LET z == Transition(s, n, t, status)
            IN /\ z \in RowRecord /\ z.tok = s.tok /\ z.att = s.att
               /\ z = s \/ (z.st = status /\ (status # "running" => ~z.lease))
      <3> TAKE s \in RowRecord, status \in {"running", "needs_attention", "succeeded", "failed"}
      <3> DEFINE z == Transition(s, n, t, status)
                 l == status = "running"
      <3>1. z \in RowRecord  BY TransitionType
      <3>2. z = s \/ z = [s EXCEPT !.st = status, !.lease = l]  BY DEF Transition
      <3>3. l = FALSE \/ status = "running"  OBVIOUS
      <3> HIDE DEF z, l
      <3>4. z.tok = s.tok /\ z.att = s.att /\ (z = s \/ (z.st = status /\ z.lease = l))
        BY <3>2 DEF RowRecord
      <3>5. z = s \/ (z.st = status /\ (status # "running" => ~z.lease))  BY <3>3, <3>4
      <3> QED  BY <3>1, <3>4, <3>5 DEF z
    <2>3. StatusOf(q.kind) \in {"needs_attention", "succeeded", "failed"}  BY DEF StatusOf, Outcome
    <2>4. r.st \notin {"claimed", "running"} => ~r.lease  BY <1>0 DEF Claims, Tokens
    <2> HIDE DEF r, n, t, i
    <2>5. /\ b \in RowRecord /\ b.tok = r.tok /\ b.att = r.att
          /\ b = r \/ b.st = "running"
      BY <2>2, <1>0 DEF BeforeOutcome
    <2>6. y = Transition(b, n, t, StatusOf(q.kind))  BY DEF AfterOutcome
    <2> HIDE DEF b, y
    <2>7. /\ y.tok = r.tok /\ y.att = r.att
          /\ y = b \/ (y.st = StatusOf(q.kind) /\ ~y.lease)
      BY <2>2, <2>3, <2>5, <2>6
    <2> QED  BY <2>1, <2>3, <2>4, <2>5, <2>7, <1>0 DEF RowSteady, y, r, n, t, i
  <1>2. CASE ~OwnsWorkClaim(r, n, t)
    <2>1. y = r
      <3>1. \A status : Transition(r, n, t, status) = r  BY <1>2 DEF Transition, MayTransition
      <3> QED  BY <3>1 DEF AfterOutcome, BeforeOutcome
    <2> QED  BY <2>1, <1>0, RowIdle
  <1> QED  BY <1>1, <1>2

\* No endpoint disturbs the order of the claims.
LEMMA ServeClaims ==
  ASSUME Inv, TypeOK', Claims, NEW q \in net, Serve(q)
  PROVE  Claims'
  <1> DEFINE i == q.item
             r == row[i]
  <1>0. /\ TypeOK /\ OneCall /\ SavedBeforeSent /\ q.node \in Node /\ i \in Item /\ r \in RowRecord
        /\ row \in [Item -> RowRecord]
    BY AwaitedRun DEF Inv, TypeOK
  <1>t. r.att \in Nat /\ q.att \in Nat  BY <1>0, NumberTypes DEF TypeOK, Request
  <1>s. ASSUME NEW ans \in {"ok", "no"}, Answered(q, ans), NEW y, row' = [row EXCEPT ![i] = y],
               RowSteady(y, r, i), q.kind \in {"claim", "attempt"} => ans = "no" \/ q.by # "run",
               q.kind \in {"claim", "running", "attempt"} \union Outcome,
               UNCHANGED <<lapsed, nextTok, produced, execs>>
        PROVE  Claims'
    <2>1. \A m \in Node, j \in Item : Steady(run'[m][j], run[m][j])  BY <1>0, <1>s, AnswerSteady
    <2>2. row'[i] = y /\ \A j \in Item : j # i => row'[j] = row[j]  BY <1>0, <1>s
    <2>3. \A j \in Item : RowSteady(row'[j], row[j], j)  BY <2>2, <1>0, <1>s, RowIdle
    <2> QED  BY <2>1, <2>3, <1>0, <1>s, CalmStep
  <1>1. CASE ServeClaim(q)  BY <1>0, <1>1, GrantKeeps, RefusalKeeps
  <1>2. CASE DenyClaim(q)
    <2> DEFINE y == ParkForPolicy(r)
    <2>1. RowSteady(y, r, i)
      <3>1. CASE r.st = "pending"
        <4>1. y = [r EXCEPT !.st = "needs_attention", !.lease = FALSE, !.denied = TRUE]
          BY <3>1 DEF ParkForPolicy
        <4>2. y.st = "needs_attention" /\ y.lease = FALSE /\ y.tok = r.tok /\ y.att = r.att
          <5> HIDE DEF r
          <5> QED  BY <4>1, <1>0 DEF RowRecord
        <4> HIDE DEF y
        <4> QED  BY <3>1, <4>2, <1>t DEF RowSteady
      <3>2. CASE r.st # "pending"
        <4>1. y = r  BY <3>2 DEF ParkForPolicy
        <4> QED  BY <4>1, <1>0, RowIdle
      <3> QED  BY <3>1, <3>2
    <2>2. row' = [row EXCEPT ![i] = y] /\ Answered(q, "no") /\ q.kind = "claim"
          /\ UNCHANGED <<lapsed, nextTok, produced, execs>>
      BY <1>2 DEF DenyClaim
    <2> HIDE DEF y
    <2> QED  BY <2>1, <2>2, <1>s
  <1>3. CASE ServeRunning(q)
    <2> DEFINE y == Transition(r, q.node, q.tok, "running")
               ans == Yes(MayTransition(row[q.item], q.node, q.tok, "running"))
    <2>1. RowSteady(y, r, i)
      <3>1. CASE y = r  BY <3>1, <1>0, RowIdle
      <3>2. CASE MayTransition(r, q.node, q.tok, "running")
        <4>1. y = [r EXCEPT !.st = "running", !.lease = TRUE]  BY <3>2 DEF Transition
        <4>2. y.st = "running" /\ y.tok = r.tok /\ y.att = r.att /\ y.owner = r.owner
          <5> HIDE DEF r
          <5> QED  BY <4>1, <1>0 DEF RowRecord
        <4> HIDE DEF y
        <4> QED  BY <4>2, <1>t DEF RowSteady
      <3> QED  BY <3>1, <3>2 DEF Transition
    <2>2. row' = [row EXCEPT ![i] = y] /\ Answered(q, ans) /\ q.kind = "running"
          /\ UNCHANGED <<lapsed, nextTok, produced, execs>>
      BY <1>3 DEF ServeRunning
    <2>3. ans \in {"ok", "no"}  BY DEF Yes
    <2> HIDE DEF y, ans
    <2> QED  BY <2>1, <2>2, <2>3, <1>s
  <1>4. CASE ServeAttempt(q)
    <2> DEFINE may == MayAdvance(row[q.item], q.node, q.tok, q.att)
               a == IF may THEN q.att + 1 ELSE r.att
               y == [r EXCEPT !.att = a]
               ans == Yes(may)
    <2>1. CASE may /\ q.by = "run"  BY <2>1, <1>0, <1>4, ReservedKeeps
    <2>2. CASE ~(may /\ q.by = "run")
      <3>1. a \in Nat /\ r.att <= a  BY <1>t DEF MayAdvance
      <3>2. y.att = a /\ y.st = r.st /\ y.tok = r.tok /\ y.owner = r.owner /\ y.lease = r.lease
        <4> HIDE DEF a, r
        <4> QED  BY <1>0 DEF RowRecord
      <3>3. row' = [row EXCEPT ![i] = y] /\ Answered(q, ans) /\ q.kind = "attempt"
            /\ UNCHANGED <<lapsed, nextTok, produced, execs>>
        BY <1>0, <1>4 DEF ServeAttempt
      <3>4. ans \in {"ok", "no"} /\ (ans = "no" \/ q.by # "run")  BY <2>2 DEF Yes
      <3>5. r.st \notin {"claimed", "running"} => ~r.lease  BY <1>0 DEF Claims, Tokens
      <3>6. may => r.st # "pending"  BY DEF MayAdvance
      <3>7. a = r.att \/ r.st # "pending"  BY <3>6
      <3> HIDE DEF y, a, ans, may
      <3>8. RowSteady(y, r, i)  BY <3>1, <3>2, <3>5, <3>7, <1>t DEF RowSteady
      <3> QED  BY <3>3, <3>4, <3>8, <1>s
    <2> QED  BY <2>1, <2>2
  <1>5. CASE ServeOutcome(q)
    <2> DEFINE y == AfterOutcome(r, q.node, q.tok, q.kind)
               ans == Yes(OutcomeAcknowledged(row[q.item], q.node, q.tok, q.kind))
    <2>1. row' = [row EXCEPT ![i] = y] /\ Answered(q, ans) /\ q.kind \in Outcome
          /\ UNCHANGED <<lapsed, nextTok, produced, execs>>
      BY <1>5 DEF ServeOutcome
    <2>2. RowSteady(y, r, i)  BY <2>1, <1>0, OutcomeRowSteady
    <2>3. ans \in {"ok", "no"}  BY DEF Yes
    <2>4. q.kind \notin {"claim", "attempt"}  BY <2>1 DEF Outcome
    <2> HIDE DEF y, ans
    <2> QED  BY <2>1, <2>2, <2>3, <2>4, <1>s
  <1> QED  BY <1>1, <1>2, <1>3, <1>4, <1>5 DEF Serve
-----------------------------------------------------------------------------
(* Time, the operator and the poller. *)

\* A lease that runs out, a cancellation and a retry grant no claim.
LEMMA OperatorClaims ==
  ASSUME TypeOK, TypeOK', Claims,
         \/ \E t \in 1 .. nextTok - 1 : LeaseLapses(t)
         \/ \E j \in Item : Cancel(j) \/ Retry(j)
  PROVE  Claims'
  <1>1. /\ run' = run /\ nextTok' = nextTok /\ produced' = produced /\ execs' = execs
        /\ lapsed \subseteq lapsed'
    BY DEF LeaseLapses, Cancel, Retry
  <1>2. \A m \in Node, j \in Item : Steady(run'[m][j], run[m][j])  BY <1>1, StandsStill DEF Steady
  <1>3. \A j \in Item : RowSteady(row'[j], row[j], j)
    <2>1. CASE row' = row  BY <2>1, RowIdle
    <2>2. ASSUME NEW i \in Item, Cancel(i) \/ Retry(i)  PROVE \A j \in Item : RowSteady(row'[j], row[j], j)
      <3>1. row[i] \in RowRecord /\ row[i].att \in Nat  BY NumberTypes DEF TypeOK
      <3>2. \A j \in Item : j # i => row'[j] = row[j]  BY <2>2 DEF Cancel, Retry, TypeOK
      <3>3. CASE Cancel(i)
        <4>1. /\ row'[i].st = "cancelled" /\ row'[i].lease = FALSE /\ row'[i].tok = row[i].tok
              /\ row'[i].att = row[i].att /\ row'[i].owner = row[i].owner
          BY <3>1, <3>3 DEF Cancel, TypeOK, RowRecord
        <4>2. RowSteady(row'[i], row[i], i)  BY <4>1, <3>1 DEF RowSteady
        <4> QED  BY <4>2, <3>2, RowIdle
      <3>4. CASE Retry(i)
        <4>1. row'[i] = [row[i] EXCEPT !.st = "pending", !.att = @ + 1, !.owner = NoNode, !.lease = FALSE]
          BY <3>4 DEF Retry, TypeOK
        <4>2. /\ row'[i].st = "pending" /\ row'[i].lease = FALSE /\ row'[i].tok = row[i].tok
              /\ row'[i].att = row[i].att + 1
          BY <4>1, <3>1 DEF RowRecord
        <4>3. row[i].st \notin {"claimed", "running", "cancelled"}  BY <3>4 DEF Retry
        <4>4. RowSteady(row'[i], row[i], i)  BY <4>2, <4>3, <3>1 DEF RowSteady
        <4> QED  BY <4>4, <3>2, RowIdle
      <3> QED  BY <2>2, <3>3, <3>4
    <2>3. CASE \E t \in 1 .. nextTok - 1 : LeaseLapses(t)  BY <2>1, <2>3 DEF LeaseLapses
    <2> QED  BY <2>2, <2>3
  <1> QED  BY <1>1, <1>2, <1>3, CalmStep

\* A tick and a crash leave a run that holds no claim; a flush leaves them alone.
LEMMA PollerClaims ==
  ASSUME TypeOK, TypeOK', Claims, NEW n \in Node, Poller(n)
  PROVE  Claims'
  <1>1. row' = row /\ lapsed' = lapsed /\ nextTok' = nextTok /\ produced' = produced /\ execs' = execs
    BY DEF Poller, FlushBegin, FlushReply, FlushFails, Tick, Crash, serverVars
  <1>2. \A j \in Item : RowSteady(row'[j], row[j], j)  BY <1>1, RowIdle
  <1>3. \A m \in Node, j \in Item : run'[m][j] = run[m][j] \/ Fresh(run'[m][j])
    <2>1. CASE FlushBegin(n) \/ FlushReply(n) \/ FlushFails(n)
      <3>1. run' = run  BY <2>1 DEF FlushBegin, FlushReply, FlushFails
      <3> QED  BY <3>1
    <2>2. CASE Tick(n)
      <3> DEFINE x == [Idle EXCEPT !.pc = "claiming", !.active = TRUE, !.reply = "wait"]
      <3>1. PICK S \in SUBSET Eligible(n) :
              run' = [run EXCEPT ![n] = [i \in Item |-> IF i \in S THEN x ELSE @[i]]]
        BY <2>2 DEF Tick
      <3>2. x.tok = NoTok /\ x.pc = "claiming" /\ x.reply = "wait"  BY DEF Idle
      <3> HIDE DEF x
      <3>3. \A m \in Node, j \in Item : run'[m][j] = run[m][j] \/ run'[m][j] = x  BY <3>1 DEF TypeOK
      <3> QED  BY <3>2, <3>3 DEF Fresh
    <2>3. CASE Crash(n)
      <3>1. run' = [run EXCEPT ![n] = [j \in Item |-> Idle]]  BY <2>3 DEF Crash
      <3>2. \A m \in Node, j \in Item : run'[m][j] = run[m][j] \/ run'[m][j] = Idle  BY <3>1 DEF TypeOK
      <3>3. Fresh(Idle)  BY DEF Fresh, Idle
      <3> QED  BY <3>2, <3>3
    <2> QED  BY <2>1, <2>2, <2>3 DEF Poller
  <1>4. \A m \in Node, j \in Item : Steady(run'[m][j], run[m][j])  BY <1>3, StandsStill DEF Steady
  <1> QED  BY <1>1, <1>2, <1>4, CalmStep

-----------------------------------------------------------------------------
(* The run. *)

\* finishWork is reached under a claim, by a run that has not reported before.
LEMMA FinishClaims ==
  ASSUME TypeOK, TypeOK', Claims, NEW n \in Node, NEW i \in Item, NEW action \in Outcome,
         Finish(n, i, action), run[n][i].pc \in {"agent", "checking"},
         \A j \in Item : /\ row'[j].tok = row[j].tok /\ row'[j].att = row[j].att /\ row'[j].st = row[j].st
                         /\ row'[j].owner = row[j].owner /\ row'[j].lease = row[j].lease,
         nextTok' = nextTok, lapsed' = lapsed, execs' = execs
  PROVE  Claims'
  <1> DEFINE r == run[n][i]
             h == IF r.pc = "checking" THEN "none" ELSE r.hb
             x == [r EXCEPT !.pc = "finishing", !.reply = "wait", !.hb = h, !.action = action]
             z == [item |-> i, tok |-> r.tok, action |-> action]
  <1>1. r \in RunRecord /\ WellTokened(r) /\ r.hb \in Reply \union {"bare"}
    BY DEF TypeOK, Claims, Tokens, RunRecord
  <1>2. run' = [run EXCEPT ![n][i] = x] /\ produced' = produced \union {z}  BY DEF Finish
  <1>3. r.pc \in {"agent", "checking"} /\ Held(n, i)  BY <1>1 DEF WellTokened, Held
  <1>4. h \in Reply \union {"bare"}  BY <1>1 DEF Reply
  <1>5. z.item = i /\ z.tok = r.tok  OBVIOUS
  <1> HIDE DEF r, h, z
  <1>6. x \in RunRecord /\ x.pc = "finishing" /\ x.reply = "wait" /\ x.tok = r.tok /\ x.att = r.att
    BY <1>1, <1>4 DEF RunRecord, Reply
  <1> HIDE DEF x
  <1>7. Steady(x, run[n][i])  BY <1>3, <1>6, GoesOn DEF Steady, r
  <1>8. \A e \in produced' : e \in produced \/
          (e.item = i /\ Held(n, i) /\ e.tok = run[n][i].tok /\ x.pc = "finishing")
    BY <1>2, <1>3, <1>5, <1>6 DEF r
  <1> QED  BY <1>2, <1>7, <1>8, RunMoves

\* A step of a run starts the agent only under a number that is due to it.
LEMMA RunStepClaims ==
  ASSUME TypeOK, TypeOK', Claims, NEW n \in Node, NEW i \in Item, RunStep(n, i)
  PROVE  Claims'
  <1> DEFINE r == run[n][i]
             Server == row' = row /\ lapsed' = lapsed /\ nextTok' = nextTok
  <1>1. r \in RunRecord /\ WellTokened(r) /\ r.att \in Nat /\ r.tok \in Nat
    BY NumberTypes DEF TypeOK, Claims, Tokens
  <1>2. ASSUME NEW x, run' = [run EXCEPT ![n][i] = x], Steady(x, r),
               Server, execs' = execs, produced' = produced
        PROVE  Claims'
    BY <1>2, RunMoves
  <1>3. ASSUME run' = [run EXCEPT ![n][i] = Idle], Server, execs' = execs, produced' = produced
        PROVE  Claims'
    <2>1. Steady(Idle, r)  BY DEF Steady, Fresh, Idle
    <2> QED  BY <1>2, <1>3, <2>1
  <1>4. CASE ClaimReply(n, i)
    <2>0. Server /\ execs' = execs /\ produced' = produced  BY <1>4 DEF ClaimReply, serverVars
    <2>1. CASE r.reply = "ok" /\ r.active
      <3>1. PICK a \in DeadlineVerdict(r.tok) :
              run' = [run EXCEPT ![n][i] = [r EXCEPT !.pc = "starting", !.reply = "wait", !.active = a]]
        BY <1>4, <2>1 DEF ClaimReply
      <3> DEFINE x == [r EXCEPT !.pc = "starting", !.reply = "wait", !.active = a]
      <3>2. a \in BOOLEAN  BY DEF DeadlineVerdict
      <3>3. x \in RunRecord /\ x.pc = "starting" /\ x.tok = r.tok /\ x.att = r.att
        BY <1>1, <3>2 DEF RunRecord, Reply
      <3>4. r.pc = "claiming"  BY <1>4 DEF ClaimReply
      <3> HIDE DEF x
      <3>5. Steady(x, r)  BY <2>1, <3>3, <3>4, GoesOn DEF Steady
      <3> QED  BY <1>2, <2>0, <3>1, <3>5 DEF x
    <2>2. CASE ~(r.reply = "ok" /\ r.active)
      <3>1. run' = [run EXCEPT ![n][i] = Idle]  BY <1>4, <2>2 DEF ClaimReply
      <3> QED  BY <1>3, <2>0, <3>1
    <2> QED  BY <2>1, <2>2
  <1>5. CASE StartReply(n, i)
    <2>0. Server /\ produced' = produced  BY <1>5 DEF StartReply, serverVars
    <2>1. CASE r.reply = "ok" /\ r.active
      <3> DEFINE x == [r EXCEPT !.pc = "agent", !.reply = "none"]
      <3>1. run' = [run EXCEPT ![n][i] = x] /\ execs' = [execs EXCEPT ![i][r.att] = @ + 1]
        BY <1>5, <2>1 DEF StartReply
      <3>2. x.pc = "agent" /\ x.tok = r.tok /\ x.att = r.att  BY <1>1 DEF RunRecord
      <3>3. r.att \in Due(run[n][i])  BY <1>1, <1>5 DEF StartReply, Due, WellTokened
      <3> HIDE DEF x
      <3> QED  BY <2>0, <3>1, <3>2, <3>3, <1>1, AgentStarts
    <2>2. CASE ~(r.reply = "ok" /\ r.active)
      <3>1. run' = [run EXCEPT ![n][i] = Idle] /\ execs' = execs  BY <1>5, <2>2 DEF StartReply
      <3> QED  BY <1>3, <2>0, <3>1
    <2> QED  BY <2>1, <2>2
  <1>6. CASE StartFails(n, i)
    <2>1. run' = [run EXCEPT ![n][i] = Idle] /\ Server /\ execs' = execs /\ produced' = produced
      BY <1>6 DEF StartFails, serverVars
    <2> QED  BY <1>3, <2>1
  <1>7. CASE AgentEnds(n, i)
    <2>1. PICK action \in Outcome : Finish(n, i, action)  BY <1>7 DEF AgentEnds, Outcome
    <2>2. nextTok' = nextTok /\ lapsed' = lapsed /\ execs' = execs /\ run[n][i].pc = "agent"
      BY <1>7 DEF AgentEnds
    <2>3. row' = row \/ row' = [row EXCEPT ![i].denied = TRUE]  BY <1>7 DEF AgentEnds
    <2>4. \A j \in Item : /\ row'[j].tok = row[j].tok /\ row'[j].att = row[j].att /\ row'[j].st = row[j].st
                          /\ row'[j].owner = row[j].owner /\ row'[j].lease = row[j].lease
      <3> TAKE j \in Item
      <3>1. row[j] \in RowRecord  BY DEF TypeOK
      <3>2. row'[j] = row[j] \/ row'[j] = [row[j] EXCEPT !.denied = TRUE]  BY <2>3 DEF TypeOK
      <3> QED  BY <3>1, <3>2 DEF RowRecord
    <2> QED  BY <2>1, <2>2, <2>4, FinishClaims
  <1>8. CASE AgentRetries(n, i)
    <2> DEFINE x == [r EXCEPT !.pc = "reserving", !.reply = "wait"]
    <2>1. run' = [run EXCEPT ![n][i] = x] /\ Server /\ execs' = execs /\ produced' = produced /\ r.pc = "agent"
      BY <1>8 DEF AgentRetries, serverVars
    <2>2. x \in RunRecord /\ x.pc = "reserving" /\ x.reply = "wait" /\ x.tok = r.tok /\ x.att = r.att
      BY <1>1 DEF RunRecord, Reply
    <2> HIDE DEF x
    <2>3. Steady(x, r)  BY <2>1, <2>2, GoesOn DEF Steady
    <2> QED  BY <1>2, <2>1, <2>3
  <1>9. CASE AgentAborted(n, i)
    <2>1. run' = [run EXCEPT ![n][i] = Idle] /\ Server /\ execs' = execs /\ produced' = produced
      BY <1>9 DEF AgentAborted, Unwind, serverVars
    <2> QED  BY <1>3, <2>1
  <1>10. CASE ReserveReply(n, i)
    <2>0. Server /\ produced' = produced /\ r.pc = "reserving"  BY <1>10 DEF ReserveReply, serverVars
    <2>1. CASE ~r.active
      <3>1. run' = [run EXCEPT ![n][i] = Idle] /\ execs' = execs  BY <1>10, <2>1 DEF ReserveReply
      <3> QED  BY <1>3, <2>0, <3>1
    <2>2. CASE r.active /\ r.reply = "ok"
      <3> DEFINE b == r.att + 1
                 x == [r EXCEPT !.pc = "agent", !.reply = "none", !.att = b]
      <3>1. run' = [run EXCEPT ![n][i] = x] /\ execs' = [execs EXCEPT ![i][b] = @ + 1]
        BY <1>10, <2>2 DEF ReserveReply
      <3>2. b \in Nat /\ b \in Due(run[n][i])  BY <1>1, <2>0, <2>2 DEF Due
      <3> HIDE DEF b
      <3>3. x.pc = "agent" /\ x.tok = r.tok /\ x.att = b  BY <1>1 DEF RunRecord
      <3> HIDE DEF x
      <3> QED  BY <2>0, <3>1, <3>2, <3>3, AgentStarts
    <2>3. CASE r.active /\ r.reply # "ok"
      <3> DEFINE h == IF r.hb = "none" THEN "wait" ELSE r.hb
                 x == [r EXCEPT !.pc = "checking", !.reply = "none", !.hb = h]
      <3>1. run' = [run EXCEPT ![n][i] = x] /\ execs' = execs
        BY <1>10, <2>3 DEF ReserveReply
      <3>2. h \in Reply \union {"bare"}  BY <1>1 DEF RunRecord, Reply
      <3> HIDE DEF h
      <3>3. x \in RunRecord /\ x.pc = "checking" /\ x.reply = "none" /\ x.tok = r.tok /\ x.att = r.att
        BY <1>1, <3>2 DEF RunRecord, Reply
      <3> HIDE DEF x
      <3>4. Steady(x, r)  BY <2>0, <3>3, GoesOn DEF Steady
      <3> QED  BY <1>2, <2>0, <3>1, <3>4
    <2> QED  BY <2>1, <2>2, <2>3
  <1>11. CASE ReserveFails(n, i) \/ FinishFails(n, i)
    <2> DEFINE x == [r EXCEPT !.reply = "wait"]
    <2>0. Server /\ produced' = produced /\ execs' = execs /\ r.pc \in {"reserving", "finishing"}
      BY <1>11 DEF ReserveFails, FinishFails, serverVars
    <2>1. run' = [run EXCEPT ![n][i].reply = "wait"] \/ run' = [run EXCEPT ![n][i] = Idle]
      BY <1>11 DEF ReserveFails, FinishFails
    <2>2. run' = [run EXCEPT ![n][i] = x] \/ run' = [run EXCEPT ![n][i] = Idle]  BY <2>1 DEF TypeOK
    <2>3. x \in RunRecord /\ x.pc = r.pc /\ x.reply = "wait" /\ x.tok = r.tok /\ x.att = r.att
      BY <1>1 DEF RunRecord, Reply
    <2> HIDE DEF x
    <2>4. Steady(x, r)  BY <2>0, <2>3, GoesOn DEF Steady
    <2> QED  BY <1>2, <1>3, <2>0, <2>2, <2>4
  <1>12. CASE FinishReply(n, i)
    <2>1. run' = [run EXCEPT ![n][i] = Idle] /\ Server /\ execs' = execs /\ produced' = produced
      BY <1>12 DEF FinishReply, serverVars
    <2> QED  BY <1>3, <2>1
  <1>13. ASSUME NEW h \in Reply \union {"bare"}, NEW a \in BOOLEAN,
                run' = [run EXCEPT ![n][i] = [r EXCEPT !.hb = h, !.active = a]],
                Server, execs' = execs, produced' = produced
         PROVE  Claims'
    <2> DEFINE x == [r EXCEPT !.hb = h, !.active = a]
    <2>1. x \in RunRecord /\ x.pc = r.pc /\ x.reply = r.reply /\ x.tok = r.tok /\ x.att = r.att
      BY <1>1 DEF RunRecord
    <2> HIDE DEF x
    <2>2. Steady(x, r)  BY <2>1, GoesOn DEF Steady
    <2> QED  BY <1>2, <1>13, <2>2 DEF x
  <1>14. CASE CheckLease(n, i) \/ ServeHeartbeat(n, i) \/ DeadlineFires(n, i)
    <2>0. Server /\ produced' = produced /\ execs' = execs
      BY <1>14 DEF CheckLease, ServeHeartbeat, DeadlineFires, serverVars
    <2>1. \E h \in Reply \union {"bare"}, a \in BOOLEAN :
            run' = [run EXCEPT ![n][i] = [r EXCEPT !.hb = h, !.active = a]]
      BY <1>14, LeaseMoves
    <2> QED  BY <1>13, <2>0, <2>1
  <1>15. CASE HeartbeatReply(n, i) \/ HeartbeatFails(n, i)
    <2>0. Server /\ execs' = execs  BY <1>15 DEF HeartbeatReply, HeartbeatFails, serverVars
    <2>1. r.active \in BOOLEAN  BY <1>1 DEF RunRecord
    <2>2. PICK a \in BOOLEAN : Checked(n, i, a)
      BY <1>15, <2>1 DEF HeartbeatReply, HeartbeatFails, DeadlineVerdict
    <2>3. CASE r.pc # "checking"
      <3>1. run' = [run EXCEPT ![n][i] = [r EXCEPT !.hb = "none", !.active = a]] /\ produced' = produced
        BY <2>2, <2>3 DEF Checked, TypeOK
      <3> QED  BY <1>13, <2>0, <3>1 DEF Reply
    <2>4. CASE r.pc = "checking" /\ a
      <3> DEFINE na == "needs-attention"
      <3>1. na \in Outcome /\ Finish(n, i, na)  BY <2>2, <2>4 DEF Checked, Outcome
      <3> HIDE DEF na
      <3> QED  BY <2>0, <2>4, <3>1, FinishClaims
    <2>5. CASE r.pc = "checking" /\ ~a
      <3>1. run' = [run EXCEPT ![n][i] = Idle] /\ produced' = produced  BY <2>2, <2>5 DEF Checked, Unwind
      <3> QED  BY <1>3, <2>0, <3>1
    <2> QED  BY <2>3, <2>4, <2>5
  <1> QED
    BY <1>4, <1>5, <1>6, <1>7, <1>8, <1>9, <1>10, <1>11, <1>12, <1>14, <1>15 DEF RunStep
-----------------------------------------------------------------------------
(* The theorems. *)

\* No claim was made yet.
LEMMA ClaimsInit == Init => Claims
  <1> SUFFICES ASSUME Init PROVE Claims  OBVIOUS
  <1>1. \A n \in Node, i \in Item : run[n][i] = Idle  BY DEF Init
  <1>2. \A i \in Item : row[i].st = "pending" /\ row[i].tok = 0 /\ row[i].lease = FALSE  BY DEF Init, NoTok
  <1>3. nextTok = 1 /\ produced = {} /\ \A i \in Item : \A a \in Attempt : execs[i][a] = 0  BY DEF Init
  <1>4. \A n \in Node, i \in Item : ~Held(n, i) /\ run[n][i].tok = 0 /\ WellTokened(run[n][i])
    BY <1>1 DEF Held, Idle, WellTokened, NoTok
  <1>5. Tokens  BY <1>2, <1>3, <1>4 DEF Tokens
  <1>6. Sole  BY <1>4 DEF Sole
  <1>7. Numbers  BY <1>3, <1>4 DEF Numbers, AttemptExecutedOnce
  <1> QED  BY <1>5, <1>6, <1>7 DEF Claims

\* Every step keeps the claims in order.
LEMMA NextClaims ==
  ASSUME Inv, TypeOK', Claims, [Next]_vars
  PROVE  Claims'
  <1>0. TypeOK  BY DEF Inv
  <1>1. CASE UNCHANGED vars
    <2>1. /\ row' = row /\ lapsed' = lapsed /\ nextTok' = nextTok /\ run' = run
          /\ produced' = produced /\ execs' = execs
      BY <1>1 DEF vars
    <2>2. \A i \in Item : RowSteady(row'[i], row[i], i)  BY <1>0, <2>1, RowIdle
    <2>3. \A n \in Node, i \in Item : Steady(run'[n][i], run[n][i])  BY <1>0, <2>1, StandsStill DEF Steady
    <2> QED  BY <1>0, <2>1, <2>2, <2>3, CalmStep
  <1>2. ASSUME NEW q \in net, Serve(q)  PROVE Claims'  BY <1>2, ServeClaims
  <1>3. ASSUME NEW n \in Node, Poller(n)  PROVE Claims'  BY <1>0, <1>3, PollerClaims
  <1>4. ASSUME NEW n \in Node, NEW i \in Item, RunStep(n, i)  PROVE Claims'  BY <1>0, <1>4, RunStepClaims
  <1>5. CASE \/ \E t \in 1 .. nextTok - 1 : LeaseLapses(t)
             \/ \E j \in Item : Cancel(j) \/ Retry(j)
    BY <1>0, <1>5, OperatorClaims
  <1> QED  BY <1>1, <1>2, <1>3, <1>4, <1>5 DEF Next

\* Claim tokens and attempt numbers stay in order, in every behaviour of the
\* queue, its pollers and the calls between them.
THEOREM ClaimInvariance == Spec => []Claims
  <1>1. Inv /\ Inv' /\ Claims /\ [Next]_vars => Claims'
    <2>1. Inv' => TypeOK'  BY DEF Inv
    <2> QED  BY <2>1, NextClaims
  <1> QED  BY <1>1, ClaimsInit, Invariance, PTL DEF Spec

\* The agent is started at most once per attempt number: neither a lost answer to
\* POST attempt, nor a crash, nor a reclaim of an expired lease repeats one.
THEOREM AttemptsRunOnce == Spec => []AttemptExecutedOnce
  <1>1. Claims => AttemptExecutedOnce  BY DEF Claims, Numbers
  <1> QED  BY <1>1, ClaimInvariance, PTL

\* A machine whose lease has not run out runs the agent alone: claimWorkItem hands
\* a row on only after the lease it carries has expired.
THEOREM ClaimsRunAlone == Spec => []SoleExecution
  <1>1. Claims => SoleExecution
    <2> SUFFICES ASSUME Claims, NEW n \in Node, NEW i \in Item,
                        run[n][i].pc \in {"agent", "reserving", "checking"}, run[n][i].tok \notin lapsed
                 PROVE  row[i].owner = n /\ row[i].tok = run[n][i].tok
      BY DEF SoleExecution
    <2>1. Held(n, i)  BY DEF Claims, Tokens, WellTokened, Held
    <2> QED  BY <2>1 DEF Claims, Sole
  <1> QED  BY <1>1, ClaimInvariance, PTL
-----------------------------------------------------------------------------
(* What a machine has saved, as long as it has one run only.  With two, a  *)
(* flush that goes through a stale list of results can remove a new one.   *)

OneRun == \A i, j \in Item : i = j

\* The row of i is at work under token t.
AtWork(i, t) == row[i].tok = t /\ row[i].st \in {"claimed", "running"}

\* POST running was accepted for run r.
Begun(r) == r.pc \in {"agent", "reserving", "checking", "finishing"} \/ (r.pc = "starting" /\ r.reply = "ok")
Busy(r) == r.pc \notin {"idle", "finishing"}

\* A run of the claim that is at work is the owner's, and begun once the row is
\* running.  It has nothing saved before it reports, then what it reports, and an
\* answer to that means that the claim is no longer at work.
RunKept(n, i) ==
  LET r == run[n][i] IN
  /\ Held(n, i) /\ AtWork(i, r.tok) => row[i].owner = n /\ (Begun(r) => row[i].st = "running")
  /\ Busy(r) => \A x \in outbox[n] : x.item # i
  /\ r.pc = "finishing" => \A x \in outbox[n] : x.item = i => x.tok = r.tok
  /\ r.pc = "finishing" /\ r.reply \in {"ok", "no"} => ~AtWork(i, r.tok)

\* A machine has one result of a run, and of a claim at work only if it owns it.
BoxKept(n) ==
  \A x \in outbox[n] :
    /\ AtWork(x.item, x.tok) => row[x.item].owner = n
    /\ \A y \in outbox[n] : y.item = x.item => y = x

\* A flush delivers the one result there is, of a run that is not in flight.
FlushKept(n) ==
  flush[n] # NoFlush =>
    LET x == flush[n].cur IN
    /\ flush[n].todo = {} /\ x \in outbox[n] /\ run[n][x.item].pc = "idle"
    /\ flush[n].reply \in {"ok", "no"} => ~AtWork(x.item, x.tok)

\* The request that flush f of machine n awaits.
FlushAwaits(n, f, q) ==
  /\ f # NoFlush /\ f.reply = "wait"
  /\ q = Req(n, f.cur.item, f.cur.action, f.cur.tok, 0, "flush")

Keeping ==
  /\ \A i \in Item : row[i].st \in {"claimed", "running"} => row[i].owner \in Node
  /\ \A n \in Node, i \in Item : RunKept(n, i)
  /\ \A n \in Node : BoxKept(n) /\ FlushKept(n)
  /\ \A q \in net : q.by = "flush" => FlushAwaits(q.node, flush[q.node], q)
  /\ \A x \in produced : AtWork(x.item, x.tok) => row[x.item].st = "running"
  /\ ResultKept

-----------------------------------------------------------------------------
(* Steps that save nothing. *)

\* Run r ends or goes on as x, begun no further and answered no more than it was.
Proceeds(x, r) ==
  /\ x.tok # NoTok => x.tok = r.tok /\ (Begun(x) => Begun(r))
  /\ Busy(x) => Busy(r)
  /\ x.pc = "finishing" =>
       /\ r.pc = "finishing" /\ x.tok = r.tok
       /\ x.reply \in {"ok", "no"} => r.reply \in {"ok", "no"}

\* Row r becomes s, which is at work only if r was, under the same claim.
StaysAtWork(s, r) ==
  s.st \in {"claimed", "running"} =>
    /\ r.st \in {"claimed", "running"} /\ s.tok = r.tok /\ s.owner = r.owner
    /\ r.st = "running" => s.st = "running"

\* Only a claim granted in the step puts a row to work.
RowsGoOn == \A i \in Item : row'[i].tok < nextTok => StaysAtWork(row'[i], row[i])

\* Parking, starting and deciding put no row to work.
LEMMA WorkStays ==
  ASSUME NEW r \in RowRecord, NEW n, NEW t
  PROVE  /\ StaysAtWork(r, r) /\ StaysAtWork(ParkForPolicy(r), r)
         /\ StaysAtWork(Transition(r, n, t, "running"), r)
         /\ \A a \in Outcome : StaysAtWork(AfterOutcome(r, n, t, a), r)
  <1>1. StaysAtWork(r, r)  BY DEF StaysAtWork
  <1>2. StaysAtWork(ParkForPolicy(r), r)  BY DEF StaysAtWork, ParkForPolicy, RowRecord
  <1>3. StaysAtWork(Transition(r, n, t, "running"), r)
    BY DEF StaysAtWork, Transition, MayTransition, From, RowRecord
  <1>4. ASSUME NEW a \in Outcome  PROVE StaysAtWork(AfterOutcome(r, n, t, a), r)
    <2> DEFINE p == BeforeOutcome(r, n, t, a)
               s == AfterOutcome(r, n, t, a)
    <2>1. p \in {r, Transition(r, n, t, "running")}  BY DEF BeforeOutcome
    <2>2. p \in RowRecord  BY <2>1, TransitionType
    <2>3. StatusOf(a) \in {"needs_attention", "succeeded", "failed"}  BY DEF StatusOf, Outcome
    <2>4. s = Transition(p, n, t, StatusOf(a))  BY DEF AfterOutcome
    <2>5. StaysAtWork(p, r)  BY <1>1, <1>3, <2>1
    <2> HIDE DEF p, s
    <2>6. s = p \/ s.st \notin {"claimed", "running"}  BY <2>2, <2>3, <2>4 DEF Transition, RowRecord
    <2> QED  BY <2>5, <2>6 DEF StaysAtWork, s
  <1> QED  BY <1>1, <1>2, <1>3, <1>4

\* Only a granted claim puts a row to work, and it hands out a new token.
LEMMA NextRowsGoOn ==
  ASSUME TypeOK, Keeping, Next
  PROVE  RowsGoOn /\ \A i \in Item : row'[i].st \in {"claimed", "running"} => row'[i].owner \in Node
  <1> DEFINE Granted(i) == row'[i].tok = nextTok /\ row'[i].owner \in Node
  <1> SUFFICES ASSUME NEW i \in Item, row'[i].st \in {"claimed", "running"}
               PROVE  StaysAtWork(row'[i], row[i]) \/ Granted(i)
    <2>1. nextTok \in Nat  BY DEF TypeOK
    <2> QED  BY <2>1 DEF RowsGoOn, StaysAtWork, Keeping
  <1>0. row[i] \in RowRecord /\ nextTok \in Nat  BY DEF TypeOK
  <1>1. ASSUME NEW q \in net, Serve(q), q.item = i, ~ServeClaim(q)
        PROVE  row'[i] \in {row[i], ParkForPolicy(row[i]), Transition(row[i], q.node, q.tok, "running")}
               \/ (\E k : row'[i] = [row[i] EXCEPT !.att = k])
               \/ (\E a \in Outcome : row'[i] = AfterOutcome(row[i], q.node, q.tok, a))
    <2>1. CASE DenyClaim(q)  BY <1>1, <2>1 DEF DenyClaim, TypeOK
    <2>2. CASE ServeRunning(q)  BY <1>1, <2>2 DEF ServeRunning, TypeOK
    <2>3. CASE ServeAttempt(q)  BY <1>1, <2>3 DEF ServeAttempt, TypeOK
    <2>4. CASE ServeOutcome(q)  BY <1>1, <2>4 DEF ServeOutcome, TypeOK
    <2> QED  BY <1>1, <2>1, <2>2, <2>3, <2>4 DEF Serve
  <1>2. CASE row'[i] = row[i]  BY <1>0, <1>2, WorkStays
  <1>3. ASSUME NEW q \in net, Serve(q), row'[i] # row[i]
        PROVE  StaysAtWork(row'[i], row[i]) \/ Granted(i)
    <2>1. q.item = i
      BY <1>3 DEF TypeOK, Serve, ServeClaim, DenyClaim, ServeRunning, ServeAttempt, ServeOutcome
    <2>2. CASE ServeClaim(q)
      <3>1. Listed(row[i]) /\ row'[i] = ClaimRow(row[i], q.node, nextTok)
        BY <1>3, <2>1, <2>2 DEF ServeClaim, TypeOK
      <3>2. row'[i].st = "needs_attention" \/ Granted(i)
        <4>1. CASE ClaimAttempt(row[i]) > MaxAttempts  BY <1>0, <3>1, <4>1 DEF ClaimRow, RowRecord
        <4>0. q.node \in Node  BY DEF TypeOK, Request
        <4>2. CASE ~(ClaimAttempt(row[i]) > MaxAttempts)
          <5> DEFINE A == ClaimAttempt(row[i])
          <5>1. row'[i] = [row[i] EXCEPT !.st = "claimed", !.owner = q.node, !.tok = nextTok,
                                         !.lease = TRUE, !.att = A]
            BY <3>1, <4>2 DEF ClaimRow
          <5> HIDE DEF A
          <5> QED  BY <1>0, <4>0, <5>1 DEF RowRecord
        <4> QED  BY <4>1, <4>2
      <3> QED  BY <1>0, <3>2
    <2>3. CASE ~ServeClaim(q)
      <3>1. CASE \E k : row'[i] = [row[i] EXCEPT !.att = k]
        BY <1>0, <3>1 DEF RowRecord, StaysAtWork
      <3>2. CASE ~\E k : row'[i] = [row[i] EXCEPT !.att = k]
        <4>1. /\ StaysAtWork(row[i], row[i]) /\ StaysAtWork(ParkForPolicy(row[i]), row[i])
              /\ StaysAtWork(Transition(row[i], q.node, q.tok, "running"), row[i])
              /\ \A a \in Outcome : StaysAtWork(AfterOutcome(row[i], q.node, q.tok, a), row[i])
          BY <1>0, WorkStays
        <4> QED  BY <1>1, <1>3, <2>1, <2>3, <3>2, <4>1
      <3> QED  BY <3>1, <3>2
    <2> QED  BY <2>2, <2>3
  <1>4. ASSUME NEW j \in Item, Cancel(j) \/ Retry(j), row'[i] # row[i]  PROVE FALSE
    <2>1. j = i  BY <1>4 DEF Cancel, Retry, TypeOK
    <2>2. row'[i].st \in {"cancelled", "pending"}
      <3>1. CASE Cancel(i)
        <4>1. row'[i] = [row[i] EXCEPT !.st = "cancelled", !.lease = FALSE]
          BY <3>1 DEF Cancel, TypeOK
        <4> QED  BY <1>0, <4>1 DEF RowRecord
      <3>2. CASE Retry(i)
        <4>1. row'[i] = [row[i] EXCEPT !.st = "pending", !.att = @ + 1, !.owner = NoNode, !.lease = FALSE]
          BY <3>2 DEF Retry, TypeOK
        <4> QED  BY <1>0, <4>1 DEF RowRecord
      <3> QED  BY <1>4, <2>1, <3>1, <3>2
    <2> QED  BY <2>2
  <1>5. ASSUME NEW n \in Node, NEW j \in Item, RunStep(n, j), row'[i] # row[i]
        PROVE  row'[i] = [row[i] EXCEPT !.denied = TRUE]
    <2>1. CASE AgentEnds(n, j)
      <3>1. row' = row \/ row' = [row EXCEPT ![j].denied = TRUE]  BY <2>1 DEF AgentEnds
      <3> QED  BY <1>5, <3>1 DEF TypeOK
    <2>2. CASE ~AgentEnds(n, j)
      BY <1>5, <2>2 DEF RunStep, ClaimReply, StartReply, StartFails, AgentRetries, AgentAborted, ReserveReply,
                  ReserveFails, FinishReply, FinishFails, CheckLease, ServeHeartbeat, HeartbeatReply,
                  HeartbeatFails, DeadlineFires, serverVars
    <2> QED  BY <2>1, <2>2
  <1>6. CASE \E n \in Node, j \in Item : RunStep(n, j)
    BY <1>0, <1>2, <1>5, <1>6 DEF RowRecord, StaysAtWork
  <1>7. CASE \E n \in Node : Poller(n)
    BY <1>2, <1>7 DEF Poller, FlushBegin, FlushReply, FlushFails, Tick, Crash, serverVars
  <1>8. CASE \E t \in 1 .. nextTok - 1 : LeaseLapses(t)  BY <1>2, <1>8 DEF LeaseLapses
  <1> QED  BY <1>2, <1>3, <1>4, <1>6, <1>7, <1>8 DEF Next

\* A run that proceeds keeps what it must, whatever leaves the outbox.
LEMMA RunKeptOn ==
  ASSUME TypeOK, Claims, RowsGoOn, NEW n \in Node, NEW i \in Item, RunKept(n, i),
         Proceeds(run'[n][i], run[n][i]), outbox'[n] \subseteq outbox[n]
  PROVE  RunKept(n, i)'
  <1> DEFINE r == run[n][i]
             x == run'[n][i]
  <1>1. r.tok < nextTok
    <2>1. r.tok <= row[i].tok /\ row[i].tok < nextTok  BY DEF Claims, Tokens
    <2>2. nextTok \in Nat /\ row[i].tok \in Nat /\ run[n][i].tok \in Nat  BY NumberTypes DEF TypeOK
    <2> QED  BY <2>1, <2>2
  <1>2. row'[i].tok = r.tok /\ row'[i].st \in {"claimed", "running"} =>
          /\ AtWork(i, r.tok) /\ row'[i].owner = row[i].owner
          /\ row[i].st = "running" => row'[i].st = "running"
    BY <1>1 DEF RowsGoOn, StaysAtWork, AtWork
  <1> HIDE DEF r, x
  <1>0. r = run[n][i] /\ x = run'[n][i]  BY DEF r, x
  <1>3. ASSUME x.tok # NoTok, row'[i].tok = x.tok, row'[i].st \in {"claimed", "running"}
        PROVE  row'[i].owner = n /\ (Begun(x) => row'[i].st = "running")
    <2>1. x.tok = r.tok /\ Held(n, i) /\ (Begun(x) => Begun(r))  BY <1>0, <1>3 DEF Proceeds, Held
    <2> QED  BY <1>0, <1>2, <1>3, <2>1 DEF RunKept
  <1>4. Busy(x) => \A y \in outbox'[n] : y.item # i  BY <1>0 DEF Proceeds, RunKept
  <1>5. ASSUME x.pc = "finishing"
        PROVE  /\ \A y \in outbox'[n] : y.item = i => y.tok = x.tok
               /\ x.reply \in {"ok", "no"} => ~(row'[i].tok = x.tok /\ row'[i].st \in {"claimed", "running"})
    <2>1. r.pc = "finishing" /\ x.tok = r.tok /\ (x.reply \in {"ok", "no"} => r.reply \in {"ok", "no"})
      BY <1>0, <1>5 DEF Proceeds
    <2> QED  BY <1>0, <1>2, <2>1 DEF RunKept
  <1> QED  BY <1>0, <1>3, <1>4, <1>5 DEF RunKept, AtWork, Held

\* A step that saves nothing, and discards only results of claims no longer at work.
LEMMA KeepingStep ==
  ASSUME TypeOK, SavedBeforeSent, Claims, Keeping, RowsGoOn, produced' = produced,
         \A i \in Item : row'[i].st \in {"claimed", "running"} => row'[i].owner \in Node,
         \A n \in Node : /\ outbox'[n] \subseteq outbox[n]
                         /\ \A x \in outbox[n] : x \in outbox'[n] \/ ~AtWork(x.item, x.tok),
         \A n \in Node, i \in Item : Proceeds(run'[n][i], run[n][i]) \/ RunKept(n, i)',
         \A n \in Node :
           \/ FlushKept(n)'
           \/ /\ flush'[n] = flush[n] /\ outbox'[n] = outbox[n]
              /\ \A i \in Item : run[n][i].pc = "idle" =>
                   run'[n][i].pc = "idle" \/ \A x \in outbox[n] : x.item # i,
         \A q \in net' : q.by = "flush" => FlushAwaits(q.node, flush'[q.node], q)
  PROVE  Keeping'
  <1>1. \A n \in Node, i \in Item : RunKept(n, i)'  BY RunKeptOn DEF Keeping
  <1>2. ASSUME NEW x \in produced, AtWork(x.item, x.tok)'
        PROVE  /\ AtWork(x.item, x.tok) /\ row'[x.item].owner = row[x.item].owner
               /\ row[x.item].st = "running" => row'[x.item].st = "running"
    <2>1. x.item \in Item /\ x.tok < nextTok  BY DEF TypeOK, Result, Claims, Tokens
    <2> QED  BY <1>2, <2>1 DEF RowsGoOn, StaysAtWork, AtWork
  <1>3. \A n \in Node : outbox[n] \subseteq produced  BY DEF SavedBeforeSent
  <1>4. ASSUME NEW n \in Node  PROVE BoxKept(n)'
    <2>1. BoxKept(n)  BY DEF Keeping
    <2>2. ASSUME NEW x \in outbox'[n], AtWork(x.item, x.tok)'  PROVE row'[x.item].owner = n
      BY <1>2, <1>3, <2>1, <2>2 DEF BoxKept
    <2>3. \A x \in outbox'[n] : \A y \in outbox'[n] : y.item = x.item => y = x  BY <2>1 DEF BoxKept
    <2> QED  BY <2>2, <2>3 DEF BoxKept, AtWork
  <1>5. ASSUME NEW n \in Node  PROVE FlushKept(n)'
    <2> SUFFICES ASSUME flush'[n] = flush[n], outbox'[n] = outbox[n], flush[n] # NoFlush,
                        \A i \in Item : run[n][i].pc = "idle" =>
                          run'[n][i].pc = "idle" \/ \A x \in outbox[n] : x.item # i
                 PROVE  FlushKept(n)'
      BY DEF FlushKept
    <2> DEFINE x == flush[n].cur
    <2>1. /\ flush[n].todo = {} /\ x \in outbox[n] /\ run[n][x.item].pc = "idle"
          /\ flush[n].reply \in {"ok", "no"} => ~AtWork(x.item, x.tok)
      BY DEF Keeping, FlushKept
    <2>2. x \in produced /\ x.item \in Item  BY <1>3, <2>1 DEF TypeOK, Result
    <2>3. run'[n][x.item].pc = "idle"  BY <2>1, <2>2
    <2>4. flush[n].reply \in {"ok", "no"} => ~AtWork(x.item, x.tok)'  BY <1>2, <2>1, <2>2
    <2> HIDE DEF x
    <2> QED  BY <2>1, <2>3, <2>4 DEF FlushKept, AtWork, x
  <1>6. \A x \in produced' : AtWork(x.item, x.tok)' => row'[x.item].st = "running"
    BY <1>2 DEF Keeping
  <1>7. ResultKept'
    <2> SUFFICES ASSUME NEW x \in produced, AtWork(x.item, x.tok)'
                 PROVE  x \in outbox'[row'[x.item].owner]
      BY DEF ResultKept, AtWork
    <2>1. x \in outbox[row[x.item].owner]  BY <1>2 DEF Keeping, ResultKept, AtWork
    <2>2. row[x.item].owner \in Node  BY <1>2 DEF Keeping, AtWork, TypeOK, Result
    <2>3. row'[x.item].owner = row[x.item].owner /\ AtWork(x.item, x.tok)  BY <1>2
    <2> QED  BY <2>1, <2>2, <2>3
  <1> QED  BY <1>1, <1>4, <1>5, <1>6, <1>7 DEF Keeping, AtWork

-----------------------------------------------------------------------------
(* The invariant, step by step. *)

\* An answer to a run that has not reported: what it may have begun, the row shows.
LEMMA AnswerKept ==
  ASSUME TypeOK, OneCall, Claims, Keeping, RowsGoOn, NEW q \in net, NEW ans \in {"ok", "no"}, q.by = "run",
         run' = [run EXCEPT ![q.node][q.item].reply = ans], outbox' = outbox,
         q.kind = "running" /\ ans = "ok" =>
           (row'[q.item].tok = q.tok => row'[q.item].st = "running"),
         q.kind \in Outcome => ~AtWork(q.item, q.tok)'
  PROVE  RunKept(q.node, q.item)'
  <1> DEFINE n == q.node
             i == q.item
             r == run[n][i]
             x == [r EXCEPT !.reply = ans]
  <1>1. /\ n \in Node /\ i \in Item /\ r \in RunRecord /\ WellTokened(r)
        /\ q.kind = "claim" => r.pc = "claiming"
        /\ q.kind = "running" => r.pc = "starting"
        /\ q.kind = "attempt" => r.pc = "reserving"
        /\ q.kind \in Outcome => r.pc = "finishing"
    BY AwaitedRun
  <1>2. run'[n][i] = x  BY <1>1 DEF TypeOK
  <1>3. x.pc = r.pc /\ x.tok = r.tok /\ x.reply = ans  BY <1>1 DEF RunRecord
  <1>4. q.tok = r.tok
    BY DEF OneCall, Awaited, Req
  <1>5. RunKept(n, i)  BY <1>1 DEF Keeping
  <1>6. q.kind \in {"claim", "running", "attempt"} \union Outcome  BY DEF TypeOK, Request
  <1> HIDE DEF r, x, n, i
  <1>7. CASE q.kind \in Outcome \/ (q.kind = "running" /\ ans = "ok")
    <2>1. r.tok # NoTok /\ r.pc \in {"starting", "finishing"}
      BY <1>1, <1>7 DEF WellTokened
    <2>2. r.tok < nextTok
      <3>1. r.tok <= row[i].tok /\ row[i].tok < nextTok  BY <1>1 DEF Claims, Tokens, r
      <3>2. nextTok \in Nat /\ row[i].tok \in Nat /\ r.tok \in Nat  BY <1>1, NumberTypes DEF TypeOK, r
      <3> QED  BY <3>1, <3>2
    <2>3. row'[i].tok = r.tok /\ row'[i].st \in {"claimed", "running"} =>
            /\ row'[i].owner = n /\ AtWork(i, r.tok)
            /\ row[i].st = "running" => row'[i].st = "running"
      BY <1>1, <1>5, <2>1, <2>2 DEF RowsGoOn, StaysAtWork, AtWork, RunKept, Held, r
    <2>4. x.pc = "starting" => \A y \in outbox[n] : y.item # i
      BY <1>3, <1>5 DEF RunKept, Busy, r
    <2>5. CASE q.kind \in Outcome
      <3>1. r.pc = "finishing" /\ \A y \in outbox[n] : y.item = i => y.tok = r.tok
        BY <1>1, <1>5, <2>5 DEF RunKept, r
      <3>2. ~(row'[i].tok = r.tok /\ row'[i].st \in {"claimed", "running"})
        BY <1>4, <2>5 DEF AtWork, i
      <3> QED  BY <1>2, <1>3, <3>1, <3>2 DEF RunKept, AtWork, Busy, Held, n, i
    <2>6. CASE q.kind = "running" /\ ans = "ok"
      <3>1. r.pc = "starting" /\ (row'[i].tok = r.tok => row'[i].st = "running")
        BY <1>1, <1>4, <2>6 DEF i
      <3> QED  BY <1>2, <1>3, <2>3, <2>4, <3>1 DEF RunKept, AtWork, Busy, Held, n, i
    <2> QED  BY <1>7, <2>5, <2>6
  <1>8. CASE ~(q.kind \in Outcome \/ (q.kind = "running" /\ ans = "ok"))
    <2>1. Proceeds(x, r)
      BY <1>1, <1>3, <1>6, <1>8 DEF Proceeds, Begun, Busy
    <2> QED  BY <1>1, <1>2, <1>5, <2>1, RunKeptOn DEF r, n, i
  <1> QED  BY <1>7, <1>8

\* POST complete, fail or needs-attention from the caller that awaits it: whatever
\* the answer, the claim is no longer at work.
LEMMA OutcomeStops ==
  ASSUME Inv, Claims, Keeping, NEW q \in net, ServeOutcome(q), q.by # "late"
  PROVE  ~AtWork(q.item, q.tok)'
  <1> DEFINE n == q.node
             i == q.item
             r == row[i]
             t == q.tok
             y == AfterOutcome(r, n, t, q.kind)
  <1> SUFFICES ASSUME row'[i].tok = t, row'[i].st \in {"claimed", "running"}  PROVE FALSE
    BY DEF AtWork
  <1>0. /\ TypeOK /\ OneCall /\ n \in Node /\ i \in Item /\ r \in RowRecord
        /\ q.kind \in Outcome /\ q.by \in {"run", "flush"}
    BY AwaitedRun DEF Inv, TypeOK, ServeOutcome, Request
  <1>1. row'[i] = y  BY <1>0 DEF ServeOutcome, TypeOK
  <1>2. r.st \in {"claimed", "running"} /\ r.tok = t
    <2>1. StaysAtWork(y, r)  BY <1>0, WorkStays
    <2> QED  BY <1>1, <2>1 DEF StaysAtWork
  <1>3. r.st = "running"
    <2> DEFINE x == [item |-> i, tok |-> t, action |-> q.kind]
    <2>1. x \in produced /\ x.item = i /\ x.tok = t  BY <1>0 DEF Inv, SavedBeforeSent
    <2> HIDE DEF x
    <2> QED  BY <1>2, <2>1 DEF Keeping, AtWork
  <1>4. r.owner = n
    <2>1. CASE q.by = "run"
      <3>1. Held(n, i)  BY <1>0, <2>1, AwaitedRun DEF WellTokened, Held
      <3>2. run[n][i].tok = t  BY <2>1 DEF Inv, OneCall, Awaited, Req
      <3> QED  BY <1>0, <1>2, <3>1, <3>2 DEF Keeping, RunKept, AtWork
    <2>2. CASE q.by = "flush"
      <3> DEFINE x == flush[n].cur
      <3>1. FlushAwaits(n, flush[n], q)  BY <2>2 DEF Keeping
      <3>2. x.item = i /\ x.tok = t  BY <3>1 DEF FlushAwaits, Req
      <3>3. x \in outbox[n]  BY <1>0, <3>1 DEF FlushAwaits, Keeping, FlushKept
      <3> HIDE DEF x
      <3> QED  BY <1>0, <1>2, <3>2, <3>3 DEF Keeping, BoxKept, AtWork
    <2> QED  BY <1>0, <2>1, <2>2
  <1>5. y.st \notin {"claimed", "running"}
    <2>1. BeforeOutcome(r, n, t, q.kind) = r  BY <1>3 DEF BeforeOutcome
    <2>2. StatusOf(q.kind) \in {"needs_attention", "succeeded", "failed"}  BY <1>0 DEF StatusOf, Outcome
    <2> DEFINE s == StatusOf(q.kind)
               l == s = "running"
    <2>3. MayTransition(r, n, t, s)
      BY <1>2, <1>3, <1>4, <2>2 DEF MayTransition, OwnsWorkClaim, From
    <2>4. y = [r EXCEPT !.st = s, !.lease = l]  BY <2>1, <2>3 DEF AfterOutcome, Transition
    <2> HIDE DEF s, l, y
    <2>5. y.st = s  BY <1>0, <2>4 DEF RowRecord
    <2> QED  BY <2>2, <2>5 DEF s
  <1> QED  BY <1>1, <1>5

\* An answer is one the caller may act on.
LEMMA AnsweredKeeps ==
  ASSUME Inv, Claims, Keeping, RowsGoOn,
         \A i \in Item : row'[i].st \in {"claimed", "running"} => row'[i].owner \in Node,
         NEW q \in net, NEW ans \in {"ok", "no"}, Answered(q, ans), UNCHANGED <<outbox, produced>>,
         q.by = "run" /\ q.kind = "running" /\ ans = "ok" =>
           (row'[q.item].tok = q.tok => row'[q.item].st = "running"),
         q.by # "late" /\ q.kind \in Outcome => ~AtWork(q.item, q.tok)'
  PROVE  Keeping'
  <1> DEFINE n == q.node
             i == q.item
  <1>0. TypeOK /\ OneCall /\ SavedBeforeSent /\ n \in Node /\ i \in Item
    BY AwaitedRun DEF Inv
  <1>1. \A m \in Node, j \in Item : Proceeds(run'[m][j], run[m][j]) \/ RunKept(m, j)'
    <2>1. CASE q.by = "run"
      <3>1. run' = [run EXCEPT ![n][i].reply = ans] /\ RunKept(n, i)'
        BY <1>0, <2>1, AnswerKept DEF Answered
      <3>2. \A m \in Node, j \in Item : m # n \/ j # i => run'[m][j] = run[m][j]
        BY <1>0, <3>1 DEF TypeOK
      <3> QED  BY <3>1, <3>2 DEF Proceeds
    <2>2. CASE q.by # "run"  BY <2>2 DEF Answered, Proceeds
    <2> QED  BY <2>1, <2>2
  <1>2. \A m \in Node, j \in Item : run'[m][j].pc = run[m][j].pc
    <2>1. run[n][i] \in RunRecord  BY <1>0 DEF TypeOK
    <2> QED  BY <1>0, <2>1 DEF Answered, TypeOK, RunRecord
  <1>3. CASE q.by # "flush"
    <2>1. flush' = flush /\ net' = net \ {q}  BY <1>3 DEF Answered
    <2>2. \A p \in net' : p.by = "flush" => FlushAwaits(p.node, flush'[p.node], p)
      BY <2>1 DEF Keeping
    <2> QED  BY <1>0, <1>1, <1>2, <2>1, <2>2, KeepingStep
  <1>4. CASE q.by = "flush"
    <2> DEFINE f == flush[n]
               g == [f EXCEPT !.reply = ans]
    <2>1. FlushAwaits(n, f, q)  BY <1>4 DEF Keeping
    <2>2. net' = net \ {q} /\ flush' = [flush EXCEPT ![n] = g] /\ run' = run
      BY <1>0, <1>4 DEF Answered, TypeOK
    <2>3. f \in FlushRecord /\ f # NoFlush  BY <1>0, <2>1 DEF TypeOK, FlushAwaits
    <2>4. flush'[n] = g /\ \A m \in Node : m # n => flush'[m] = flush[m]  BY <1>0, <2>2 DEF TypeOK
    <2>5. FlushKept(n)'
      <3>1. FlushKept(n)  BY <1>0 DEF Keeping
      <3>2. g.cur = f.cur /\ g.todo = f.todo  BY <2>3 DEF FlushRecord
      <3>3. f.cur.item = i /\ f.cur.tok = q.tok /\ f.cur.action = q.kind  BY <2>1 DEF FlushAwaits, Req
      <3>4. /\ f.todo = {} /\ f.cur \in outbox[n] /\ run[n][i].pc = "idle"
        BY <2>3, <3>1, <3>3 DEF FlushKept
      <3>5. q.kind \in Outcome  BY <1>0, <3>3, <3>4 DEF TypeOK, Result
      <3>6. ~(row'[i].tok = q.tok /\ row'[i].st \in {"claimed", "running"})
        BY <1>4, <3>5 DEF AtWork
      <3> HIDE DEF f, g, n, i
      <3> QED  BY <2>2, <2>4, <3>2, <3>3, <3>4, <3>6 DEF FlushKept, AtWork
    <2>6. \A p \in net' : p.by = "flush" => FlushAwaits(p.node, flush'[p.node], p)
      <3> SUFFICES ASSUME NEW p \in net, p # q, p.by = "flush"
                   PROVE  FlushAwaits(p.node, flush'[p.node], p)
        BY <2>2
      <3>1. FlushAwaits(p.node, flush[p.node], p) /\ p.node \in Node
        BY <1>0 DEF Keeping, TypeOK, Request
      <3>2. p.node # n  BY <2>1, <3>1 DEF FlushAwaits
      <3> QED  BY <2>4, <3>1, <3>2
    <2>7. \A m \in Node : FlushKept(m)' \/ (flush'[m] = flush[m] /\ outbox'[m] = outbox[m])
      BY <2>4, <2>5
    <2> HIDE DEF n
    <2> QED  BY <1>0, <1>1, <1>2, <2>6, <2>7, KeepingStep
  <1> QED  BY <1>3, <1>4

\* Every endpoint keeps what is saved.
LEMMA ServeKeeps ==
  ASSUME Inv, Claims, Keeping, RowsGoOn,
         \A i \in Item : row'[i].st \in {"claimed", "running"} => row'[i].owner \in Node,
         NEW q \in net, Serve(q)
  PROVE  Keeping'
  <1> DEFINE n == q.node
             i == q.item
             r == row[i]
  <1>0. TypeOK /\ OneCall /\ SavedBeforeSent /\ n \in Node /\ i \in Item /\ r \in RowRecord
    BY AwaitedRun DEF Inv, TypeOK
  <1>1. CASE ServeClaim(q)
    <2>0. net' = net \ {q} /\ UNCHANGED <<outbox, flush, produced>> /\ q.kind = "claim"
      BY <1>1 DEF ServeClaim
    <2>1. \A p \in net' : p.by = "flush" => FlushAwaits(p.node, flush'[p.node], p)
      BY <2>0 DEF Keeping
    <2>2. CASE Listed(r) /\ ClaimAttempt(r) <= MaxAttempts
      <3>1. /\ row'[i].owner = n /\ row'[i].tok = nextTok
            /\ \A m \in Node, j \in Item : m # n \/ j # i => run'[m][j] = run[m][j]
            /\ \/ run'[n][i] = run[n][i]
               \/ run'[n][i].pc = "claiming" /\ run'[n][i].tok = nextTok
        BY <1>0, <1>1, <2>2, GrantEffect
      <3>2. CASE run'[n][i] = run[n][i]
        <4>1. \A m \in Node, j \in Item : run'[m][j] = run[m][j]  BY <3>1, <3>2
        <4> QED  BY <1>0, <2>0, <2>1, <4>1, KeepingStep DEF Proceeds
      <3>3. CASE run'[n][i] # run[n][i]
        <4>1. run'[n][i].pc = "claiming" /\ run[n][i].pc = "claiming"
          BY <1>0, <1>1, <3>1, <3>3, AwaitedRun DEF ServeClaim
        <4>2. \A x \in outbox[n] : x.item # i  BY <1>0, <4>1 DEF Keeping, RunKept, Busy
        <4>3. RunKept(n, i)'
          BY <2>0, <3>1, <4>1, <4>2 DEF RunKept, Begun, Busy
        <4>4. \A m \in Node, j \in Item : run'[m][j].pc = run[m][j].pc  BY <3>1, <4>1
        <4>5. \A m \in Node, j \in Item : Proceeds(run'[m][j], run[m][j]) \/ RunKept(m, j)'
          BY <3>1, <4>3 DEF Proceeds
        <4> QED  BY <1>0, <2>0, <2>1, <4>4, <4>5, KeepingStep
      <3> QED  BY <3>2, <3>3
    <2>3. CASE ~(Listed(r) /\ ClaimAttempt(r) <= MaxAttempts)
      <3>1. \A m \in Node, j \in Item : Proceeds(run'[m][j], run[m][j]) /\ run'[m][j].pc = run[m][j].pc
        <4>1. CASE q.by # "run"  BY <1>1, <4>1 DEF ServeClaim, Proceeds
        <4>2. CASE q.by = "run"
          <5> DEFINE x == [run[n][i] EXCEPT !.reply = "no", !.tok = @, !.att = @]
          <5>1. run' = [run EXCEPT ![n][i] = x]  BY <1>1, <2>3, <4>2 DEF ServeClaim, Yes
          <5>2. run[n][i] \in RunRecord /\ run[n][i].pc = "claiming"
            BY <1>0, <2>0, <4>2, AwaitedRun
          <5>3. run'[n][i] = x /\ \A m \in Node, j \in Item : m # n \/ j # i => run'[m][j] = run[m][j]
            BY <1>0, <5>1 DEF TypeOK
          <5>4. x.pc = "claiming" /\ x.tok = run[n][i].tok
            <6> HIDE DEF n, i
            <6> QED  BY <5>2 DEF RunRecord
          <5> HIDE DEF x
          <5>5. Proceeds(x, run[n][i])  BY <5>2, <5>4 DEF Proceeds, Begun, Busy
          <5> QED  BY <5>2, <5>3, <5>4, <5>5 DEF Proceeds
        <4> QED  BY <4>1, <4>2
      <3> QED  BY <1>0, <2>0, <2>1, <3>1, KeepingStep
    <2> QED  BY <2>2, <2>3
  <1>2. CASE DenyClaim(q) \/ ServeAttempt(q)
    <2>1. q.kind \in {"claim", "attempt"} /\ q.kind \notin Outcome \union {"running"}
      BY <1>2 DEF DenyClaim, ServeAttempt, Outcome
    <2>2. UNCHANGED <<outbox, produced>>  BY <1>2 DEF DenyClaim, ServeAttempt
    <2>3. PICK ans \in {"ok", "no"} : Answered(q, ans)  BY <1>2 DEF DenyClaim, ServeAttempt, Yes
    <2> QED  BY <2>1, <2>2, <2>3, AnsweredKeeps
  <1>3. CASE ServeRunning(q)
    <2> DEFINE may == MayTransition(r, q.node, q.tok, "running")
               ans == Yes(may)
    <2>1. Answered(q, ans) /\ q.kind = "running" /\ UNCHANGED <<outbox, produced>>  BY <1>3 DEF ServeRunning
    <2>2. ans \in {"ok", "no"} /\ (ans = "ok" => may)  BY DEF Yes
    <2>3. may => row'[i].st = "running"
      <3> SUFFICES ASSUME may PROVE row'[i].st = "running"  OBVIOUS
      <3>1. row'[i] = [r EXCEPT !.st = "running", !.lease = TRUE]
        BY <1>0, <1>3 DEF ServeRunning, Transition, TypeOK
      <3> HIDE DEF r
      <3> QED  BY <1>0, <3>1 DEF RowRecord
    <2>4. q.kind \notin Outcome  BY <2>1 DEF Outcome
    <2> HIDE DEF may, ans
    <2> QED  BY <2>1, <2>2, <2>3, <2>4, AnsweredKeeps
  <1>4. CASE ServeOutcome(q)
    <2>1. q.kind \in Outcome /\ q.kind # "running" /\ UNCHANGED <<outbox, produced>>
      BY <1>4 DEF ServeOutcome, Outcome
    <2>2. PICK ans \in {"ok", "no"} : Answered(q, ans)  BY <1>4 DEF ServeOutcome, Yes
    <2>3. q.by # "late" => ~AtWork(q.item, q.tok)'  BY <1>4, OutcomeStops
    <2> QED  BY <2>1, <2>2, <2>3, AnsweredKeeps
  <1> QED  BY <1>1, <1>2, <1>3, <1>4 DEF Serve

\* A flush picks a result no run owns, or ends; it has nothing to go on with.
LEMMA FlushNextKeeps ==
  ASSUME OneRun, TypeOK, SavedBeforeSent, Claims, Keeping, RowsGoOn, UNCHANGED <<row, run, produced>>,
         NEW n \in Node, NEW todo \in SUBSET outbox[n], NEW net1, FlushNext(n, todo, net1),
         \A m \in Node : /\ outbox'[m] \subseteq outbox[m]
                         /\ \A x \in outbox[m] : x \in outbox'[m] \/ ~AtWork(x.item, x.tok),
         \A m \in Node : m # n => outbox'[m] = outbox[m],
         todo # {} => outbox'[n] = outbox[n],
         \A q \in net1 : q.by = "flush" => q \in net /\ q.node # n
  PROVE  Keeping'
  <1>1. \A q \in net1 : q.by = "flush" => FlushAwaits(q.node, flush[q.node], q) /\ q.node \in Node
    BY DEF Keeping, TypeOK, Request
  <1>2. BoxKept(n) /\ outbox[n] \subseteq Result  BY DEF Keeping, TypeOK
  <1>3. CASE flush' = [flush EXCEPT ![n] = NoFlush] /\ net' = net1
    <2>1. flush'[n] = NoFlush /\ \A m \in Node : m # n => flush'[m] = flush[m]  BY <1>3 DEF TypeOK
    <2>2. \A m \in Node : FlushKept(m)' \/ (flush'[m] = flush[m] /\ outbox'[m] = outbox[m])
      BY <2>1 DEF FlushKept
    <2>3. \A q \in net' : q.by = "flush" => FlushAwaits(q.node, flush'[q.node], q)  BY <1>1, <1>3, <2>1
    <2> QED  BY <2>2, <2>3, KeepingStep DEF Proceeds, Keeping
  <1>4. ASSUME NEW r \in todo, r.item \notin InFlight(n),
               flush' = [flush EXCEPT ![n] = [cur |-> r, reply |-> "wait", todo |-> todo \ {r}]],
               net' = net1 \union {Req(n, r.item, r.action, r.tok, 0, "flush")}
        PROVE  Keeping'
    <2> DEFINE g == [cur |-> r, reply |-> "wait", todo |-> todo \ {r}]
               p == Req(n, r.item, r.action, r.tok, 0, "flush")
    <2>0. flush'[n] = g /\ \A m \in Node : m # n => flush'[m] = flush[m]  BY <1>4 DEF TypeOK
    <2>1. r \in outbox[n] /\ r.item \in Item /\ outbox'[n] = outbox[n]  BY <1>2, <1>4 DEF Result
    <2>2. g.todo = {} /\ g.cur = r /\ g.reply = "wait"
      <3>1. \A x \in outbox[n] : x.item = r.item  BY <1>2, <2>1 DEF OneRun, Result
      <3> QED  BY <1>2, <2>1, <3>1 DEF BoxKept
    <2>3. run'[n][r.item].pc = "idle"  BY <1>4, <2>1 DEF InFlight
    <2>4. g # NoFlush  BY <2>2 DEF NoFlush
    <2> HIDE DEF g
    <2>5. FlushKept(n)'  BY <2>0, <2>1, <2>2, <2>3 DEF FlushKept
    <2>6. \A m \in Node : FlushKept(m)' \/ (flush'[m] = flush[m] /\ outbox'[m] = outbox[m])
      BY <2>0, <2>5
    <2>7. p.node = n /\ FlushAwaits(n, flush'[n], p)  BY <2>0, <2>2, <2>4 DEF FlushAwaits, Req
    <2> HIDE DEF p
    <2>8. \A q \in net' : q.by = "flush" => FlushAwaits(q.node, flush'[q.node], q)
      BY <1>1, <1>4, <2>0, <2>7 DEF p
    <2> QED  BY <2>6, <2>8, KeepingStep DEF Proceeds, Keeping
  <1> QED  BY <1>3, <1>4 DEF FlushNext

\* Giving up on calls leaves no flush waiting that was not, and none of those calls.
LEMMA FlushAbandons ==
  ASSUME TypeOK, NEW qs \in SUBSET net, NEW net1 \in Abandon(qs), NEW q \in net1, q.by = "flush"
  PROVE  q \in net \ qs
  <1>1. \A p \in qs : [p EXCEPT !.by = "late"].by = "late"  BY DEF TypeOK, Request
  <1> QED  BY <1>1 DEF Abandon

\* Flushing, polling and dying keep what is saved.
LEMMA PollerKeeps ==
  ASSUME OneRun, Inv, Claims, Keeping, RowsGoOn, NEW n \in Node, Poller(n)
  PROVE  Keeping'
  <1>0. TypeOK /\ SavedBeforeSent  BY DEF Inv
  <1>r. \A i \in Item : row'[i].st \in {"claimed", "running"} => row'[i].owner \in Node
    BY DEF Keeping, Poller, FlushBegin, FlushReply, FlushFails, Tick, Crash, serverVars
  <1>a. flush[n] # NoFlush => flush[n].todo = {}  BY DEF Keeping, FlushKept
  <1>1. CASE FlushBegin(n)
    <2>1. \A q \in net : q.by = "flush" => q.node # n  BY <1>1 DEF FlushBegin, Keeping, FlushAwaits
    <2>2. FlushNext(n, outbox[n], net) /\ UNCHANGED <<row, run, produced, outbox>>
      BY <1>1 DEF FlushBegin, serverVars
    <2>3. outbox[n] \in SUBSET outbox[n]  OBVIOUS
    <2> QED  BY <1>0, <2>1, <2>2, <2>3, FlushNextKeeps
  <1>2. CASE FlushReply(n)
    <2> DEFINE x == flush[n].cur
    <2>1. flush[n].reply \in {"ok", "no"} /\ flush[n] # NoFlush  BY <1>2 DEF FlushReply, NoFlush
    <2>2. flush[n].todo = {} /\ x \in outbox[n] /\ ~AtWork(x.item, x.tok)
      BY <2>1 DEF Keeping, FlushKept
    <2>3. \A y \in outbox[n] : y.item = x.item => y = x  BY <2>2 DEF Keeping, BoxKept
    <2>4. /\ outbox' = [outbox EXCEPT ![n] = Remove(@, x.item)]
          /\ FlushNext(n, {}, net) /\ UNCHANGED <<row, run, produced>>
      BY <1>2, <2>2 DEF FlushReply, serverVars
    <2> HIDE DEF x
    <2>5. /\ \A m \in Node : m # n => outbox'[m] = outbox[m]
          /\ outbox'[n] = Remove(outbox[n], x.item)
      BY <1>0, <2>4 DEF TypeOK
    <2>6. \A m \in Node : /\ outbox'[m] \subseteq outbox[m]
                          /\ \A y \in outbox[m] : y \in outbox'[m] \/ ~AtWork(y.item, y.tok)
      BY <2>2, <2>3, <2>5 DEF Remove
    <2>7. \A q \in net : q.by = "flush" => q.node # n  BY <2>1 DEF Keeping, FlushAwaits
    <2>8. {} \in SUBSET outbox[n]  OBVIOUS
    <2> QED  BY <1>0, <2>4, <2>5, <2>6, <2>7, <2>8, FlushNextKeeps
  <1>3. CASE FlushFails(n)
    <2>1. PICK net1 \in Abandon(OwnedBy(n, flush[n].cur.item, "flush")) : FlushNext(n, flush[n].todo, net1)
      BY <1>3 DEF FlushFails
    <2>2. UNCHANGED <<row, run, produced, outbox>> /\ flush[n].todo = {}
      BY <1>3, <1>a DEF FlushFails, serverVars
    <2>3. ASSUME NEW q \in net1, q.by = "flush"  PROVE q \in net /\ q.node # n
      <3> DEFINE qs == OwnedBy(n, flush[n].cur.item, "flush")
      <3>1. qs \in SUBSET net  BY DEF OwnedBy
      <3> HIDE DEF qs
      <3>2. q \in net \ qs  BY <1>0, <2>1, <2>3, <3>1, FlushAbandons DEF qs
      <3>3. q.node = n => q.item = flush[n].cur.item  BY <2>3, <3>2 DEF Keeping, FlushAwaits, Req
      <3> QED  BY <2>3, <3>2, <3>3 DEF OwnedBy, qs
    <2>4. {} \in SUBSET outbox[n]  OBVIOUS
    <2> QED  BY <1>0, <2>1, <2>2, <2>3, <2>4, FlushNextKeeps
  <1>4. CASE Tick(n)
    <2> DEFINE c == [Idle EXCEPT !.pc = "claiming", !.active = TRUE, !.reply = "wait"]
    <2>1. PICK S \in SUBSET Eligible(n) :
            /\ run' = [run EXCEPT ![n] = [i \in Item |-> IF i \in S THEN c ELSE @[i]]]
            /\ net' = net \union {Req(n, i, "claim", NoTok, 0, "run") : i \in S}
      BY <1>4 DEF Tick
    <2>2. UNCHANGED <<outbox, flush, produced>>  BY <1>4 DEF Tick
    <2>3. c.pc = "claiming" /\ c.tok = NoTok /\ c.reply = "wait"  BY DEF Idle
    <2> HIDE DEF c
    <2>4. \A m \in Node, i \in Item : run'[m][i] = run[m][i] \/ (m = n /\ i \in S /\ run'[m][i] = c)
      BY <1>0, <2>1 DEF TypeOK
    <2>5. \A i \in S : \A x \in outbox[n] : x.item # i  BY <2>1 DEF Eligible, Undelivered
    <2>6. \A m \in Node, i \in Item : Proceeds(run'[m][i], run[m][i]) \/ RunKept(m, i)'
      <3> TAKE m \in Node, i \in Item
      <3>1. CASE run'[m][i] = run[m][i]  BY <3>1 DEF Proceeds
      <3>2. CASE m = n /\ i \in S /\ run'[m][i] = c
        BY <2>2, <2>3, <2>5, <3>2 DEF RunKept, Held, Busy, Begun
      <3> QED  BY <2>4, <3>1, <3>2
    <2>7. \A q \in net' : q.by = "flush" => FlushAwaits(q.node, flush'[q.node], q)
      BY <2>1, <2>2 DEF Keeping, Req
    <2>8. \A m \in Node, i \in Item : run[m][i].pc = "idle" =>
            run'[m][i].pc = "idle" \/ \A x \in outbox[m] : x.item # i
      BY <2>4, <2>5
    <2> QED  BY <1>0, <1>r, <2>2, <2>6, <2>7, <2>8, KeepingStep
  <1>5. CASE Crash(n)
    <2>1. \A m \in Node, i \in Item : run'[m][i] = Idle \/ run'[m][i] = run[m][i]
      BY <1>0, <1>5 DEF Crash, TypeOK
    <2>2. Idle.pc = "idle" /\ Idle.tok = NoTok  BY DEF Idle
    <2>3. \A m \in Node, i \in Item : Proceeds(run'[m][i], run[m][i])
      BY <2>1, <2>2 DEF Proceeds, Busy
    <2>4. flush'[n] = NoFlush /\ \A m \in Node : m # n => flush'[m] = flush[m]
      BY <1>0, <1>5 DEF Crash, TypeOK
    <2>5. UNCHANGED <<outbox, produced>>  BY <1>5 DEF Crash
    <2>6. ASSUME NEW m \in Node
          PROVE  \/ FlushKept(m)'
                 \/ /\ flush'[m] = flush[m] /\ outbox'[m] = outbox[m]
                    /\ \A i \in Item : run[m][i].pc = "idle" => run'[m][i].pc = "idle"
      BY <2>1, <2>2, <2>4, <2>5 DEF FlushKept
    <2>7. \A q \in net' : q.by = "flush" => q \in net /\ q.node # n
      <3> DEFINE qs == {q \in net : q.node = n}
      <3>1. net' \in Abandon(qs) /\ qs \in SUBSET net  BY <1>5 DEF Crash
      <3> HIDE DEF qs
      <3>2. \A q \in net' : q.by = "flush" => q \in net \ qs  BY <1>0, <3>1, FlushAbandons
      <3> QED  BY <3>2 DEF qs
    <2>8. \A q \in net' : q.by = "flush" => FlushAwaits(q.node, flush'[q.node], q)
      <3>1. \A q \in net : q.node \in Node  BY <1>0 DEF TypeOK, Request
      <3> QED  BY <2>4, <2>7, <3>1 DEF Keeping
    <2> QED  BY <1>0, <1>r, <2>3, <2>5, <2>6, <2>8, KeepingStep
  <1> QED  BY <1>1, <1>2, <1>3, <1>4, <1>5 DEF Poller

\* finishWork: what is saved is all that the machine has of the run, and of a claim
\* that it owns if the claim is at work.
LEMMA FinishKeeps ==
  ASSUME OneRun, Inv, Claims, Keeping, NEW n \in Node, NEW i \in Item, NEW action \in Outcome,
         Finish(n, i, action), run[n][i].pc \in {"agent", "checking"}, flush' = flush,
         \A j \in Item : row'[j].tok = row[j].tok /\ row'[j].st = row[j].st /\ row'[j].owner = row[j].owner
  PROVE  Keeping'
  <1> DEFINE r == run[n][i]
             h == IF r.pc = "checking" THEN "none" ELSE r.hb
             x == [r EXCEPT !.pc = "finishing", !.reply = "wait", !.hb = h, !.action = action]
             z == [item |-> i, tok |-> r.tok, action |-> action]
  <1>0. /\ TypeOK /\ r \in RunRecord /\ WellTokened(r) /\ r.pc \in {"agent", "checking"}
        /\ RunKept(n, i) /\ \A m \in Node : BoxKept(m) /\ FlushKept(m)
    BY DEF Inv, TypeOK, Claims, Tokens, Keeping
  <1>1. /\ outbox' = [outbox EXCEPT ![n] = Put(@, z)] /\ produced' = produced \union {z}
        /\ run' = [run EXCEPT ![n][i] = x]
        /\ net' = net \union {Req(n, i, action, r.tok, 0, "run")}
    BY DEF Finish
  <1>2. z.item = i /\ z.tok = r.tok  OBVIOUS
  <1> HIDE DEF h, z
  <1>3. x.pc = "finishing" /\ x.reply = "wait" /\ x.tok = r.tok  BY <1>0 DEF RunRecord
  <1> HIDE DEF x
  <1>4. run'[n][i] = x /\ \A m \in Node, j \in Item : m # n \/ j # i => run'[m][j] = run[m][j]
    BY <1>0, <1>1 DEF TypeOK
  <1>5. \A y \in outbox[n] : y.item # i  BY <1>0 DEF RunKept, Busy
  <1>6. outbox'[n] = outbox[n] \union {z} /\ \A m \in Node : m # n => outbox'[m] = outbox[m]
    BY <1>0, <1>1, <1>2, <1>5 DEF Put, TypeOK
  <1>7. row[i].tok = r.tok /\ row[i].st \in {"claimed", "running"} => row[i].owner = n /\ row[i].st = "running"
    BY <1>0 DEF RunKept, AtWork, WellTokened, Held, Begun
  <1>8. \A j \in Item : j = i  BY DEF OneRun
  <1>9. /\ outbox[n] \subseteq produced /\ \A m \in Node : outbox[m] \subseteq Result
        /\ produced \subseteq Result
    BY <1>0 DEF Inv, SavedBeforeSent, TypeOK
  <1>10. \A j \in Item : row'[j].st \in {"claimed", "running"} => row'[j].owner \in Node
    BY DEF Keeping
  <1>11. ASSUME NEW m \in Node, NEW j \in Item  PROVE RunKept(m, j)'
    <2>1. CASE m = n /\ j = i
      BY <1>2, <1>3, <1>4, <1>5, <1>6, <1>7, <2>1 DEF RunKept, AtWork, Busy, Held
    <2>2. CASE m # n
      <3>1. RunKept(m, j)  BY DEF Keeping
      <3> QED  BY <1>4, <1>6, <2>2, <3>1 DEF RunKept, AtWork, Held
    <2> QED  BY <1>8, <2>1, <2>2
  <1>12. ASSUME NEW m \in Node  PROVE BoxKept(m)'
    <2>1. CASE m = n
      <3>1. outbox[n] = {}  BY <1>5, <1>8, <1>9 DEF Result
      <3> QED  BY <1>2, <1>6, <1>7, <2>1, <3>1 DEF BoxKept, AtWork
    <2>2. CASE m # n
      BY <1>0, <1>6, <1>9, <2>2 DEF BoxKept, AtWork, Result
    <2> QED  BY <2>1, <2>2
  <1>13. ASSUME NEW m \in Node  PROVE FlushKept(m)'
    <2>1. CASE m = n
      <3>1. flush[n] = NoFlush
        <4> SUFFICES ASSUME flush[n] # NoFlush PROVE FALSE  OBVIOUS
        <4>1. flush[n].cur \in outbox[n] /\ run[n][flush[n].cur.item].pc = "idle"  BY <1>0 DEF FlushKept
        <4>2. flush[n].cur.item = i  BY <1>8, <1>9, <4>1 DEF Result
        <4> QED  BY <1>0, <4>1, <4>2
      <3> QED  BY <2>1, <3>1 DEF FlushKept
    <2>2. CASE m # n
      <3> DEFINE y == flush[m].cur
      <3> SUFFICES ASSUME flush[m] # NoFlush
                   PROVE  /\ flush[m].todo = {} /\ y \in outbox'[m] /\ run'[m][y.item].pc = "idle"
                          /\ flush[m].reply \in {"ok", "no"} =>
                               ~(row'[y.item].tok = y.tok /\ row'[y.item].st \in {"claimed", "running"})
        BY DEF FlushKept, AtWork
      <3>1. y \in outbox[m] /\ y.item \in Item  BY <1>0, <1>9 DEF FlushKept, Result
      <3> QED  BY <1>0, <1>4, <1>6, <2>2, <3>1 DEF FlushKept, AtWork
    <2> QED  BY <2>1, <2>2
  <1>14. \A q \in net' : q.by = "flush" => FlushAwaits(q.node, flush'[q.node], q)
    BY <1>1 DEF Keeping, Req
  <1>15. ASSUME NEW y \in produced', row'[y.item].tok = y.tok, row'[y.item].st \in {"claimed", "running"}
         PROVE  row'[y.item].st = "running" /\ y \in outbox'[row'[y.item].owner]
    <2>1. CASE y = z  BY <1>2, <1>6, <1>7, <1>15, <2>1
    <2>2. CASE y \in produced
      <3>1. y.item \in Item  BY <1>9, <2>2 DEF Result
      <3>2. row[y.item].st = "running" /\ y \in outbox[row[y.item].owner] /\ row[y.item].owner \in Node
        BY <1>15, <2>2, <3>1 DEF Keeping, ResultKept, AtWork
      <3> QED  BY <1>6, <3>1, <3>2
    <2> QED  BY <1>1, <2>1, <2>2
  <1> QED  BY <1>10, <1>11, <1>12, <1>13, <1>14, <1>15 DEF Keeping, ResultKept, AtWork

\* A step of a run keeps what is saved.
LEMMA RunStepKeeps ==
  ASSUME OneRun, Inv, Claims, Keeping, RowsGoOn,
         \A j \in Item : row'[j].st \in {"claimed", "running"} => row'[j].owner \in Node,
         NEW n \in Node, NEW i \in Item, RunStep(n, i)
  PROVE  Keeping'
  <1> DEFINE r == run[n][i]
             Calm == UNCHANGED <<outbox, flush, produced>>
             Quiet == \A q \in net' : q.by = "flush" => q \in net
  <1>0. TypeOK /\ SavedBeforeSent /\ r \in RunRecord /\ r.active \in BOOLEAN /\ r.hb \in Reply \union {"bare"}
    <2>1. TypeOK /\ SavedBeforeSent /\ r \in RunRecord  BY DEF Inv, TypeOK
    <2> QED  BY <2>1 DEF RunRecord
  <1>1. ASSUME NEW x, run' = [run EXCEPT ![n][i] = x], Proceeds(x, r), Calm, Quiet  PROVE Keeping'
    <2>1. run'[n][i] = x /\ \A m \in Node, j \in Item : m # n \/ j # i => run'[m][j] = run[m][j]
      BY <1>0, <1>1 DEF TypeOK
    <2>2. r.pc = "idle" => x.pc = "idle"  BY <1>1 DEF Proceeds, Busy
    <2> HIDE DEF r
    <2>3. \A m \in Node, j \in Item : Proceeds(run'[m][j], run[m][j])
      BY <1>1, <2>1 DEF Proceeds, r
    <2>4. \A m \in Node, j \in Item : run[m][j].pc = "idle" => run'[m][j].pc = "idle"
      BY <2>1, <2>2 DEF r
    <2>5. \A q \in net' : q.by = "flush" => FlushAwaits(q.node, flush'[q.node], q)  BY <1>1 DEF Keeping
    <2> QED  BY <1>0, <1>1, <2>3, <2>4, <2>5, KeepingStep
  <1>2. ASSUME run' = [run EXCEPT ![n][i] = Idle], Calm, Quiet  PROVE Keeping'
    <2>1. Proceeds(Idle, r)  BY DEF Proceeds, Idle, Busy
    <2> QED  BY <1>1, <1>2, <2>1
  <1>3. ASSUME NEW x, run' = [run EXCEPT ![n][i] = x], x.tok = r.tok, x.pc \notin {"idle", "finishing"},
               Begun(r) \/ (~Begun(x) /\ Busy(r)), r.pc # "finishing", Calm, Quiet
        PROVE  Keeping'
    <2>1. Proceeds(x, r)  BY <1>3 DEF Proceeds, Begun, Busy
    <2> QED  BY <1>1, <1>3, <2>1
  <1>4. ASSUME NEW net1 \in Abandon(OwnedBy(n, i, "run")), NEW q \in net1, q.by = "flush"  PROVE q \in net
    <2>1. OwnedBy(n, i, "run") \in SUBSET net  BY DEF OwnedBy
    <2> QED  BY <1>0, <1>4, <2>1, FlushAbandons
  <1>5. CASE ClaimReply(n, i)
    <2>0. Calm /\ r.pc = "claiming"  BY <1>5 DEF ClaimReply
    <2>1. CASE r.reply = "ok" /\ r.active
      <3>1. PICK a \in DeadlineVerdict(r.tok) :
              run' = [run EXCEPT ![n][i] = [r EXCEPT !.pc = "starting", !.reply = "wait", !.active = a]]
        BY <1>5, <2>1 DEF ClaimReply
      <3> DEFINE q1 == Req(n, i, "running", r.tok, 0, "run")
      <3>5. net' = net \union {q1}  BY <1>5, <2>1 DEF ClaimReply
      <3>6. q1.by = "run"  BY DEF Req
      <3> HIDE DEF q1
      <3>2. Quiet  BY <3>5, <3>6
      <3> DEFINE x == [r EXCEPT !.pc = "starting", !.reply = "wait", !.active = a]
      <3>3. x.pc = "starting" /\ x.reply = "wait" /\ x.tok = r.tok  BY <1>0 DEF RunRecord
      <3> HIDE DEF x
      <3>4. ~Begun(x) /\ Busy(r)  BY <2>0, <3>3 DEF Begun, Busy
      <3> QED  BY <1>3, <2>0, <3>1, <3>2, <3>3, <3>4 DEF x
    <2>2. CASE ~(r.reply = "ok" /\ r.active)
      <3>1. run' = [run EXCEPT ![n][i] = Idle] /\ net' = net  BY <1>5, <2>2 DEF ClaimReply
      <3> QED  BY <1>2, <2>0, <3>1
    <2> QED  BY <2>1, <2>2
  <1>6. CASE StartReply(n, i)
    <2>0. Calm /\ Quiet /\ r.pc = "starting"  BY <1>6 DEF StartReply
    <2>1. CASE r.reply = "ok" /\ r.active
      <3> DEFINE x == [r EXCEPT !.pc = "agent", !.reply = "none"]
      <3>1. run' = [run EXCEPT ![n][i] = x]  BY <1>6, <2>1 DEF StartReply
      <3>2. x.pc = "agent" /\ x.tok = r.tok  BY <1>0 DEF RunRecord
      <3>3. Begun(r)  BY <2>0, <2>1 DEF Begun
      <3> HIDE DEF x
      <3> QED  BY <1>3, <2>0, <3>1, <3>2, <3>3
    <2>2. CASE ~(r.reply = "ok" /\ r.active)
      <3>1. run' = [run EXCEPT ![n][i] = Idle]  BY <1>6, <2>2 DEF StartReply
      <3> QED  BY <1>2, <2>0, <3>1
    <2> QED  BY <2>1, <2>2
  <1>7. CASE StartFails(n, i)
    <2>1. Calm /\ run' = [run EXCEPT ![n][i] = Idle] /\ net' \in Abandon(OwnedBy(n, i, "run"))
      BY <1>7 DEF StartFails
    <2> QED  BY <1>2, <1>4, <2>1
  <1>8. CASE AgentEnds(n, i)
    <2>1. PICK action \in Outcome : Finish(n, i, action)  BY <1>8 DEF AgentEnds, Outcome
    <2>2. flush' = flush /\ run[n][i].pc = "agent"  BY <1>8 DEF AgentEnds
    <2>3. row' = row \/ row' = [row EXCEPT ![i].denied = TRUE]  BY <1>8 DEF AgentEnds
    <2>4. \A j \in Item : row'[j].tok = row[j].tok /\ row'[j].st = row[j].st /\ row'[j].owner = row[j].owner
      <3> TAKE j \in Item
      <3>1. row[j] \in RowRecord  BY <1>0 DEF TypeOK
      <3>2. row'[j] = row[j] \/ row'[j] = [row[j] EXCEPT !.denied = TRUE]  BY <1>0, <2>3 DEF TypeOK
      <3> QED  BY <3>1, <3>2 DEF RowRecord
    <2> QED  BY <2>1, <2>2, <2>4, FinishKeeps
  <1>9. CASE AgentRetries(n, i)
    <2> DEFINE x == [r EXCEPT !.pc = "reserving", !.reply = "wait"]
    <2>1. run' = [run EXCEPT ![n][i] = x] /\ Calm /\ r.pc = "agent"  BY <1>9 DEF AgentRetries
    <2>2. Quiet  BY <1>9 DEF AgentRetries, Req
    <2>3. x.pc = "reserving" /\ x.tok = r.tok /\ Begun(r)  BY <1>0, <2>1 DEF RunRecord, Begun
    <2> HIDE DEF x
    <2> QED  BY <1>3, <2>1, <2>2, <2>3
  <1>10. CASE AgentAborted(n, i)
    <2>1. run' = [run EXCEPT ![n][i] = Idle] /\ Calm /\ Quiet  BY <1>10 DEF AgentAborted, Unwind
    <2> QED  BY <1>2, <2>1
  <1>11. CASE ReserveReply(n, i)
    <2>0. Calm /\ Quiet /\ r.pc = "reserving" /\ Begun(r)  BY <1>11 DEF ReserveReply, Begun
    <2> DEFINE b == r.att + 1
               h == IF r.hb = "none" THEN "wait" ELSE r.hb
               x == [r EXCEPT !.pc = "agent", !.reply = "none", !.att = b]
               y == [r EXCEPT !.pc = "checking", !.reply = "none", !.hb = h]
    <2>1. \/ run' = [run EXCEPT ![n][i] = Idle]
          \/ run' = [run EXCEPT ![n][i] = x]
          \/ run' = [run EXCEPT ![n][i] = y]
      BY <1>11 DEF ReserveReply
    <2> HIDE DEF b, h
    <2>2. x.pc = "agent" /\ x.tok = r.tok /\ y.pc = "checking" /\ y.tok = r.tok  BY <1>0 DEF RunRecord
    <2> HIDE DEF x, y
    <2> QED  BY <1>2, <1>3, <2>0, <2>1, <2>2
  <1>12. CASE ReserveFails(n, i) \/ FinishFails(n, i)
    <2> DEFINE x == [r EXCEPT !.reply = "wait"]
    <2>0. Calm /\ r.pc \in {"reserving", "finishing"}  BY <1>12 DEF ReserveFails, FinishFails
    <2>1. run' = [run EXCEPT ![n][i].reply = "wait"] \/ run' = [run EXCEPT ![n][i] = Idle]
      BY <1>12 DEF ReserveFails, FinishFails
    <2>2. run' = [run EXCEPT ![n][i] = x] \/ run' = [run EXCEPT ![n][i] = Idle]  BY <1>0, <2>1 DEF TypeOK
    <2>3. x.pc = r.pc /\ x.reply = "wait" /\ x.tok = r.tok  BY <1>0 DEF RunRecord
    <2>4. PICK net1 \in Abandon(OwnedBy(n, i, "run")) :
            \A q \in net' : q \in net1 \/ q.by = "run"
      BY <1>12 DEF ReserveFails, FinishFails, Req
    <2>5. Quiet  BY <1>4, <2>4
    <2> HIDE DEF x
    <2>6. Proceeds(x, r)  BY <2>0, <2>3 DEF Proceeds, Begun, Busy
    <2> QED  BY <1>1, <1>2, <2>0, <2>2, <2>5, <2>6
  <1>13. CASE FinishReply(n, i)
    <2>1. /\ r.pc = "finishing" /\ r.reply \in {"ok", "no"} /\ UNCHANGED <<flush, net, produced>>
          /\ outbox' = [outbox EXCEPT ![n] = Remove(@, i)] /\ run' = [run EXCEPT ![n][i] = Idle]
      BY <1>13 DEF FinishReply
    <2>2. /\ outbox'[n] = Remove(outbox[n], i) /\ \A m \in Node : m # n => outbox'[m] = outbox[m]
          /\ run'[n][i] = Idle /\ \A m \in Node, j \in Item : m # n \/ j # i => run'[m][j] = run[m][j]
      BY <1>0, <2>1 DEF TypeOK
    <2>3. ~AtWork(i, r.tok) /\ \A x \in outbox[n] : x.item = i => x.tok = r.tok
      BY <2>1 DEF Keeping, RunKept
    <2>4. \A m \in Node : /\ outbox'[m] \subseteq outbox[m]
                          /\ \A x \in outbox[m] : x \in outbox'[m] \/ ~AtWork(x.item, x.tok)
      BY <2>2, <2>3 DEF Remove
    <2>5. Idle.pc = "idle" /\ Idle.tok = NoTok  BY DEF Idle
    <2>6. \A m \in Node, j \in Item : Proceeds(run'[m][j], run[m][j])
      BY <2>2, <2>5 DEF Proceeds, Busy
    <2>7. flush[n] = NoFlush
      <3> SUFFICES ASSUME flush[n] # NoFlush PROVE FALSE  OBVIOUS
      <3>1. flush[n].cur \in outbox[n] /\ run[n][flush[n].cur.item].pc = "idle"  BY DEF Keeping, FlushKept
      <3>2. flush[n].cur.item = i  BY <1>0, <3>1 DEF OneRun, TypeOK, Result
      <3> QED  BY <2>1, <3>1, <3>2
    <2>8. ASSUME NEW m \in Node
          PROVE  \/ FlushKept(m)'
                 \/ /\ flush'[m] = flush[m] /\ outbox'[m] = outbox[m]
                    /\ \A j \in Item : run[m][j].pc = "idle" => run'[m][j].pc = "idle"
      BY <2>1, <2>2, <2>7 DEF FlushKept
    <2>9. \A q \in net' : q.by = "flush" => FlushAwaits(q.node, flush'[q.node], q)  BY <2>1 DEF Keeping
    <2> QED  BY <1>0, <2>1, <2>4, <2>6, <2>8, <2>9, KeepingStep
  <1>14. ASSUME NEW h \in Reply \union {"bare"}, NEW a \in BOOLEAN,
                run' = [run EXCEPT ![n][i] = [r EXCEPT !.hb = h, !.active = a]], Calm, Quiet
         PROVE  Keeping'
    <2> DEFINE x == [r EXCEPT !.hb = h, !.active = a]
    <2>1. x.pc = r.pc /\ x.reply = r.reply /\ x.tok = r.tok  BY <1>0 DEF RunRecord
    <2> HIDE DEF x
    <2>2. Proceeds(x, r)  BY <2>1 DEF Proceeds, Begun, Busy
    <2> QED  BY <1>1, <1>14, <2>2 DEF x
  <1>15. CASE CheckLease(n, i) \/ ServeHeartbeat(n, i) \/ DeadlineFires(n, i)
    <2>1. \E h \in Reply \union {"bare"}, a \in BOOLEAN :
            run' = [run EXCEPT ![n][i] = [r EXCEPT !.hb = h, !.active = a]]
      BY <1>0, <1>15, LeaseMoves
    <2>2. Calm /\ Quiet  BY <1>15 DEF CheckLease, ServeHeartbeat, DeadlineFires
    <2> QED  BY <1>14, <2>1, <2>2
  <1>16. CASE HeartbeatReply(n, i) \/ HeartbeatFails(n, i)
    <2>0. flush' = flush /\ row' = row  BY <1>16 DEF HeartbeatReply, HeartbeatFails, serverVars
    <2>1. PICK a \in BOOLEAN : Checked(n, i, a)
      BY <1>0, <1>16 DEF HeartbeatReply, HeartbeatFails, DeadlineVerdict
    <2>2. CASE r.pc # "checking"
      <3>1. run' = [run EXCEPT ![n][i] = [r EXCEPT !.hb = "none", !.active = a]] /\ Calm /\ Quiet
        BY <1>0, <2>0, <2>1, <2>2 DEF Checked, TypeOK
      <3> QED  BY <1>14, <3>1 DEF Reply
    <2>3. CASE r.pc = "checking" /\ a
      <3> DEFINE na == "needs-attention"
      <3>1. na \in Outcome /\ Finish(n, i, na)  BY <2>1, <2>3 DEF Checked, Outcome
      <3> HIDE DEF na
      <3> QED  BY <2>0, <2>3, <3>1, FinishKeeps
    <2>4. CASE r.pc = "checking" /\ ~a
      <3>1. run' = [run EXCEPT ![n][i] = Idle] /\ Calm /\ Quiet  BY <2>0, <2>1, <2>4 DEF Checked, Unwind
      <3> QED  BY <1>2, <3>1
    <2> QED  BY <2>2, <2>3, <2>4
  <1> QED
    BY <1>5, <1>6, <1>7, <1>8, <1>9, <1>10, <1>11, <1>12, <1>13, <1>15, <1>16 DEF RunStep

\* Nothing was saved yet, and nothing is at work.
LEMMA KeepingInit == Init => Keeping
  <1> SUFFICES ASSUME Init PROVE Keeping  OBVIOUS
  <1>1. /\ \A i \in Item : row[i].st = "pending"
        /\ \A n \in Node : outbox[n] = {} /\ flush[n] = NoFlush
        /\ \A n \in Node, i \in Item : run[n][i] = Idle
        /\ net = {} /\ produced = {}
    BY DEF Init
  <1>2. \A n \in Node, i \in Item : RunKept(n, i)  BY <1>1 DEF RunKept, Held, Idle, Busy
  <1>3. \A n \in Node : BoxKept(n) /\ FlushKept(n)  BY <1>1 DEF BoxKept, FlushKept
  <1> QED  BY <1>1, <1>2, <1>3 DEF Keeping, ResultKept

\* Every step keeps what is saved, as long as there is one run.
LEMMA NextKeeps ==
  ASSUME OneRun, Inv, Claims, Keeping, [Next]_vars
  PROVE  Keeping'
  <1>0. TypeOK  BY DEF Inv
  <1>1. CASE UNCHANGED vars
    BY <1>1 DEF vars, Keeping, RunKept, BoxKept, FlushKept, ResultKept, AtWork, Held
  <1>2. CASE Next
    <2>1. RowsGoOn /\ \A i \in Item : row'[i].st \in {"claimed", "running"} => row'[i].owner \in Node
      BY <1>0, <1>2, NextRowsGoOn
    <2>2. ASSUME NEW q \in net, Serve(q)  PROVE Keeping'  BY <2>1, <2>2, ServeKeeps
    <2>3. ASSUME NEW n \in Node, Poller(n)  PROVE Keeping'  BY <2>1, <2>3, PollerKeeps
    <2>4. ASSUME NEW n \in Node, NEW i \in Item, RunStep(n, i)  PROVE Keeping'  BY <2>1, <2>4, RunStepKeeps
    <2>5. CASE \/ \E t \in 1 .. nextTok - 1 : LeaseLapses(t)
               \/ \E i \in Item : Cancel(i) \/ Retry(i)
      <3>1. UNCHANGED <<net, run, outbox, flush, produced>>  BY <2>5 DEF LeaseLapses, Cancel, Retry
      <3>2. \A n \in Node, i \in Item : Proceeds(run'[n][i], run[n][i])  BY <3>1 DEF Proceeds
      <3>3. \A q \in net' : q.by = "flush" => FlushAwaits(q.node, flush'[q.node], q)  BY <3>1 DEF Keeping
      <3>4. SavedBeforeSent  BY DEF Inv
      <3> QED  BY <1>0, <2>1, <3>1, <3>2, <3>3, <3>4, KeepingStep
    <2> QED  BY <1>2, <2>2, <2>3, <2>4, <2>5 DEF Next
  <1> QED  BY <1>1, <1>2

\* With one run at a time a result that finishWork saved stays in the outbox of the
\* claim's owner until the row has left the claim's working states: no lost or late
\* call, crash or flush drops it before.
THEOREM ResultsAreKept ==
  ASSUME OneRun
  PROVE  Spec => []ResultKept
  <1>1. Inv /\ Claims /\ Keeping /\ [Next]_vars => Keeping'  BY NextKeeps
  <1>2. Keeping => ResultKept  BY DEF Keeping
  <1> QED  BY <1>1, <1>2, KeepingInit, Invariance, ClaimInvariance, PTL DEF Spec
=============================================================================
