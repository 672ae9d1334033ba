-------------------------- MODULE ClientStreamProofs --------------------------
(***************************************************************************)
(* What the client of a session's stream can rely on, for every value of   *)
(* the constants, though a snapshot lacks the text of an open message: its *)
(* cursor passes no end of a message or turn that it does not show, it     *)
(* drops none that it has not shown, and no snapshot takes one back.       *)
(***************************************************************************)
EXTENDS SessionStreamProofs

-----------------------------------------------------------------------------
(* Iteration.  A step that stays within W can be repeated n times, and the *)
(* recursive function that does it stays within W.                         *)

\* The runs of n steps from st: step k takes an element w of W to F[<<w, k>>].
RunsOf(W, n, F, st) ==
  {f \in [0 .. n -> W] : f[0] = st /\ \A k \in 1 .. n : f[k] = F[<<f[k - 1], k>>]}

\* Repeating a step of W from st makes a sequence of elements of W.
LEMMA Iterates ==
  ASSUME NEW W, NEW n \in Nat, NEW F, NEW st \in W,
         \A w \in W, k \in 1 .. n : F[<<w, k>>] \in W
  PROVE  RunsOf(W, n, F, st) # {}
  <1> DEFINE Runs(f, m) == f \in [0 .. m -> W] /\ f[0] = st /\ \A k \in 1 .. m : f[k] = F[<<f[k - 1], k>>]
             K == {m \in 0 .. n : ~\E f : Runs(f, m)}
  <1>1. SUFFICES K = {}
    <2>1. \E f : Runs(f, n)
      <3>1. n \in 0 .. n  OBVIOUS
      <3> QED  BY <1>1, <3>1
    <2>2. PICK f : Runs(f, n)  BY <2>1
    <2>3. f \in RunsOf(W, n, F, st)  BY <2>2 DEF RunsOf
    <2> QED  BY <2>3
  <1>s. SUFFICES ASSUME K # {} PROVE FALSE  OBVIOUS
  <1>2. K \in SUBSET Nat  OBVIOUS
  <1>3. PICK m \in K : \A k \in K : m <= k
    <2> HIDE DEF K
    <2> QED  BY <1>s, <1>2, Least
  <1>4. m \in 0 .. n /\ ~\E f : Runs(f, m)  OBVIOUS
  <1>5. m # 0
    <2> SUFFICES ASSUME m = 0 PROVE FALSE  OBVIOUS
    <2> DEFINE f == [k \in 0 .. 0 |-> st]
    <2>1. f \in [0 .. 0 -> W] /\ f[0] = st /\ \A k \in 1 .. 0 : FALSE  OBVIOUS
    <2>2. Runs(f, 0)  BY <2>1
    <2> QED  BY <2>2, <1>4
  <1>6. PICK g : Runs(g, m - 1)
    <2>1. m - 1 \in 0 .. n /\ ~(m <= m - 1)  BY <1>4, <1>5
    <2>2. m - 1 \notin K  BY <2>1, <1>3
    <2> QED  BY <2>1, <2>2
  <1> DEFINE f == [k \in 0 .. m |-> IF k < m THEN g[k] ELSE F[<<g[m - 1], m>>]]
  <1>7. m \in Nat /\ m - 1 \in 0 .. m - 1 /\ m \in 1 .. n  BY <1>4, <1>5
  <1>8. F[<<g[m - 1], m>>] \in W
    <2>1. g[m - 1] \in W  BY <1>6, <1>7
    <2> QED  BY <2>1, <1>7
  <1>9. \A k \in 0 .. m - 1 : k \in 0 .. m /\ k < m /\ f[k] = g[k] /\ g[k] \in W  BY <1>6, <1>7
  <1>10. f \in [0 .. m -> W]
    <2>1. \A k \in 0 .. m : k \in 0 .. m - 1 \/ ~(k < m)  BY <1>7
    <2> QED  BY <2>1, <1>8, <1>9
  <1>11. f[0] = st
    <2>1. 0 \in 0 .. m - 1  BY <1>7
    <2> QED  BY <2>1, <1>6, <1>9
  <1>12. ASSUME NEW k \in 1 .. m PROVE f[k] = F[<<f[k - 1], k>>]
    <2>1. k - 1 \in 0 .. m - 1  BY <1>7
    <2>2. f[k - 1] = g[k - 1]  BY <2>1, <1>9
    <2>3. CASE k = m
      <3>1. f[m] = F[<<g[m - 1], m>>]  BY <1>7
      <3> QED  BY <2>2, <2>3, <3>1
    <2>4. CASE k # m
      <3>1. k \in 1 .. m - 1 /\ k \in 0 .. m - 1  BY <2>4, <1>7
      <3>2. f[k] = g[k]  BY <3>1, <1>9
      <3>3. g[k] = F[<<g[k - 1], k>>]  BY <3>1, <1>6
      <3> QED  BY <2>2, <3>2, <3>3
    <2> QED  BY <2>3, <2>4
  <1>13. Runs(f, m)  BY <1>10, <1>11, <1>12
  <1> QED  BY <1>13, <1>4

\* Two functions start alike and repeat the same step n times.
Alike(n, f, g) == f[0] = g[0] /\ \A k \in 1 .. n : f[k - 1] = g[k - 1] => f[k] = g[k]

\* Such functions agree.
LEMMA SameIteration ==
  ASSUME NEW n \in Nat, NEW f, NEW g, Alike(n, f, g)
  PROVE  \A k \in 0 .. n : f[k] = g[k]
  <1> DEFINE K == {k \in 0 .. n : f[k] # g[k]}
  <1>1. SUFFICES ASSUME K # {} PROVE FALSE  OBVIOUS
  <1>2. K \in SUBSET Nat  OBVIOUS
  <1>3. PICK m \in K : \A k \in K : m <= k
    <2> HIDE DEF K
    <2> QED  BY <1>1, <1>2, Least
  <1>4. m \in 1 .. n /\ f[m] # g[m]
    <2>1. m \in 0 .. n /\ f[m] # g[m]  OBVIOUS
    <2>2. m # 0  BY <2>1 DEF Alike
    <2> QED  BY <2>1, <2>2
  <1>5. m - 1 \in 0 .. n /\ ~(m <= m - 1)  BY <1>4
  <1>6. f[m - 1] = g[m - 1]  BY <1>3, <1>5
  <1> QED  BY <1>4, <1>6 DEF Alike

\* Accepting the events of a replay stays within what accepting one stays within.
LEMMA AcceptAllStays ==
  ASSUME NEW W, NEW st \in W, NEW es \in Seq(Event), \A w \in W, k \in 1 .. Len(es) : Accept(w, es[k]) \in W
  PROVE  AcceptAll(st, es) \in W
  <1> DEFINE n == Len(es)
             F == [x \in W \X (1 .. n) |-> Accept(x[1], es[x[2]])]
             Rec(h) == h = [k \in 0 .. n |-> IF k = 0 THEN st ELSE Accept(h[k - 1], es[k])]
             g == CHOOSE h : Rec(h)
  <1>1. n \in Nat  BY LenProperties
  <1>2. \A w \in W, k \in 1 .. n : F[<<w, k>>] \in W  OBVIOUS
  <1>3. \A w \in W, k \in 1 .. n : F[<<w, k>>] = Accept(w, es[k])  OBVIOUS
  <1>4. AcceptAll(st, es) = g[n]  BY DEF AcceptAll
  <1> HIDE DEF n, F
  <1>5. PICK f \in [0 .. n -> W] : f[0] = st /\ \A k \in 1 .. n : f[k] = F[<<f[k - 1], k>>]
    <2>1. n \in Nat /\ st \in W /\ \A w \in W, k \in 1 .. n : F[<<w, k>>] \in W  BY <1>1, <1>2
    <2>2. RunsOf(W, n, F, st) # {}  BY <2>1, Iterates
    <2> QED  BY <2>2 DEF RunsOf
  <1>6. \A k \in 1 .. n : k - 1 \in 0 .. n /\ k # 0 /\ f[k] = Accept(f[k - 1], es[k])
    <2> TAKE k \in 1 .. n
    <2>1. k - 1 \in 0 .. n /\ k # 0  BY <1>1
    <2> QED  BY <2>1, <1>3, <1>5
  <1>7. Rec(f)
    <2>1. \A k \in 0 .. n : f[k] = IF k = 0 THEN st ELSE Accept(f[k - 1], es[k])
      <3>1. \A k \in 0 .. n : k = 0 \/ k \in 1 .. n  BY <1>1
      <3> QED  BY <3>1, <1>5, <1>6
    <2> QED  BY <2>1
  <1>8. Rec(g)  BY <1>7
  <1> HIDE DEF g
  <1>9. g[0] = st /\ \A k \in 1 .. n : g[k] = Accept(g[k - 1], es[k])
    <2>1. 0 \in 0 .. n /\ \A k \in 1 .. n : k \in 0 .. n /\ k # 0  BY <1>1
    <2> QED  BY <2>1, <1>8
  <1>10. \A k \in 1 .. n : f[k - 1] = g[k - 1] => f[k] = g[k]  BY <1>6, <1>9
  <1> HIDE DEF Rec
  <1>11. \A k \in 0 .. n : f[k] = g[k]
    <2>1. f[0] = g[0]  BY <1>5, <1>9
    <2>2. Alike(n, f, g)  BY <1>10, <2>1 DEF Alike
    <2> QED  BY <1>1, <2>2, SameIteration
  <1>12. n \in 0 .. n  BY <1>1
  <1> QED  BY <1>4, <1>5, <1>11, <1>12

\* Draining what an event releases stays within what taking out one held event
\* stays within.
LEMMA InOrderStays ==
  ASSUME NEW W, NEW st, NEW e, Deliver(st, e) \in W, IsFiniteSet(Deliver(st, e).s.held),
         \A w \in W : DeliverHeld(w) \in W
  PROVE  InOrder(st, e) \in W
  <1> DEFINE first == Deliver(st, e)
             n == Cardinality(first.s.held)
             F == [x \in W \X (1 .. n) |-> DeliverHeld(x[1])]
             Rec(h) == h = [k \in 0 .. n |-> IF k = 0 THEN first ELSE DeliverHeld(h[k - 1])]
             g == CHOOSE h : Rec(h)
  <1>1. n \in Nat /\ first \in W  BY FS_CardinalityType
  <1>2. \A w \in W, k \in 1 .. n : F[<<w, k>>] \in W  OBVIOUS
  <1>3. \A w \in W, k \in 1 .. n : F[<<w, k>>] = DeliverHeld(w)  OBVIOUS
  <1>4. InOrder(st, e) = g[n]  BY DEF InOrder
  <1> HIDE DEF n, F, first
  <1>5. PICK f \in [0 .. n -> W] : f[0] = first /\ \A k \in 1 .. n : f[k] = F[<<f[k - 1], k>>]
    <2>1. RunsOf(W, n, F, first) # {}  BY <1>1, <1>2, Iterates
    <2> QED  BY <2>1 DEF RunsOf
  <1>6. \A k \in 1 .. n : k - 1 \in 0 .. n /\ k # 0 /\ f[k] = DeliverHeld(f[k - 1])
    <2> TAKE k \in 1 .. n
    <2>1. k - 1 \in 0 .. n /\ k # 0  BY <1>1
    <2> QED  BY <2>1, <1>3, <1>5
  <1>7. Rec(f)
    <2>1. \A k \in 0 .. n : f[k] = IF k = 0 THEN first ELSE DeliverHeld(f[k - 1])
      <3>1. \A k \in 0 .. n : k = 0 \/ k \in 1 .. n  BY <1>1
      <3> QED  BY <3>1, <1>5, <1>6
    <2> QED  BY <2>1
  <1>8. Rec(g)  BY <1>7
  <1> HIDE DEF g
  <1>9. g[0] = first /\ \A k \in 1 .. n : g[k] = DeliverHeld(g[k - 1])
    <2>1. 0 \in 0 .. n /\ \A k \in 1 .. n : k \in 0 .. n /\ k # 0  BY <1>1
    <2> QED  BY <2>1, <1>8
  <1>10. \A k \in 1 .. n : f[k - 1] = g[k - 1] => f[k] = g[k]  BY <1>6, <1>9
  <1> HIDE DEF Rec
  <1>11. \A k \in 0 .. n : f[k] = g[k]
    <2>1. f[0] = g[0]  BY <1>5, <1>9
    <2>2. Alike(n, f, g)  BY <1>10, <2>1 DEF Alike
    <2> QED  BY <1>1, <2>2, SameIteration
  <1>12. n \in 0 .. n  BY <1>1
  <1> QED  BY <1>4, <1>5, <1>11, <1>12

-----------------------------------------------------------------------------
(* The invariant of the client. *)

\* What a reducer works on: the store, the requests it makes, what it dropped.
Work == [s : Store, out : Seq(UpRequest), lost : SUBSET Nat]

\* No close has restarted seq.
Fresh == "new stream" \notin untold

\* An event is the one fanned out at its position.
Genuine(e) == e.pos \in DOMAIN log /\ log[e.pos] = e
\* The event at p may carry the text from position from on: no message or turn has
\* ended there.
Spans(L, from, p) == from \in 1 .. p /\ \A q \in from .. p - 1 : L[q].kind \notin Ends
PlacedIn(L) == L \in Seq(Event) /\ \A p \in DOMAIN L : L[p].pos = p /\ Spans(L, L[p].from, p)
Placed == PlacedIn(log)

\* Positions K hold every message and turn that ended up to n, and nothing beyond n.
Holds(K, n) == K \subseteq 1 .. n /\ \A p \in 1 .. n : log[p].kind \in Ends => log[p].from .. p \subseteq K

\* The session's messages hold what has ended, and nothing has ended since.
Stored ==
  /\ Holds(kept, Len(log)) /\ ended \in 0 .. Len(log)
  /\ \A p \in DOMAIN log : p > ended => log[p].kind \notin Ends

\* Within an epoch seq ascends from 1, in the current one, ep, up to h.
CountedIn(L, ep, h) ==
  /\ \A p \in DOMAIN L : L[p].seq >= 1 /\ L[p].epoch <= ep /\ (L[p].epoch = ep => L[p].seq <= h)
  /\ \A p, q \in DOMAIN L : p < q /\ L[p].epoch = L[q].epoch => L[p].seq < L[q].seq
  /\ h > 0 => Len(L) > 0 /\ L[Len(L)].epoch = ep /\ L[Len(L)].seq = h
Numbered == CountedIn(log, epoch, ring.head)

\* A client that has had a snapshot shows every event before its cursor, but for the
\* text of a message that was open when the snapshot was taken.
Exact(s) ==
  s.synced => \A p \in DOMAIN log : log[p].epoch = s.epoch /\ log[p].seq < s.next =>
                p \in s.shown \/ (p \in s.bare /\ log[p].kind \notin Ends)

\* Of a message or turn whose end is on display all is on display.
Whole(S) == \A p \in S : log[p].kind \in Ends => log[p].from .. p \subseteq S
\* The positions of the messages and turns whose ends are among S.
Settled(S) == UNION {log[p].from .. p : p \in {q \in S : log[q].kind \in Ends}}
\* Only text of open messages is lost.
Partial(lost) == \A p \in lost : p \in DOMAIN log /\ log[p].kind \notin Ends
\* A set of positions is a beginning of the stream.
Begins(P) == \A p \in P : 1 .. p \subseteq P

\* The cursor is behind an event among positions P.
Reached(s, P) == s.next > 1 => \E p \in P : log[p].epoch = s.epoch /\ log[p].seq = s.next - 1

\* The view of a client that has been sent nothing beyond positions P.
View(s, lost, P) ==
  /\ s.shown \subseteq P /\ Whole(s.shown) /\ IsFiniteSet(s.held)
  /\ \A h \in s.held : h.pos \in P /\ Genuine(h) /\ h.epoch = s.epoch
  /\ s.synced => s.next # 0
  /\ Fresh => Partial(lost) /\ Exact(s) /\ Reached(s, P)

\* Such views that show at least positions A.
Views(P, A) == {w \in Work : A \subseteq w.s.shown /\ View(w.s, w.lost, P)}

\* The positions a frame can show.
Shows(f, p) ==
  \/ f.t = "event" /\ f.event.pos = p
  \/ f.t = "replay" /\ \E k \in DOMAIN f.events : f.events[k].pos = p
  \/ f.t = "history" /\ p \in 1 .. f.len

\* A snapshot was taken after an event of its stream if and only if its head covers it.
Covers(f) ==
  /\ f.head > 0 => f.len > 0 /\ log[f.len].epoch = f.epoch /\ log[f.len].seq = f.head
  /\ \A p \in DOMAIN log : log[p].epoch = f.epoch => (log[p].seq <= f.head <=> p <= f.len)

\* What a frame says was so when it was sent.
Sound(f) ==
  /\ f.t = "event" => Genuine(f.event)
  /\ f.t = "replay" => \A k \in DOMAIN f.events : Genuine(f.events[k])
  /\ f.t = "history" => f.len <= Len(log) /\ Holds(f.kept, f.len) /\ (Fresh => Covers(f))

\* A snapshot in transit was taken after everything that the frames before it show.
InTransit(d) ==
  /\ \A i \in DOMAIN d : Sound(d[i])
  /\ \A i, j \in DOMAIN d : i < j /\ d[j].t = "history" =>
       \A p \in DOMAIN log : Shows(d[i], p) => p <= d[j].len

\* What a client can show that has yet to receive the frames d.
Known(d) == {p \in DOMAIN log : \A i \in DOMAIN d : d[i].t = "history" => p <= d[i].len}

\* The client's inductive invariant, on top of the node's.
ClientInv ==
  /\ TypeOK /\ NodeInv /\ Placed /\ Stored /\ (Fresh => Numbered)
  /\ InTransit(down) /\ View(c, unseen, Known(down))

-----------------------------------------------------------------------------
(* One event. *)

\* What is on display and held is that of another store.
Matches(t, s) ==
  t.shown = s.shown /\ t.bare = s.bare /\ t.held = s.held /\ t.epoch = s.epoch /\ t.synced = s.synced

\* What showing an event changes.
LEMMA ApplyEffect ==
  ASSUME NEW w \in Work, NEW e \in Event
  PROVE  /\ Apply(w, e) \in Work /\ Apply(w, e).lost = w.lost
         /\ Apply(w, e).s.shown = w.s.shown \union (e.from .. e.pos) /\ Apply(w, e).s.bare = w.s.bare
         /\ Apply(w, e).s.held = w.s.held /\ Apply(w, e).s.next = w.s.next
         /\ Apply(w, e).s.epoch = w.s.epoch /\ Apply(w, e).s.synced = w.s.synced
  <1> DEFINE working == CASE e.kind = "agent_end" -> FALSE [] e.kind = "message_end" -> w.s.working [] OTHER -> TRUE
             fin == CASE e.kind = "start" -> FALSE [] e.kind = "message_end" -> TRUE [] OTHER -> w.s.fin
             more == e.from .. e.pos
             st == [w EXCEPT !.s.shown = @ \union more, !.s.working = working, !.s.fin = fin]
  <1>0. e.pos \in Nat /\ e.from \in Nat  BY DEF Event
  <1>1. w.s \in Store /\ w.out \in Seq(UpRequest) /\ e.kind \in Kind /\ more \in SUBSET Nat  BY <1>0 DEF Work, Event
  <1>2. working \in BOOLEAN /\ fin \in BOOLEAN  BY <1>1 DEF Store, Kind
  <1> HIDE DEF working, fin, more
  <1>3. st = [w EXCEPT !.s = [w.s EXCEPT !.shown = w.s.shown \union more, !.working = working, !.fin = fin]]
    BY DEF Work, Store
  <1>4. /\ st \in Work /\ st.lost = w.lost /\ st.s.shown = w.s.shown \union more /\ st.s.held = w.s.held
        /\ st.s.bare = w.s.bare /\ st.s.next = w.s.next /\ st.s.epoch = w.s.epoch /\ st.s.synced = w.s.synced
    BY <1>1, <1>2, <1>3 DEF Work, Store
  <1>5. Apply(w, e) = IF e.kind = "agent_end" THEN DrainDeferredHistory(st) ELSE st
    BY DEF Apply, working, fin, more
  <1> HIDE DEF st
  <1>6. /\ DrainDeferredHistory(st) \in Work /\ DrainDeferredHistory(st).lost = st.lost
        /\ DrainDeferredHistory(st).s = [st.s EXCEPT !.deferred = {}]
    <2>1. st.s \in Store /\ st.out \in Seq(UpRequest) /\ st.s.have \in Nat  BY <1>4 DEF Work, Store
    <2>2. HistoryRequest(st.s.have) \in UpRequest  BY <2>1 DEF HistoryRequest, UpRequest
    <2>3. Append(st.out, HistoryRequest(st.s.have)) \in Seq(UpRequest)  BY <2>1, <2>2, AppendProperties
    <2> DEFINE out == IF st.s.deferred = {} THEN st.out ELSE Append(st.out, HistoryRequest(st.s.have))
    <2>4. out \in Seq(UpRequest)  BY <2>1, <2>3
    <2>5. DrainDeferredHistory(st) = [st EXCEPT !.s = [st.s EXCEPT !.deferred = {}], !.out = out]
      BY <1>4 DEF DrainDeferredHistory, Work, Store
    <2> HIDE DEF out
    <2>6. [st.s EXCEPT !.deferred = {}] \in Store  BY <2>1 DEF Store
    <2> QED  BY <2>4, <2>5, <2>6, <1>4 DEF Work
  <1>7. LET d == [st.s EXCEPT !.deferred = {}]
        IN /\ d.shown = st.s.shown /\ d.bare = st.s.bare /\ d.held = st.s.held /\ d.next = st.s.next
           /\ d.epoch = st.s.epoch /\ d.synced = st.s.synced
    BY <1>4 DEF Work, Store
  <1> QED  BY <1>4, <1>5, <1>6, <1>7 DEF more

\* The next event, or the first one: shown, with the cursor behind it.
LEMMA DeliverStays ==
  ASSUME Placed, Fresh => Numbered, NEW P \in SUBSET (DOMAIN log), Begins(P), NEW A,
         NEW w \in Views(P, A), NEW e \in Event, Genuine(e), e.pos \in P, e.epoch = w.s.epoch, w.s.next \in {0, e.seq}
  PROVE  Deliver(w, e) \in Views(P, A) /\ Deliver(w, e).s.held = w.s.held
  <1> DEFINE v == [w EXCEPT !.s.next = e.seq + 1]
             x == Deliver(w, e)
  <1>1. w \in Work /\ A \subseteq w.s.shown /\ View(w.s, w.lost, P)  BY DEF Views
  <1>2. e.seq \in Nat /\ e.pos \in Nat  BY DEF Event
  <1>3. /\ v \in Work /\ v.lost = w.lost /\ v.s.shown = w.s.shown /\ v.s.held = w.s.held /\ v.s.bare = w.s.bare
        /\ v.s.next = e.seq + 1 /\ v.s.epoch = w.s.epoch /\ v.s.synced = w.s.synced
    <2> DEFINE t == [w.s EXCEPT !.next = e.seq + 1]
    <2>1. v = [w EXCEPT !.s = t] /\ w.s \in Store  BY <1>1 DEF Work, Store
    <2>2. t \in Store /\ t.next = e.seq + 1 /\ Matches(t, w.s)  BY <1>2, <2>1 DEF Store, Matches
    <2> HIDE DEF t
    <2>3. v \in Work /\ v.lost = w.lost /\ v.s = t  BY <1>1, <2>1, <2>2 DEF Work
    <2> QED  BY <2>2, <2>3 DEF Matches
  <1>4. x = Apply(v, e)  BY DEF Deliver
  <1> HIDE DEF v, x
  <1>5. /\ x \in Work /\ x.lost = w.lost /\ x.s.shown = w.s.shown \union (e.from .. e.pos)
        /\ x.s.held = w.s.held /\ x.s.bare = w.s.bare /\ x.s.next = e.seq + 1 /\ x.s.epoch = w.s.epoch /\ x.s.synced = w.s.synced
    BY <1>3, <1>4, ApplyEffect
  <1>s. e.from \in 1 .. e.pos /\ e.pos \in DOMAIN log /\ log[e.pos] = e /\ \A q \in e.from .. e.pos - 1 : log[q].kind \notin Ends
    BY DEF Genuine, Placed, PlacedIn, Spans
  <1>w. Whole(x.s.shown)
    <2> SUFFICES ASSUME NEW p \in x.s.shown, log[p].kind \in Ends PROVE log[p].from .. p \subseteq x.s.shown
      BY DEF Whole
    <2>1. CASE p \in w.s.shown  BY <1>1, <1>5, <2>1 DEF View, Whole
    <2>2. CASE p = e.pos  BY <1>5, <1>s, <2>2
    <2>3. CASE p \in e.from .. e.pos /\ p # e.pos
      <3>1. p \in e.from .. e.pos - 1  BY <1>2, <1>s, <2>3
      <3> QED  BY <1>s, <3>1
    <2> QED  BY <1>5, <2>1, <2>2, <2>3
  <1>p. x.s.shown \subseteq P
    <2>1. e.from .. e.pos \subseteq 1 .. e.pos  BY <1>s
    <2>2. 1 .. e.pos \subseteq P  BY DEF Begins
    <2> QED  BY <1>1, <1>5, <2>1, <2>2 DEF View
  <1>6. Fresh => Exact(x.s)
    <2> SUFFICES ASSUME Fresh, x.s.synced, NEW p \in DOMAIN log, log[p].epoch = w.s.epoch, log[p].seq < e.seq + 1
                 PROVE  \/ p \in w.s.shown \union (e.from .. e.pos)
                        \/ p \in w.s.bare /\ log[p].kind \notin Ends
      BY <1>5 DEF Exact
    <2>1. w.s.synced /\ w.s.next = e.seq /\ Exact(w.s)  BY <1>1, <1>5 DEF View
    <2>2. log[p].seq \in Nat
      <3>1. log[p] \in Event  BY LenProperties, ElementOfSeq DEF Placed, PlacedIn
      <3> QED  BY <3>1 DEF Event
    <2>3. CASE log[p].seq < e.seq  BY <2>1, <2>3 DEF Exact
    <2>4. CASE log[p].seq = e.seq
      <3>1. e.pos \in DOMAIN log /\ log[e.pos] = e  BY DEF Genuine
      <3>2. p \in Nat  BY LenProperties DEF Placed, PlacedIn
      <3>3. ~(p < e.pos) /\ ~(e.pos < p)  BY <2>2, <2>4, <3>1, <1>2 DEF Numbered, CountedIn
      <3>4. p = e.pos  BY <3>2, <3>3, <1>2
      <3>5. e.pos \in e.from .. e.pos  BY <1>2, <1>s
      <3> QED  BY <3>4, <3>5
    <2> QED  BY <2>2, <2>3, <2>4, <1>2
  <1>7. Reached(x.s, P)
    <2>1. x.s.next - 1 = e.seq  BY <1>2, <1>5
    <2> QED  BY <2>1, <1>5 DEF Reached, Genuine
  <1>8. View(x.s, x.lost, P)
    <2>1. e.seq + 1 # 0  BY <1>2
    <2> QED  BY <1>1, <1>5, <1>6, <1>7, <1>w, <1>p, <2>1 DEF View
  <1> QED  BY <1>1, <1>5, <1>8 DEF Views, x

\* A held event the cursor has come to is shown in its turn.
LEMMA DeliverHeldStays ==
  ASSUME Placed, Fresh => Numbered, NEW P \in SUBSET (DOMAIN log), Begins(P), NEW A,
         NEW w \in Views(P, A)
  PROVE  DeliverHeld(w) \in Views(P, A)
  <1>1. CASE NextHeld(w.s) = {}  BY <1>1 DEF DeliverHeld
  <1>2. CASE NextHeld(w.s) # {}
    <2> DEFINE h == CHOOSE h \in NextHeld(w.s) : TRUE
               t == [w.s EXCEPT !.held = w.s.held \ {h}]
               v == [w EXCEPT !.s = t]
    <2>1. h \in w.s.held /\ h.seq = w.s.next
      <3>1. h \in NextHeld(w.s)  BY <1>2
      <3> HIDE DEF h
      <3> QED  BY <3>1 DEF NextHeld
    <2>2. DeliverHeld(w) = Deliver(v, h)
      <3>1. [w EXCEPT !.s.held = w.s.held \ {h}] = v  BY DEF Views, Work, Store
      <3> QED  BY <1>2, <3>1 DEF DeliverHeld
    <2> HIDE DEF h
    <2>3. w \in Work /\ w.s \in Store /\ A \subseteq w.s.shown /\ View(w.s, w.lost, P)  BY DEF Views, Work
    <2>4. h \in Event /\ Genuine(h) /\ h.pos \in P /\ h.epoch = w.s.epoch  BY <2>1, <2>3 DEF View, Store
    <2>5. /\ t \in Store /\ t.held = w.s.held \ {h} /\ t.shown = w.s.shown /\ t.epoch = w.s.epoch
          /\ t.next = w.s.next /\ t.synced = w.s.synced /\ t.bare = w.s.bare
      BY <2>3 DEF Store
    <2> HIDE DEF t
    <2>6. v \in Work /\ v.s = t /\ v.lost = w.lost  BY <2>3, <2>5 DEF Work
    <2> HIDE DEF v
    <2>7. IsFiniteSet(t.held)  BY <2>3, <2>5, FS_Subset DEF View
    <2>8. View(t, w.lost, P)  BY <2>3, <2>5, <2>7 DEF View, Exact, Reached
    <2>9. v \in Views(P, A)  BY <2>3, <2>5, <2>6, <2>8 DEF Views
    <2>10. h.epoch = v.s.epoch /\ v.s.next \in {0, h.seq}  BY <2>1, <2>4, <2>5, <2>6
    <2>11. Deliver(v, h) \in Views(P, A)  BY <2>4, <2>9, <2>10, DeliverStays
    <2> QED  BY <2>2, <2>11
  <1> QED  BY <1>1, <1>2

\* So is the next event, with all that it releases.
LEMMA NextStays ==
  ASSUME Placed, Fresh => Numbered, NEW P \in SUBSET (DOMAIN log), Begins(P), NEW A,
         NEW w \in Views(P, A), NEW e \in Event, Genuine(e), e.pos \in P, e.epoch = w.s.epoch, w.s.next \in {0, e.seq}
  PROVE  InOrder(w, e) \in Views(P, A)
  <1>1. Deliver(w, e) \in Views(P, A) /\ Deliver(w, e).s.held = w.s.held  BY DeliverStays
  <1>2. IsFiniteSet(Deliver(w, e).s.held)  BY <1>1 DEF Views, View
  <1>3. \A v \in Views(P, A) : DeliverHeld(v) \in Views(P, A)  BY DeliverHeldStays
  <1> QED  BY <1>1, <1>2, <1>3, InOrderStays

\* An end behind the cursor has been shown: dropping it loses nothing.
LEMMA DuplicateStays ==
  ASSUME Placed, NEW P \in SUBSET (DOMAIN log), NEW A, NEW w \in Views(P, A),
         NEW e \in Event, Genuine(e), e.epoch = w.s.epoch, e.seq < w.s.next
  PROVE  Duplicate(w, e) \in Views(P, A)
  <1> DEFINE lost == w.lost \union (IF w.s.synced THEN {e.pos} \ w.s.shown ELSE {})
             v == [w EXCEPT !.lost = lost]
  <1>1. w \in Work /\ A \subseteq w.s.shown /\ View(w.s, w.lost, P)  BY DEF Views
  <1>2. Duplicate(w, e) = v  BY <1>1 DEF Duplicate, Work
  <1>3. lost \in SUBSET Nat  BY <1>1 DEF Work, Event
  <1>4. Fresh => Partial(lost)
    <2> SUFFICES ASSUME Fresh, w.s.synced, e.pos \notin w.s.shown PROVE e.pos \in DOMAIN log /\ log[e.pos].kind \notin Ends
      BY <1>1 DEF View, Partial
    <2>1. Exact(w.s)  BY <1>1 DEF View
    <2> QED  BY <2>1 DEF Exact, Genuine
  <1> HIDE DEF lost
  <1>5. v \in Work /\ v.s = w.s /\ v.lost = lost  BY <1>1, <1>3 DEF Work
  <1> HIDE DEF v
  <1>6. View(w.s, lost, P)  BY <1>1, <1>4 DEF View
  <1> QED  BY <1>1, <1>2, <1>5, <1>6 DEF Views

\* An event beyond a gap is held.
LEMMA BeyondGapStays ==
  ASSUME NEW P, NEW A, NEW w \in Views(P, A), NEW e \in Event, Genuine(e), e.pos \in P,
         e.epoch = w.s.epoch, w.s.next # 0
  PROVE  BeyondGap(w, e) \in Views(P, A)
  <1> DEFINE held == {h \in w.s.held : h.seq # e.seq} \union {e}
             request == IF Cardinality(held) > MaxHeld THEN HistoryRequest(w.s.have)
                        ELSE ReplayRequest(w.s.next - 1)
             out == Append(w.out, request)
             t == [w.s EXCEPT !.held = held]
             v == [w EXCEPT !.s = t, !.out = out]
  <1>1. w \in Work /\ w.s \in Store /\ A \subseteq w.s.shown /\ View(w.s, w.lost, P)  BY DEF Views, Work
  <1>2. BeyondGap(w, e) = v  BY <1>1 DEF BeyondGap, Work, Store
  <1>3. held \in SUBSET Event /\ IsFiniteSet(held) /\ \A h \in held : h.pos \in P /\ Genuine(h) /\ h.epoch = w.s.epoch
    <2>1. IsFiniteSet({h \in w.s.held : h.seq # e.seq})  BY <1>1, FS_Subset DEF View
    <2>2. IsFiniteSet(held)  BY <2>1, FS_AddElement
    <2> QED  BY <1>1, <2>2 DEF View, Store
  <1>4. request \in UpRequest
    <2>1. w.s.have \in Nat /\ w.s.next \in Nat /\ w.s.next - 1 \in Nat  BY <1>1 DEF Store
    <2> QED  BY <2>1 DEF HistoryRequest, ReplayRequest, UpRequest
  <1> HIDE DEF request, held
  <1>5. out \in Seq(UpRequest)  BY <1>1, <1>4, AppendProperties DEF Work
  <1>6. /\ t \in Store /\ t.held = held /\ t.shown = w.s.shown /\ t.epoch = w.s.epoch
        /\ t.next = w.s.next /\ t.synced = w.s.synced /\ t.bare = w.s.bare
    BY <1>1, <1>3 DEF Store
  <1> HIDE DEF out, t
  <1>7. v \in Work /\ v.s = t /\ v.lost = w.lost  BY <1>1, <1>5, <1>6 DEF Work
  <1> HIDE DEF v
  <1>8. View(t, w.lost, P)  BY <1>1, <1>3, <1>6 DEF View, Exact, Reached
  <1> QED  BY <1>1, <1>2, <1>6, <1>7, <1>8 DEF Views

\* The store of a client that tracks the stream of epoch ep.
LEMMA TrackedView ==
  ASSUME NEW s \in Store, NEW lost, NEW P, View(s, lost, P), NEW ep \in Nat
  PROVE  /\ Tracked(s, ep) \in Store /\ Tracked(s, ep).epoch = ep /\ View(Tracked(s, ep), lost, P)
         /\ Tracked(s, ep).shown = s.shown /\ Tracked(s, ep).have = s.have
  <1>1. CASE s.epoch = ep  BY <1>1 DEF Tracked
  <1>2. CASE s.epoch # ep
    <2> DEFINE t == [s EXCEPT !.epoch = ep, !.next = 0, !.held = {}, !.synced = FALSE]
    <2>1. /\ t \in Store /\ t.epoch = ep /\ t.shown = s.shown /\ t.held = {} /\ t.next = 0 /\ t.synced = FALSE
          /\ t.have = s.have
      BY DEF Store
    <2>2. Tracked(s, ep) = t  BY <1>2 DEF Tracked
    <2> HIDE DEF t
    <2>3. IsFiniteSet(t.held)  BY <2>1, FS_EmptySet
    <2>4. View(t, lost, P)  BY <2>1, <2>3 DEF View, Exact, Reached
    <2> QED  BY <2>1, <2>2, <2>4
  <1> QED  BY <1>1, <1>2

\* Whatever genuine event arrives, in whatever order: the view stays exact.
LEMMA AcceptStays ==
  ASSUME Placed, Fresh => Numbered, NEW P \in SUBSET (DOMAIN log), Begins(P), NEW A,
         NEW w \in Views(P, A), NEW e \in Event, Genuine(e), e.pos \in P
  PROVE  Accept(w, e) \in Views(P, A)
  <1> DEFINE t == Tracked(w.s, e.epoch)
             v == [w EXCEPT !.s = t]
  <1>1. w \in Work /\ w.s \in Store /\ A \subseteq w.s.shown /\ View(w.s, w.lost, P)  BY DEF Views, Work
  <1>2. e.epoch \in Nat /\ e.seq \in Nat  BY DEF Event
  <1>3. t \in Store /\ t.epoch = e.epoch /\ View(t, w.lost, P) /\ t.shown = w.s.shown
    BY <1>1, <1>2, TrackedView
  <1>4. Accept(w, e) = IF v.s.next \in {0, e.seq} THEN InOrder(v, e)
                       ELSE IF e.seq < v.s.next THEN Duplicate(v, e) ELSE BeyondGap(v, e)
    BY DEF Accept
  <1> HIDE DEF t
  <1>5. v \in Work /\ v.s = t /\ v.lost = w.lost  BY <1>1, <1>3 DEF Work
  <1> HIDE DEF v
  <1>6. v \in Views(P, A) /\ e.epoch = v.s.epoch /\ v.s.next \in Nat  BY <1>1, <1>3, <1>5 DEF Views, Store
  <1>7. ASSUME v.s.next \in {0, e.seq}  PROVE Accept(w, e) \in Views(P, A)
    <2>1. InOrder(v, e) \in Views(P, A)  BY <1>6, <1>7, NextStays
    <2> QED  BY <1>4, <1>7, <2>1
  <1>8. ASSUME ~(v.s.next \in {0, e.seq}), e.seq < v.s.next  PROVE Accept(w, e) \in Views(P, A)
    <2>1. Duplicate(v, e) \in Views(P, A)  BY <1>6, <1>8, DuplicateStays
    <2> QED  BY <1>4, <1>8, <2>1
  <1>9. ASSUME ~(v.s.next \in {0, e.seq}), ~(e.seq < v.s.next)  PROVE Accept(w, e) \in Views(P, A)
    <2>1. BeyondGap(v, e) \in Views(P, A)  BY <1>6, <1>9, BeyondGapStays
    <2> QED  BY <1>4, <1>9, <2>1
  <1> QED  BY <1>7, <1>8, <1>9

-----------------------------------------------------------------------------
(* One frame. *)

\* A store with the same events on display and held, and the same cursor, is in
\* order among more positions too.
LEMMA SameView ==
  ASSUME NEW s, NEW t, NEW lost, NEW P, NEW Q, View(s, lost, P), Matches(t, s), t.next = s.next, P \subseteq Q
  PROVE  View(t, lost, Q)
  <1>1. Fresh => Exact(t)  BY DEF View, Matches, Exact
  <1>2. Fresh => Reached(t, Q)  BY DEF View, Matches, Reached
  <1> QED  BY <1>1, <1>2 DEF View, Matches

\* What remains in transit after the first frame leaves more to be known, all
\* that the frame shows included.
LEMMA KnownGrows ==
  ASSUME Placed, NEW d \in Seq(Frame), d # <<>>, InTransit(d)
  PROVE  /\ Sound(Head(d)) /\ Head(d) \in Frame /\ Tail(d) \in Seq(Frame) /\ InTransit(Tail(d))
         /\ Known(d) \subseteq Known(Tail(d)) /\ Known(Tail(d)) \subseteq DOMAIN log /\ Begins(Known(Tail(d)))
         /\ \A p \in DOMAIN log : Shows(Head(d), p) => p \in Known(Tail(d))
         /\ Head(d).t = "history" => \A p \in Known(d) : p <= Head(d).len
  <1> DEFINE n == Len(d)
             z == Tail(d)
  <1>1. /\ n \in Nat /\ n >= 1 /\ DOMAIN d = 1 .. n /\ Head(d) = d[1] /\ z \in Seq(Frame)
        /\ DOMAIN z = 1 .. n - 1 /\ \A i \in 1 .. n - 1 : z[i] = d[i + 1]
    <2>1. n \in Nat /\ n # 0 /\ DOMAIN d = 1 .. n  BY LenProperties, EmptySeq
    <2>2. Head(d) = d[1] /\ z \in Seq(Frame) /\ Len(z) = n - 1 /\ \A i \in 1 .. n - 1 : z[i] = d[i + 1]
      BY HeadTailProperties
    <2>3. DOMAIN z = 1 .. n - 1  BY <2>2, LenProperties
    <2> HIDE DEF n
    <2> QED  BY <2>1, <2>2, <2>3
  <1> HIDE DEF n, z
  <1>2. 1 \in DOMAIN d /\ \A i \in DOMAIN z : i + 1 \in DOMAIN d /\ z[i] = d[i + 1] /\ 1 < i + 1  BY <1>1
  <1>3. Sound(Head(d)) /\ Head(d) \in Frame  BY <1>1, <1>2, ElementOfSeq DEF InTransit
  <1>4. InTransit(z)
    <2>1. \A i \in DOMAIN z : Sound(z[i])  BY <1>2 DEF InTransit
    <2>2. ASSUME NEW i \in DOMAIN z, NEW j \in DOMAIN z, i < j, z[j].t = "history",
                 NEW p \in DOMAIN log, Shows(z[i], p)
          PROVE  p <= z[j].len
      <3>1. i + 1 \in DOMAIN d /\ j + 1 \in DOMAIN d /\ i + 1 < j + 1  BY <1>1, <2>2
      <3> QED  BY <1>2, <2>2, <3>1 DEF InTransit
    <2> QED  BY <2>1, <2>2 DEF InTransit
  <1>5. Known(d) \subseteq Known(z) /\ Known(z) \subseteq DOMAIN log
    <2> SUFFICES ASSUME NEW p \in Known(d), NEW i \in DOMAIN z, z[i].t = "history" PROVE p <= z[i].len
      BY DEF Known
    <2> QED  BY <1>2 DEF Known
  <1>6. ASSUME NEW p \in DOMAIN log, Shows(Head(d), p) PROVE p \in Known(z)
    <2> SUFFICES ASSUME NEW i \in DOMAIN z, z[i].t = "history" PROVE p <= z[i].len  BY DEF Known
    <2>1. Shows(d[1], p) /\ 1 \in DOMAIN d /\ i + 1 \in DOMAIN d /\ 1 < i + 1 /\ d[i + 1].t = "history"
      BY <1>1, <1>2, <1>6
    <2>2. p <= d[i + 1].len  BY <2>1 DEF InTransit
    <2> QED  BY <1>2, <2>2
  <1>7. Head(d).t = "history" => \A p \in Known(d) : p <= Head(d).len  BY <1>1, <1>2 DEF Known
  <1>8. Begins(Known(z))
    <2> SUFFICES ASSUME NEW p \in Known(z), NEW q \in 1 .. p PROVE q \in Known(z)  BY DEF Begins
    <2>1. DOMAIN log = 1 .. Len(log) /\ Len(log) \in Nat  BY LenProperties DEF Placed, PlacedIn
    <2>2. p \in DOMAIN log /\ q \in DOMAIN log /\ q <= p  BY <2>1 DEF Known
    <2>3. ASSUME NEW i \in DOMAIN z, z[i].t = "history" PROVE q <= z[i].len
      <3>1. p <= z[i].len  BY <2>3 DEF Known
      <3>2. z[i] \in Frame  BY <1>1, <2>3, ElementOfSeq
      <3>3. z[i].len \in Nat  BY <2>3, <3>2 DEF Frame
      <3> QED  BY <2>1, <2>2, <3>1, <3>3
    <2> QED  BY <2>2, <2>3 DEF Known
  <1> QED  BY <1>1, <1>3, <1>4, <1>5, <1>6, <1>7, <1>8 DEF z

\* A snapshot shows every message and turn on display that has ended, and every one
\* before its head, which is where the cursor moves to.
LEMMA ApplyHistoryStays ==
  ASSUME Placed, Fresh => Numbered, NEW P \in SUBSET (DOMAIN log), NEW Q \in SUBSET (DOMAIN log), P \subseteq Q,
         NEW w \in Work, View(w.s, w.lost, P),
         NEW f \in Frame, f.t = "history", Sound(f), \A p \in P : p <= f.len, 1 .. f.len \subseteq Q
  PROVE  ApplyHistory(w, f) \in Views(Q, Settled(w.s.shown))
  <1>1. w.s \in Store /\ w.out \in Seq(UpRequest) /\ w.lost \in SUBSET Nat  BY DEF Work
  <1>2. /\ f.base \in Nat /\ f.len \in Nat /\ f.head \in Nat /\ f.epoch \in Nat /\ f.busy \in BOOLEAN
        /\ f.count \in Nat /\ f.kept \in SUBSET Nat /\ f.len <= Len(log) /\ Holds(f.kept, f.len)
    BY DEF Frame, Sound
  <1>w. Settled(w.s.shown) \subseteq w.s.shown  BY DEF View, Whole, Settled
  <1>l. /\ DOMAIN log = 1 .. Len(log) /\ Len(log) \in Nat
        /\ \A p \in DOMAIN log : p \in Nat /\ p >= 1 /\ log[p].seq \in Nat /\ log[p].from \in 1 .. p
    <2>1. DOMAIN log = 1 .. Len(log) /\ Len(log) \in Nat /\ \A p \in DOMAIN log : log[p] \in Event
      BY LenProperties, ElementOfSeq DEF Placed, PlacedIn
    <2> QED  BY <2>1 DEF Placed, PlacedIn, Spans, Event
  <1>3. CASE f.base # 0 /\ f.base # w.s.have
    <2> DEFINE t == [w.s EXCEPT !.have = 0]
               out == Append(w.out, HistoryRequest(0))
               v == [w EXCEPT !.s = t, !.out = out]
    <2>1. ApplyHistory(w, f) = v  BY <1>1, <1>3 DEF ApplyHistory, Work, Store
    <2>2. t \in Store /\ Matches(t, w.s) /\ t.next = w.s.next  BY <1>1 DEF Store, Matches
    <2>3. out \in Seq(UpRequest)
      <3>1. HistoryRequest(0) \in UpRequest  BY DEF HistoryRequest, UpRequest
      <3> QED  BY <1>1, <3>1, AppendProperties
    <2> HIDE DEF t, out
    <2>4. v \in Work /\ v.s = t /\ v.lost = w.lost  BY <1>1, <2>2, <2>3 DEF Work
    <2>5. View(t, w.lost, Q)  BY <2>2, SameView
    <2> QED  BY <1>w, <2>1, <2>2, <2>4, <2>5 DEF Views, Matches
  <1>4. CASE ~(f.base # 0 /\ f.base # w.s.have)
    <2> DEFINE s0 == Tracked(w.s, f.epoch)
               next == IF f.head + 1 > s0.next THEN f.head + 1 ELSE s0.next
               held == {e \in s0.held : e.seq >= next}
               s1 == Baselined(s0, f.head)
               bare == (1 .. f.len) \ f.kept
               t == [s1 EXCEPT !.shown = f.kept, !.bare = bare, !.have = f.count, !.fin = TRUE,
                               !.working = f.busy, !.deferred = {}, !.opening = FALSE, !.synced = TRUE]
               v == [w EXCEPT !.s = t]
    <2>1. s0 \in Store /\ s0.epoch = f.epoch /\ View(s0, w.lost, P) /\ s0.shown = w.s.shown
      BY <1>1, <1>2, TrackedView
    <2>2. ApplyHistory(w, f) = v  BY <1>4 DEF ApplyHistory
    <2>3. s1 = [s0 EXCEPT !.next = next, !.held = held]  BY <2>1 DEF Baselined, Store
    <2> HIDE DEF s0, s1
    <2>4. next \in Nat /\ held \in SUBSET Event /\ held \subseteq s0.held /\ next > f.head
          /\ (next = f.head + 1 \/ (next = s0.next /\ next > f.head + 1))
      BY <1>2, <2>1 DEF Store
    <2> HIDE DEF next, held
    <2>5. s1 \in Store /\ s1.next = next /\ s1.held = held /\ s1.epoch = f.epoch  BY <2>1, <2>3, <2>4 DEF Store
    <2>6. bare \in SUBSET Nat  BY <1>2
    <2> HIDE DEF bare
    <2>7. /\ t \in Store /\ t.next = next /\ t.held = held /\ t.epoch = f.epoch /\ t.shown = f.kept
          /\ t.bare = bare /\ t.synced = TRUE
      BY <1>2, <2>5, <2>6 DEF Store
    <2> HIDE DEF t
    <2>8. v \in Work /\ v.s = t /\ v.lost = w.lost  BY <2>7 DEF Work
    <2> HIDE DEF v
    <2>9. Settled(w.s.shown) \subseteq f.kept
      <3> SUFFICES ASSUME NEW p \in w.s.shown, log[p].kind \in Ends PROVE log[p].from .. p \subseteq f.kept
        BY DEF Settled
      <3>1. p \in DOMAIN log /\ p <= f.len  BY DEF View
      <3>2. p \in 1 .. f.len  BY <3>1, <1>2, <1>l
      <3> QED  BY <3>2, <1>2 DEF Holds
    <2>a. f.kept \subseteq Q /\ Whole(f.kept)  BY <1>2 DEF Holds, Whole
    <2>10. IsFiniteSet(held) /\ \A h \in held : h.pos \in Q /\ Genuine(h) /\ h.epoch = f.epoch
      BY <2>1, <2>4, FS_Subset DEF View
    <2>11. next # 0  BY <1>2, <2>4
    <2>12. CASE ~Fresh  BY <2>2, <2>7, <2>8, <2>9, <2>a, <2>10, <2>11, <2>12 DEF Views, View
    <2>13. CASE Fresh
      <3>1. Covers(f) /\ Numbered /\ Partial(w.lost) /\ Reached(s0, P)  BY <2>1, <2>13 DEF Sound, View
      <3>3. next = f.head + 1
        <4> SUFFICES ASSUME next = s0.next, next > f.head + 1 PROVE FALSE  BY <2>4
        <4>1. PICK p \in P : log[p].epoch = f.epoch /\ log[p].seq = next - 1
          BY <1>2, <2>1, <2>4, <3>1 DEF Reached
        <4>2. p \in DOMAIN log /\ p <= f.len  OBVIOUS
        <4>3. log[p].seq <= f.head  BY <4>1, <4>2, <3>1 DEF Covers
        <4> QED  BY <4>1, <4>3, <1>2, <2>4
      <3>4. Exact(t)
        <4> SUFFICES ASSUME NEW p \in DOMAIN log, log[p].epoch = f.epoch, log[p].seq < next
                     PROVE  p \in f.kept \/ (p \in bare /\ log[p].kind \notin Ends)
          BY <2>7 DEF Exact
        <4>1. log[p].seq <= f.head  BY <1>2, <1>l, <3>3
        <4>2. p <= f.len  BY <3>1, <4>1 DEF Covers
        <4>3. p \in 1 .. f.len /\ p \in log[p].from .. p  BY <1>2, <1>l, <4>2
        <4>4. log[p].kind \in Ends => p \in f.kept  BY <1>2, <4>3 DEF Holds
        <4> QED  BY <4>3, <4>4 DEF bare
      <3>5. Reached(t, Q)
        <4> SUFFICES ASSUME next > 1 PROVE \E p \in Q : log[p].epoch = f.epoch /\ log[p].seq = next - 1
          BY <2>7 DEF Reached
        <4>1. f.head > 0 /\ next - 1 = f.head  BY <1>2, <3>3
        <4>2. f.len > 0 /\ log[f.len].epoch = f.epoch /\ log[f.len].seq = f.head  BY <3>1, <4>1 DEF Covers
        <4>3. f.len \in Q  BY <1>2, <4>2
        <4> QED  BY <4>1, <4>2, <4>3
      <3>6. View(t, w.lost, Q)  BY <2>7, <2>a, <2>10, <2>11, <3>1, <3>4, <3>5 DEF View
      <3> QED  BY <2>2, <2>7, <2>8, <2>9, <3>6 DEF Views
    <2> QED  BY <2>12, <2>13
  <1> QED  BY <1>3, <1>4

\* What a frame does to the store, by its kind.
LEMMA ReduceCases ==
  ASSUME NEW w, NEW f
  PROVE  /\ f.t = "event" => Reduce(w, f) = Accept(w, f.event)
         /\ f.t = "replay" /\ f.reset => Reduce(w, f) = [w EXCEPT !.out = Append(@, HistoryRequest(w.s.have))]
         /\ f.t = "replay" /\ ~f.reset => Reduce(w, f) = AcceptAll(w, f.events)
         /\ f.t = "history" => Reduce(w, f) = ReceiveHistory(w, f)
         /\ f.t = "state" => Reduce(w, f) = [w EXCEPT !.s.working = f.busy]
         /\ f.t = "closed" => Reduce(w, f) = [w EXCEPT !.s.working = FALSE]
         /\ f.t = "offline" => Reduce(w, f) = [w EXCEPT !.s = Interrupted(@)]
         /\ f.t = "online" => Reduce(w, f) = IF w.s.online THEN w
                                ELSE [w EXCEPT !.s.online = TRUE, !.out = Append(@, HistoryRequest(w.s.have))]
  <1> DEFINE x1 == Accept(w, f.event)
             x2 == [w EXCEPT !.out = Append(@, HistoryRequest(w.s.have))]
             x3 == AcceptAll(w, f.events)
             x4 == ReceiveHistory(w, f)
             x5 == [w EXCEPT !.s.working = f.busy]
             x6 == [w EXCEPT !.s.working = FALSE]
             x7 == [w EXCEPT !.s = Interrupted(@)]
             x8 == IF w.s.online THEN w
                   ELSE [w EXCEPT !.s.online = TRUE, !.out = Append(@, HistoryRequest(w.s.have))]
  <1>1. Reduce(w, f) =
          CASE f.t = "event" -> x1 [] f.t = "replay" /\ f.reset -> x2 [] f.t = "replay" /\ ~f.reset -> x3
            [] f.t = "history" -> x4 [] f.t = "state" -> x5 [] f.t = "closed" -> x6
            [] f.t = "offline" -> x7 [] f.t = "online" -> x8
    BY DEF Reduce
  <1> HIDE DEF x1, x2, x3, x4, x5, x6, x7, x8
  <1>2. /\ f.t = "event" => Reduce(w, f) = x1
        /\ f.t = "replay" /\ f.reset => Reduce(w, f) = x2
        /\ f.t = "replay" /\ ~f.reset => Reduce(w, f) = x3
        /\ f.t = "history" => Reduce(w, f) = x4
        /\ f.t = "state" => Reduce(w, f) = x5
        /\ f.t = "closed" => Reduce(w, f) = x6
        /\ f.t = "offline" => Reduce(w, f) = x7
        /\ f.t = "online" => Reduce(w, f) = x8
    BY <1>1
  <1> QED  BY <1>2 DEF x1, x2, x3, x4, x5, x6, x7, x8

\* A reducer that keeps the events on display and held, and the cursor, keeps the
\* view, whatever it asks for.
LEMMA PlainStays ==
  ASSUME NEW P, NEW Q, P \subseteq Q, NEW w \in Work, View(w.s, w.lost, P),
         NEW t \in Store, Matches(t, w.s), t.next = w.s.next, NEW out \in Seq(UpRequest)
  PROVE  [w EXCEPT !.s = t, !.out = out] \in Views(Q, Settled(w.s.shown))
  <1> DEFINE v == [w EXCEPT !.s = t, !.out = out]
  <1>1. v \in Work /\ v.s = t /\ v.lost = w.lost  BY DEF Work
  <1> HIDE DEF v
  <1>2. View(t, w.lost, Q)  BY SameView
  <1>3. v \in Views(Q, Settled(w.s.shown))
    <2>1. Settled(w.s.shown) \subseteq w.s.shown  BY DEF View, Whole, Settled
    <2> QED  BY <1>1, <1>2, <2>1 DEF Views, Matches
  <1> QED  BY <1>3 DEF v

\* Receiving any frame in transit keeps the client's view, and takes nothing back
\* that has ended.
LEMMA ReduceStays ==
  ASSUME Placed, Fresh => Numbered, NEW d \in Seq(Frame), d # <<>>, InTransit(d),
         NEW w \in Work, View(w.s, w.lost, Known(d))
  PROVE  Reduce(w, Head(d)) \in Views(Known(Tail(d)), Settled(w.s.shown))
  <1> DEFINE f == Head(d)
             P == Known(d)
             Q == Known(Tail(d))
  <1>1. /\ Sound(f) /\ f \in Frame /\ P \subseteq Q /\ Q \subseteq DOMAIN log /\ Begins(Q)
        /\ \A p \in DOMAIN log : Shows(f, p) => p \in Q
        /\ f.t = "history" => \A p \in P : p <= f.len
    BY KnownGrows
  <1>2. View(w.s, w.lost, P)  OBVIOUS
  <1> HIDE DEF f, P, Q
  <1>3. w.s \in Store /\ w.out \in Seq(UpRequest) /\ w.s.have \in Nat  BY DEF Work, Store
  <1>4. Append(w.out, HistoryRequest(w.s.have)) \in Seq(UpRequest)
    <2>1. HistoryRequest(w.s.have) \in UpRequest  BY <1>3 DEF HistoryRequest, UpRequest
    <2> QED  BY <1>3, <2>1, AppendProperties
  <1>5. w \in Views(Q, Settled(w.s.shown))
    <2>1. Matches(w.s, w.s)  BY DEF Matches
    <2>2. View(w.s, w.lost, Q)  BY <1>1, <1>2, <2>1, SameView
    <2>3. Settled(w.s.shown) \subseteq w.s.shown  BY DEF View, Whole, Settled
    <2> QED  BY <2>2, <2>3 DEF Views
  <1>6. ASSUME NEW t \in Store, Matches(t, w.s), t.next = w.s.next, NEW out \in Seq(UpRequest)
        PROVE  [w EXCEPT !.s = t, !.out = out] \in Views(Q, Settled(w.s.shown))
    BY <1>1, <1>2, <1>6, PlainStays
  <1>7. CASE f.t = "event"
    <2>1. f.event \in Event  BY <1>1, <1>7 DEF Frame
    <2>2. Genuine(f.event) /\ f.event.pos \in Q  BY <1>1, <1>7 DEF Sound, Shows, Genuine
    <2>3. Accept(w, f.event) \in Views(Q, Settled(w.s.shown))  BY <1>1, <1>5, <2>1, <2>2, AcceptStays
    <2> QED  BY <1>7, <2>3, ReduceCases DEF f, Q
  <1>8. CASE f.t = "replay" /\ f.reset
    <2>1. [w EXCEPT !.s = w.s, !.out = Append(w.out, HistoryRequest(w.s.have))] \in Views(Q, Settled(w.s.shown))
      <3>1. Matches(w.s, w.s)  BY DEF Matches
      <3> QED  BY <1>3, <1>4, <1>6, <3>1
    <2>2. [w EXCEPT !.out = Append(@, HistoryRequest(w.s.have))]
            = [w EXCEPT !.s = w.s, !.out = Append(w.out, HistoryRequest(w.s.have))]
      BY DEF Work
    <2> QED  BY <1>8, <2>1, <2>2, ReduceCases DEF f, Q
  <1>9. CASE f.t = "replay" /\ ~f.reset
    <2> DEFINE es == f.events
               W == Views(Q, Settled(w.s.shown))
    <2>1. es \in Seq(Event)  BY <1>1, <1>9 DEF Frame
    <2>2. \A v \in W, k \in 1 .. Len(es) : Accept(v, es[k]) \in W
      <3> TAKE v \in W, k \in 1 .. Len(es)
      <3>1. k \in DOMAIN es /\ es[k] \in Event  BY <2>1, LenProperties, ElementOfSeq
      <3>2. Genuine(es[k]) /\ es[k].pos \in Q  BY <1>1, <1>9, <3>1 DEF Sound, Shows, Genuine
      <3> QED  BY <1>1, <3>1, <3>2, AcceptStays
    <2> HIDE DEF W, es
    <2>3. AcceptAll(w, es) \in W  BY <1>5, <2>1, <2>2, AcceptAllStays DEF W
    <2> QED  BY <1>9, <2>3, ReduceCases DEF f, Q, W, es
  <1>10. CASE f.t = "history"
    <2>1. 1 .. f.len \subseteq Q
      <3>1. f.len \in Nat /\ f.len <= Len(log) /\ Len(log) \in Nat /\ DOMAIN log = 1 .. Len(log)
        BY <1>1, <1>10, LenProperties DEF Frame, Sound, Placed, PlacedIn
      <3>2. \A p \in 1 .. f.len : p \in DOMAIN log  BY <3>1
      <3> QED  BY <1>1, <1>10, <3>2 DEF Shows
    <2>2. ApplyHistory(w, f) \in Views(Q, Settled(w.s.shown))
      <3>1. P \subseteq DOMAIN log /\ \A p \in P : p <= f.len  BY <1>1, <1>10
      <3> QED  BY <1>1, <1>2, <1>10, <2>1, <3>1, ApplyHistoryStays
    <2>3. [w EXCEPT !.s.deferred = {f}] \in Views(Q, Settled(w.s.shown))
      <3> DEFINE t == [w.s EXCEPT !.deferred = {f}]
      <3>1. t \in Store /\ Matches(t, w.s) /\ t.next = w.s.next  BY <1>1, <1>3 DEF Store, Matches
      <3>2. [w EXCEPT !.s.deferred = {f}] = [w EXCEPT !.s = t, !.out = w.out]  BY <1>3 DEF Work, Store
      <3> HIDE DEF t
      <3> QED  BY <1>3, <1>6, <3>1, <3>2
    <2>4. ReceiveHistory(w, f) \in Views(Q, Settled(w.s.shown))  BY <2>2, <2>3 DEF ReceiveHistory
    <2> QED  BY <1>10, <2>4, ReduceCases DEF f, Q
  <1>11. ASSUME NEW busy \in BOOLEAN PROVE [w EXCEPT !.s.working = busy] \in Views(Q, Settled(w.s.shown))
    <2> DEFINE t == [w.s EXCEPT !.working = busy]
    <2>1. t \in Store /\ Matches(t, w.s) /\ t.next = w.s.next  BY <1>3 DEF Store, Matches
    <2>2. [w EXCEPT !.s.working = busy] = [w EXCEPT !.s = t, !.out = w.out]  BY <1>3 DEF Work, Store
    <2> HIDE DEF t
    <2> QED  BY <1>3, <1>6, <2>1, <2>2
  <1>12. CASE f.t = "state"
    <2>1. f.busy \in BOOLEAN  BY <1>1, <1>12 DEF Frame
    <2> QED  BY <1>11, <1>12, <2>1, ReduceCases DEF f, Q
  <1>13. CASE f.t = "closed"  BY <1>11, <1>13, ReduceCases DEF f, Q
  <1>14. CASE f.t = "offline"
    <2>1. Interrupted(w.s) \in Store /\ Matches(Interrupted(w.s), w.s) /\ Interrupted(w.s).next = w.s.next
      BY <1>3 DEF Store, Matches, Interrupted
    <2>2. [w EXCEPT !.s = Interrupted(@)] = [w EXCEPT !.s = Interrupted(w.s), !.out = w.out]  BY DEF Work
    <2>3. [w EXCEPT !.s = Interrupted(w.s), !.out = w.out] \in Views(Q, Settled(w.s.shown))  BY <1>3, <1>6, <2>1
    <2> QED  BY <1>14, <2>2, <2>3, ReduceCases DEF f, Q
  <1>15. CASE f.t = "online"
    <2> DEFINE t == [w.s EXCEPT !.online = TRUE]
               out == Append(w.out, HistoryRequest(w.s.have))
    <2>1. t \in Store /\ Matches(t, w.s) /\ t.next = w.s.next  BY <1>3 DEF Store, Matches
    <2>2. [w EXCEPT !.s.online = TRUE, !.out = Append(@, HistoryRequest(w.s.have))]
            = [w EXCEPT !.s = t, !.out = out]
      BY <1>3 DEF Work, Store
    <2> HIDE DEF t, out
    <2>3. [w EXCEPT !.s = t, !.out = out] \in Views(Q, Settled(w.s.shown))  BY <1>4, <1>6, <2>1 DEF out
    <2> QED  BY <1>5, <1>15, <2>2, <2>3, ReduceCases DEF f, Q
  <1>16. f.t \in {"event", "replay", "history", "state", "closed", "offline", "online"}  BY <1>1 DEF Frame
  <1>17. Reduce(w, f) \in Views(Q, Settled(w.s.shown))
    BY <1>7, <1>8, <1>9, <1>10, <1>12, <1>13, <1>14, <1>15, <1>16 DEF f, Q
  <1> QED  BY <1>17 DEF f, Q

-----------------------------------------------------------------------------
(* What the node sends. *)

\* The stream is only ever appended to, in the current epoch and beyond head.
Extended ==
  /\ \A p \in DOMAIN log : p \in DOMAIN log' /\ log'[p] = log[p]
  /\ \A p \in DOMAIN log' \ DOMAIN log : log'[p].epoch = epoch /\ log'[p].seq > ring.head

\* Frames that are sound in the state they are sent in.
Newly == {f \in Frame : Sound(f)' /\ (f.t = "history" => f.len = Len(log'))}

\* a is the stream L, counted up to h, with none or one event of epoch ep numbered
\* and placed next, which carries text after the last end.
Adds(L, ep, h, ev, a) ==
  /\ PlacedIn(L) /\ ep \in Nat /\ h \in Nat /\ AtMostOne(ev) /\ a = L \o ev
  /\ Len(ev) = 1 => /\ ev[1].seq = h + 1 /\ ev[1].epoch = ep /\ ev[1].pos = Len(L) + 1
                    /\ Spans(L, ev[1].from, Len(L) + 1)

\* An end that a step fans out with rest is the last event.
Ending(rest) ==
  \A p \in DOMAIN log' \ DOMAIN log : log'[p].kind \in Ends =>
    /\ Len(rest) = 1 /\ p = Len(log') /\ log'[p].kind = rest[1].kind
    /\ log'[p].from = IF rest[1].from = 0 THEN p ELSE rest[1].from

\* What a step fans out after the pending update, and what it settles with it.
Settles(rest) ==
  \/ Len(rest) # 1 /\ UNCHANGED <<kept, ended>>
  \/ \E kind \in Kind, number \in Nat : rest = <<NewEvent(kind, number)>> /\ Settle(kind)

\* What is appended so leaves the stream placed and counted.
LEMMA PlacedAppends ==
  ASSUME NEW L, NEW ep, NEW h, NEW ev, NEW a, Adds(L, ep, h, ev, a)
  PROVE  /\ PlacedIn(a) /\ Len(a) = Len(L) + Len(ev)
         /\ \A p \in DOMAIN L : p \in DOMAIN a /\ a[p] = L[p]
         /\ \A p \in DOMAIN a : p \in DOMAIN L \/ (p = Len(L) + 1 /\ Len(ev) = 1 /\ a[p] = ev[1])
         /\ Len(ev) = 1 => Len(L) + 1 \in DOMAIN a /\ a[Len(L) + 1] = ev[1]
         /\ CountedIn(L, ep, h) => CountedIn(a, ep, h + Len(ev))
  <1> DEFINE n == Len(L)
             l == Len(ev)
  <1>0. /\ PlacedIn(L) /\ ep \in Nat /\ h \in Nat /\ AtMostOne(ev) /\ a = L \o ev
        /\ l = 1 => ev[1].seq = h + 1 /\ ev[1].epoch = ep /\ ev[1].pos = n + 1 /\ Spans(L, ev[1].from, n + 1)
    BY DEF Adds
  <1>1. h \in Nat /\ ep \in Nat /\ L \in Seq(Event) /\ ev \in Seq(Event) /\ n \in Nat /\ l \in Nat /\ l <= 1 /\ DOMAIN L = 1 .. n
    BY <1>0, LenProperties DEF PlacedIn, AtMostOne
  <1>2. /\ a \in Seq(Event) /\ Len(a) = n + l
        /\ \A i \in 1 .. n + l : a[i] = IF i <= n THEN L[i] ELSE ev[i - n]
    BY <1>0, <1>1, ConcatProperties
  <1>3. DOMAIN a = 1 .. n + l  BY <1>2, LenProperties
  <1>4. /\ l = 1 => ev[1].seq = h + 1 /\ ev[1].epoch = ep /\ ev[1].pos = n + 1 /\ Spans(L, ev[1].from, n + 1)
        /\ \A p \in 1 .. n : L[p].pos = p /\ Spans(L, L[p].from, p)
    BY <1>0, <1>1 DEF PlacedIn
  <1> HIDE DEF n, l
  <1>5. \A p \in 1 .. n : p \in 1 .. n + l /\ a[p] = L[p]  BY <1>1, <1>2
  <1>6. \A p \in 1 .. n + l : p \in 1 .. n \/ (p = n + 1 /\ l = 1 /\ a[p] = ev[1])
    <2> TAKE p \in 1 .. n + l
    <2>1. CASE p <= n  BY <1>1, <2>1
    <2>2. CASE ~(p <= n)
      <3>1. p = n + 1 /\ l = 1 /\ p - n = 1  BY <1>1, <2>2
      <3> QED  BY <2>2, <3>1, <1>2
    <2> QED  BY <2>1, <2>2
  <1>7. l = 1 => n + 1 \in 1 .. n + l /\ a[n + 1] = ev[1]
    <2> SUFFICES ASSUME l = 1 PROVE n + 1 \in 1 .. n + l /\ a[n + 1] = ev[1]  OBVIOUS
    <2>1. n + 1 \in 1 .. n + l /\ ~(n + 1 \in 1 .. n)  BY <1>1
    <2> QED  BY <2>1, <1>6
  <1>8. PlacedIn(a)
    <2>1. \A p \in 1 .. n + l : a[p].pos = p  BY <1>4, <1>5, <1>6
    <2>2. ASSUME NEW p \in 1 .. n + 1, NEW from, Spans(L, from, p) PROVE Spans(a, from, p)
      <3>1. from \in 1 .. p /\ \A q \in from .. p - 1 : L[q].kind \notin Ends  BY <2>2 DEF Spans
      <3>2. \A q \in from .. p - 1 : q \in 1 .. n  BY <1>1, <3>1
      <3> QED  BY <3>1, <3>2, <1>5 DEF Spans
    <2>3. ASSUME NEW p \in 1 .. n + l PROVE Spans(a, a[p].from, p)
      <3>1. CASE p \in 1 .. n
        <4>1. Spans(L, a[p].from, p) /\ p \in 1 .. n + 1  BY <3>1, <1>1, <1>4, <1>5
        <4> QED  BY <4>1, <2>2
      <3>2. CASE p = n + 1 /\ l = 1 /\ a[p] = ev[1]
        <4>1. Spans(L, a[p].from, p) /\ p \in 1 .. n + 1  BY <3>2, <1>1, <1>4
        <4> QED  BY <4>1, <2>2
      <3> QED  BY <3>1, <3>2, <1>6
    <2> QED  BY <2>1, <2>3, <1>2, <1>3 DEF PlacedIn
  <1>9. ASSUME CountedIn(L, ep, h) PROVE CountedIn(a, ep, h + l)
    <2>1. \A p \in 1 .. n : L[p].seq \in Nat /\ L[p].epoch \in Nat
      <3>1. \A p \in 1 .. n : L[p] \in Event  BY <1>1, ElementOfSeq DEF n
      <3> QED  BY <3>1 DEF Event
    <2>2. /\ \A p \in 1 .. n : L[p].seq >= 1 /\ L[p].epoch <= ep /\ (L[p].epoch = ep => L[p].seq <= h)
          /\ \A p, q \in 1 .. n : p < q /\ L[p].epoch = L[q].epoch => L[p].seq < L[q].seq
          /\ h > 0 => n > 0 /\ L[n].epoch = ep /\ L[n].seq = h
      BY <1>1, <1>9 DEF CountedIn, n
    <2>3. \A p \in 1 .. n + l : a[p].seq >= 1 /\ a[p].epoch <= ep /\ (a[p].epoch = ep => a[p].seq <= h + l)
      <3> TAKE p \in 1 .. n + l
      <3>1. CASE p \in 1 .. n
        <4>1. a[p] = L[p]  BY <3>1, <1>5
        <4>2. L[p].seq <= h => L[p].seq <= h + l  BY <1>1, <2>1, <3>1
        <4> QED  BY <3>1, <4>1, <4>2, <2>2
      <3>2. CASE l = 1 /\ a[p] = ev[1]  BY <3>2, <1>1, <1>4
      <3> QED  BY <3>1, <3>2, <1>6
    <2>4. ASSUME NEW p \in 1 .. n + l, NEW q \in 1 .. n + l, p < q, a[p].epoch = a[q].epoch
          PROVE  a[p].seq < a[q].seq
      <3>1. p \in 1 .. n /\ a[p] = L[p]
        <4>1. ~(p = n + 1 /\ l = 1)  BY <1>1, <2>4
        <4> QED  BY <4>1, <1>5, <1>6
      <3>2. CASE q \in 1 .. n
        <4>1. a[q] = L[q]  BY <3>2, <1>5
        <4> QED  BY <3>1, <3>2, <4>1, <2>2, <2>4
      <3>3. CASE l = 1 /\ a[q] = ev[1]
        <4>1. L[p].epoch = ep /\ L[p].seq <= h /\ a[q].seq = h + 1  BY <3>1, <3>3, <1>4, <2>2, <2>4
        <4> QED  BY <3>1, <4>1, <1>1, <2>1
      <3> QED  BY <3>2, <3>3, <1>6
    <2>5. h + l > 0 => n + l > 0 /\ a[n + l].epoch = ep /\ a[n + l].seq = h + l
      <3>1. CASE l = 1
        <4>1. a[n + l].epoch = ep /\ a[n + l].seq = h + l  BY <3>1, <1>4, <1>7
        <4>2. n + l > 0  BY <3>1, <1>1
        <4> QED  BY <4>1, <4>2
      <3>2. CASE l = 0
        <4>1. n + l = n /\ h + l = h  BY <3>2, <1>1
        <4>2. n > 0 => n \in 1 .. n  BY <1>1
        <4> QED  BY <4>1, <4>2, <1>5, <2>2
      <3>3. l = 0 \/ l = 1  BY <1>1
      <3> QED  BY <3>1, <3>2, <3>3
    <2> QED  BY <2>3, <2>4, <2>5, <1>2, <1>3 DEF CountedIn
  <1> QED  BY <1>1, <1>2, <1>3, <1>5, <1>6, <1>7, <1>8, <1>9 DEF n, l

\* Stamping keeps the epoch and the kind of an event, and places it and its text.
LEMMA StampedPlace ==
  ASSUME NEW ev, AtMostOne(ev), NEW b \in Nat, ring.head \in Nat, log \in Seq(Event), Len(ev) = 1
  PROVE  /\ Stamped(ev, b)[1].epoch = ev[1].epoch /\ Stamped(ev, b)[1].kind = ev[1].kind
         /\ Stamped(ev, b)[1].pos = Len(log) + b + 1
         /\ Stamped(ev, b)[1].from = IF ev[1].from = 0 THEN Len(log) + b + 1 ELSE ev[1].from
  <1> DEFINE x == ring.head + b + 1
             y == Len(log) + b + 1
             e == ev[1]
             from == IF e.from = 0 THEN y ELSE e.from
  <1>1. 1 \in DOMAIN ev /\ e \in Event /\ x \in Nat /\ y \in Nat
    <2>1. DOMAIN ev = 1 .. 1 /\ Len(log) \in Nat /\ ev \in Seq(Event)  BY LenProperties DEF AtMostOne
    <2>2. 1 \in 1 .. Len(ev)  OBVIOUS
    <2>3. e \in Event  BY <2>1, <2>2, ElementOfSeq
    <2> QED  BY <2>1, <2>3
  <1>2. Stamped(ev, b)[1] = [e EXCEPT !.seq = x, !.pos = y, !.from = IF @ = 0 THEN y ELSE @]
    BY <1>1 DEF Stamped
  <1>3. Stamped(ev, b)[1] = [e EXCEPT !.seq = x, !.pos = y, !.from = from]
    BY <1>1, <1>2 DEF Event
  <1> HIDE DEF x, y, e, from
  <1>4. /\ Stamped(ev, b)[1].epoch = e.epoch /\ Stamped(ev, b)[1].kind = e.kind
        /\ Stamped(ev, b)[1].pos = y /\ Stamped(ev, b)[1].from = from
    BY <1>1, <1>3 DEF Event
  <1> QED  BY <1>4 DEF y, e, from

\* Frames of events that are in the stream are sound.
LEMMA EventFrames ==
  ASSUME NEW ev \in Seq(Event), \A k \in DOMAIN ev : ev[k].pos \in DOMAIN log' /\ log'[ev[k].pos] = ev[k]
  PROVE  Frames(ev) \in Seq(Newly)
  <1> DEFINE n == Len(ev)
             z == Frames(ev)
  <1>1. n \in Nat /\ DOMAIN ev = 1 .. n  BY LenProperties
  <1>2. z = [k \in 1 .. n |-> [t |-> "event", event |-> ev[k]]]  BY <1>1 DEF Frames
  <1> HIDE DEF n, z
  <1>3. \A k \in 1 .. n : [t |-> "event", event |-> ev[k]] \in Newly
    <2> TAKE k \in 1 .. n
    <2> DEFINE e == ev[k]
               x == [t |-> "event", event |-> e]
    <2>1. e \in Event /\ e.pos \in DOMAIN log' /\ log'[e.pos] = e  BY <1>1, ElementOfSeq DEF n
    <2> HIDE DEF e
    <2>2. x \in Frame /\ x.t = "event" /\ x.event = e  BY <2>1 DEF Frame
    <2> HIDE DEF x
    <2>3. Genuine(e)'  BY <2>1 DEF Genuine
    <2>4. \A f : f.t = "event" /\ f.event = e => Sound(f)'  BY <2>3 DEF Sound
    <2>5. x \in Newly  BY <2>2, <2>4 DEF Newly
    <2> QED  BY <2>5 DEF x, e
  <1>4. z \in [1 .. n -> Newly]  BY <1>2, <1>3
  <1>5. z \in Seq(Newly)  BY <1>1, <1>4, SeqDef
  <1> QED  BY <1>5 DEF z

\* Frames that show nothing are sound.
LEMMA PlainFrames ==
  ASSUME NEW f \in Frame, f.t \in {"state", "closed", "online", "offline"}
  PROVE  <<f>> \in Seq(Newly)
  <1>1. f.t # "event" /\ f.t # "replay" /\ f.t # "history"  OBVIOUS
  <1>2. Sound(f)'  BY <1>1 DEF Sound
  <1>3. f \in Newly  BY <1>1, <1>2 DEF Newly
  <1> QED  BY <1>3

\* A frame sound in a state stays sound when the stream is extended.
LEMMA SoundStays ==
  ASSUME ring.head \in Nat, Placed, Fresh => Numbered, Placed', Fresh' => Fresh, Extended, NEW f \in Frame, Sound(f)
  PROVE  Sound(f)'
  <1>1. \A e : Genuine(e) => Genuine(e)'  BY DEF Genuine, Extended
  <1>2. f.t = "event" => Genuine(f.event)'  BY <1>1 DEF Sound
  <1>3. f.t = "replay" => \A k \in DOMAIN f.events : Genuine(f.events[k])'  BY <1>1 DEF Sound
  <1>4. ASSUME f.t = "history" PROVE f.len <= Len(log') /\ Holds(f.kept, f.len)' /\ (Fresh' => Covers(f)')
    <2> DEFINE n == Len(log)
               m == Len(log')
    <2>1. n \in Nat /\ m \in Nat /\ DOMAIN log = 1 .. n /\ DOMAIN log' = 1 .. m
      BY LenProperties DEF Placed, PlacedIn
    <2>2. f.len \in Nat /\ f.head \in Nat /\ f.len <= n /\ Holds(f.kept, f.len)  BY <1>4 DEF Frame, Sound
    <2>3. \A p \in 1 .. n : p \in 1 .. m /\ log'[p] = log[p]  BY <2>1 DEF Extended
    <2> HIDE DEF n, m
    <2>4. n <= m
      <3> SUFFICES ASSUME n # 0 PROVE n <= m  BY <2>1
      <3>1. n \in 1 .. n  BY <2>1
      <3> QED  BY <2>1, <2>3, <3>1
    <2>5. ASSUME Fresh' PROVE Covers(f)'
      <3>1. Covers(f) /\ Numbered  BY <1>4, <2>5 DEF Sound
      <3>2. ASSUME f.head > 0
            PROVE  f.len > 0 /\ log'[f.len].epoch = f.epoch /\ log'[f.len].seq = f.head /\ f.len \in 1 .. n
        <4>1. f.len > 0 /\ log[f.len].epoch = f.epoch /\ log[f.len].seq = f.head  BY <3>1, <3>2 DEF Covers
        <4>2. f.len \in 1 .. n  BY <2>1, <2>2, <4>1
        <4> QED  BY <2>3, <4>1, <4>2
      <3>3. ASSUME NEW p \in 1 .. m, log'[p].epoch = f.epoch PROVE log'[p].seq <= f.head <=> p <= f.len
        <4>1. CASE p \in 1 .. n
          <5>1. log'[p] = log[p] /\ p \in DOMAIN log  BY <2>1, <2>3, <4>1
          <5> QED  BY <5>1, <3>1, <3>3 DEF Covers
        <4>2. CASE ~(p \in 1 .. n)
          <5>1. ~(p <= f.len)  BY <2>1, <2>2, <4>2
          <5>2. log'[p].epoch = epoch /\ log'[p].seq > ring.head  BY <2>1, <4>2 DEF Extended
          <5>3. log'[p].seq \in Nat /\ log'[p].seq >= 1
            <6>1. log'[p] \in Event  BY <2>1, ElementOfSeq DEF Placed, PlacedIn, m
            <6>2. log'[p].seq \in Nat  BY <6>1 DEF Event
            <6> QED  BY <5>2, <6>2
          <5>4. ~(log'[p].seq <= f.head)
            <6>1. CASE f.head = 0  BY <5>3, <6>1
            <6>2. CASE f.head > 0
              <7>1. log[f.len].epoch = epoch /\ log[f.len].seq = f.head /\ f.len \in DOMAIN log
                BY <2>1, <2>3, <3>2, <3>3, <5>2, <6>2
              <7>2. f.head <= ring.head  BY <3>1, <7>1 DEF Numbered, CountedIn
              <7> QED  BY <2>2, <5>2, <5>3, <7>2
            <6> QED  BY <2>2, <6>1, <6>2
          <5> QED  BY <5>1, <5>4
        <4> QED  BY <4>1, <4>2
      <3> QED  BY <2>1, <3>2, <3>3 DEF Covers
    <2>6. Holds(f.kept, f.len)'
      <3>1. \A p \in 1 .. f.len : log'[p] = log[p]  BY <2>1, <2>2, <2>3
      <3> QED  BY <2>2, <3>1 DEF Holds
    <2> QED  BY <2>1, <2>2, <2>4, <2>5, <2>6 DEF m
  <1> QED  BY <1>2, <1>3, <1>4 DEF Sound

\* What a client shows stays exact when the stream is extended.
LEMMA ViewStays ==
  ASSUME ring.head \in Nat, Placed, Fresh => Numbered, Placed', Fresh' => Fresh, Extended,
         NEW s, s.next \in Nat, NEW lost, NEW P \in SUBSET (DOMAIN log), View(s, lost, P),
         NEW t, Matches(t, s), t.next = s.next, NEW Q, P \subseteq Q
  PROVE  View(t, lost, Q)'
  <1>1. \A p \in DOMAIN log : p \in DOMAIN log' /\ log'[p] = log[p]  BY DEF Extended
  <1>2. \A h \in t.held : h.pos \in Q /\ Genuine(h)' /\ h.epoch = t.epoch
    BY <1>1 DEF View, Matches, Genuine
  <1>3. t.shown \subseteq Q /\ IsFiniteSet(t.held) /\ (t.synced => t.next # 0)  BY DEF View, Matches
  <1>w. Whole(t.shown)'
    <2>1. \A p \in t.shown : log'[p] = log[p]  BY <1>1 DEF View, Matches
    <2> QED  BY <2>1 DEF View, Matches, Whole
  <1>4. ASSUME Fresh' PROVE Partial(lost)' /\ Exact(t)' /\ Reached(t, Q)'
    <2>1. Partial(lost) /\ Exact(s) /\ Reached(s, P) /\ Numbered  BY <1>4 DEF View
    <2>p. Partial(lost)'  BY <1>1, <2>1 DEF Partial
    <2>2. Reached(t, Q)'
      <3> SUFFICES ASSUME s.next > 1 PROVE \E p \in Q : log'[p].epoch = s.epoch /\ log'[p].seq = s.next - 1
        BY DEF Reached, Matches
      <3>1. PICK p \in P : log[p].epoch = s.epoch /\ log[p].seq = s.next - 1  BY <2>1 DEF Reached
      <3> QED  BY <3>1, <1>1
    <2>3. Exact(t)'
      <3> SUFFICES ASSUME s.synced, NEW p \in DOMAIN log', log'[p].epoch = s.epoch, log'[p].seq < s.next
                   PROVE  p \in s.shown \/ (p \in s.bare /\ log'[p].kind \notin Ends)
        BY DEF Exact, Matches
      <3>1. CASE p \in DOMAIN log  BY <3>1, <1>1, <2>1 DEF Exact
      <3>2. CASE p \notin DOMAIN log
        <4>1. log'[p].epoch = epoch /\ log'[p].seq > ring.head  BY <3>2 DEF Extended
        <4>2. log'[p].seq \in Nat
          <5>1. log'[p] \in Event  BY LenProperties, ElementOfSeq DEF Placed, PlacedIn
          <5> QED  BY <5>1 DEF Event
        <4>3. s.next > 1  BY <4>1, <4>2
        <4>4. PICK q \in P : log[q].epoch = s.epoch /\ log[q].seq = s.next - 1  BY <2>1, <4>3 DEF Reached
        <4>5. s.next - 1 <= ring.head  BY <2>1, <4>1, <4>4 DEF Numbered, CountedIn
        <4> QED  BY <4>1, <4>2, <4>5
      <3> QED  BY <3>1, <3>2
    <2> QED  BY <2>p, <2>2, <2>3
  <1> QED  BY <1>2, <1>3, <1>w, <1>4 DEF View

\* The shape of what is neither the node's nor the client's.
LinksOK ==
  /\ turn \in BOOLEAN /\ link \in {"up", "broken", "gone"} /\ sock \in BOOLEAN /\ breaks \in Nat
  /\ up \in Seq(UpRequest) /\ untold \in SUBSET {"outage", "new stream"}

\* A step that extends the stream, sends sound frames behind those in transit or
\* loses them all, and leaves the client its view keeps the invariant.
LEMMA StreamStep ==
  ASSUME ClientInv, NodeInv', Placed', Stored', Fresh' => Fresh /\ Numbered', Extended,
         NEW old \in {down, <<>>}, NEW new \in Seq(Newly), down' = old \o new,
         c' \in Store, Matches(c', c), c'.next = c.next, unseen' = unseen,
         LinksOK'
  PROVE  ClientInv'
  <1> DEFINE n == Len(old)
             z == old \o new
             P == Known(down)
             Q == {p \in DOMAIN log' : \A i \in DOMAIN z : z[i].t = "history" => p <= z[i].len}
             t == c'
  <1>1. /\ TypeOK /\ Placed /\ (Fresh => Numbered) /\ InTransit(down) /\ View(c, unseen, P)
        /\ down \in Seq(Frame) /\ ring.head \in Nat /\ c.next \in Nat /\ (Fresh' => Fresh)
    BY DEF ClientInv, TypeOK, Store
  <1>2. /\ old \in Seq(Frame) /\ n \in Nat /\ DOMAIN old = 1 .. n
        /\ \A i \in 1 .. n : Sound(old[i]) /\ old[i] \in Frame
        /\ \A i, j \in 1 .. n : i < j /\ old[j].t = "history" =>
             \A p \in DOMAIN log : Shows(old[i], p) => p <= old[j].len
        /\ \A p \in P, i \in 1 .. n : old[i].t = "history" => p <= old[i].len
    <2>1. CASE old = down
      <3>1. n \in Nat /\ DOMAIN old = 1 .. n  BY <1>1, <2>1, LenProperties
      <3>2. \A i \in 1 .. n : old[i] \in Frame
        <4>1. old \in Seq(Frame)  BY <1>1, <2>1
        <4> QED  BY <4>1, ElementOfSeq
      <3> HIDE DEF n
      <3> QED  BY <1>1, <2>1, <3>1, <3>2 DEF InTransit, Known
    <2>2. CASE old = <<>>
      <3>1. old \in Seq(Frame) /\ n = 0 /\ DOMAIN old = {}  BY <2>2, EmptySeq
      <3>2. 1 .. 0 = {}  OBVIOUS
      <3> HIDE DEF n
      <3> QED  BY <3>1, <3>2
    <2> QED  BY <2>1, <2>2
  <1>3. /\ new \in Seq(Frame) /\ Len(new) \in Nat /\ DOMAIN new = 1 .. Len(new)
        /\ \A k \in 1 .. Len(new) : new[k] \in Frame /\ new[k] \in Newly
    <2>1. Newly \subseteq Frame  BY DEF Newly
    <2>2. \A k \in 1 .. Len(new) : new[k] \in Newly  BY ElementOfSeq
    <2>3. Len(new) \in Nat /\ DOMAIN new = 1 .. Len(new)  BY LenProperties
    <2>4. new \in Seq(Frame)
      <3>1. new \in [1 .. Len(new) -> Newly]  BY LenProperties
      <3>2. new \in [1 .. Len(new) -> Frame]  BY <3>1, <2>1, <2>2
      <3> QED  BY <2>3, <3>2, SeqDef
    <2> QED  BY <2>1, <2>2, <2>3, <2>4
  <1>4. /\ z \in Seq(Frame) /\ Len(z) = n + Len(new)
        /\ \A i \in 1 .. n + Len(new) : z[i] = IF i <= n THEN old[i] ELSE new[i - n]
    BY <1>2, <1>3, ConcatProperties
  <1>5. DOMAIN z = 1 .. n + Len(new)  BY <1>4, LenProperties
  <1> HIDE DEF n, z, P, Q
  <1>6. \A i \in DOMAIN z : \/ i \in 1 .. n /\ z[i] = old[i]
                            \/ i > n /\ z[i] \in Newly
    <2> TAKE i \in DOMAIN z
    <2>1. CASE i <= n  BY <2>1, <1>2, <1>4, <1>5
    <2>2. CASE ~(i <= n)
      <3>1. i - n \in 1 .. Len(new) /\ i > n  BY <2>2, <1>2, <1>3, <1>5
      <3> QED  BY <2>2, <3>1, <1>3, <1>4, <1>5
    <2> QED  BY <2>1, <2>2
  <1>7. \A f \in Frame : Sound(f) => Sound(f)'
    <2> TAKE f \in Frame
    <2> HAVE Sound(f)
    <2> QED  BY <1>1, SoundStays
  <1>8. \A f \in Newly : Sound(f)' /\ (f.t = "history" => f.len = Len(log'))  BY DEF Newly
  <1>9. \A i \in DOMAIN z : \A f : f = z[i] => Sound(f)'
    <2> TAKE i \in DOMAIN z
    <2> TAKE f
    <2> HAVE f = z[i]
    <2>1. (f \in Frame /\ Sound(f)) \/ f \in Newly  BY <1>2, <1>6
    <2> QED  BY <2>1, <1>7, <1>8
  <1>10. Len(log') \in Nat /\ DOMAIN log' = 1 .. Len(log')  BY LenProperties DEF Placed, PlacedIn
  <1>11. \A f \in Frame, p \in DOMAIN log' : Sound(f) /\ Shows(f, p) => p \in DOMAIN log
    <2> TAKE f \in Frame, p \in DOMAIN log'
    <2> HAVE Sound(f) /\ Shows(f, p)
    <2>1. CASE f.t = "event" /\ f.event.pos = p  BY <2>1 DEF Sound, Genuine
    <2>2. CASE f.t = "replay" /\ \E k \in DOMAIN f.events : f.events[k].pos = p  BY <2>2 DEF Sound, Genuine
    <2>3. CASE f.t = "history" /\ p \in 1 .. f.len
      <3>1. f.len \in Nat /\ f.len <= Len(log)  BY <2>3 DEF Frame, Sound
      <3>2. Len(log) \in Nat /\ DOMAIN log = 1 .. Len(log)  BY <1>1, LenProperties DEF Placed, PlacedIn
      <3> QED  BY <2>3, <3>1, <3>2
    <2> QED  BY <2>1, <2>2, <2>3 DEF Shows
  <1>12. ASSUME NEW i \in DOMAIN z, NEW j \in DOMAIN z, i < j, z[j].t = "history",
                NEW p \in DOMAIN log', Shows(z[i], p)
         PROVE  p <= z[j].len
    <2>1. CASE j \in 1 .. n /\ z[j] = old[j]
      <3>1. i \in 1 .. n /\ z[i] = old[i]  BY <1>2, <1>5, <1>6, <1>12, <2>1
      <3>2. p \in DOMAIN log  BY <1>2, <1>11, <1>12, <3>1
      <3> QED  BY <1>2, <1>12, <2>1, <3>1, <3>2
    <2>2. CASE z[j] \in Newly
      <3>1. z[j].len = Len(log')  BY <1>8, <1>12, <2>2
      <3> QED  BY <3>1, <1>10
    <2> QED  BY <1>6, <2>1, <2>2
  <1>13. P \subseteq Q
    <2> SUFFICES ASSUME NEW p \in P, NEW i \in DOMAIN z, z[i].t = "history"
                 PROVE  p \in DOMAIN log' /\ p <= z[i].len
      <3>1. \A p \in P : p \in DOMAIN log'  BY DEF P, Known, Extended
      <3> QED  BY <3>1 DEF Q
    <2>1. p \in DOMAIN log'  BY DEF P, Known, Extended
    <2>2. CASE i \in 1 .. n /\ z[i] = old[i]  BY <1>2, <2>1, <2>2
    <2>3. CASE z[i] \in Newly
      <3>1. z[i].len = Len(log')  BY <1>8, <2>3
      <3> QED  BY <1>10, <2>1, <3>1
    <2> QED  BY <1>6, <2>2, <2>3
  <1>14. Matches(t, c) /\ t.next = c.next /\ t \in Store  OBVIOUS
  <1> HIDE DEF t
  <1>15. P \subseteq DOMAIN log  BY DEF P, Known
  <1>16. \A s, l, X, y, Y : /\ s.next \in Nat /\ X \subseteq DOMAIN log /\ View(s, l, X)
                            /\ Matches(y, s) /\ y.next = s.next /\ X \subseteq Y
                            => View(y, l, Y)'
    <2> TAKE s, l, X, y, Y
    <2> HAVE s.next \in Nat /\ X \subseteq DOMAIN log /\ View(s, l, X) /\ Matches(y, s) /\ y.next = s.next /\ X \subseteq Y
    <2>1. X \in SUBSET (DOMAIN log)  OBVIOUS
    <2> QED  BY <1>1, <2>1, ViewStays
  <1>17. \A l : \A y, Y : l = unseen /\ y = t /\ Y = Q => View(y, l, Y)'  BY <1>1, <1>13, <1>14, <1>15, <1>16
  <1>18. down' = z  BY DEF z
  <1>19. InTransit(down)'
    <2>1. \A i \in DOMAIN down' : Sound(down[i])'
      <3> TAKE i \in DOMAIN down'
      <3>1. \A f : f = down'[i] => Sound(f)'  BY <1>9, <1>18
      <3> QED  BY <3>1 DEF Sound, Genuine, Covers, Holds
    <2>2. \A i, j \in DOMAIN down' : i < j /\ down'[j].t = "history" =>
            \A p \in DOMAIN log' : Shows(down[i], p)' => p <= down'[j].len
      BY <1>12, <1>18 DEF Shows
    <2> QED  BY <2>1, <2>2 DEF InTransit
  <1>20. View(c, unseen, Known(down))'
    <2>1. Known(down)' = Q  BY <1>18 DEF Known, Q
    <2>2. \A y, Y : y = t /\ Y = Q => View(y, unseen, Y)'
      <3>1. \A l, y, Y : l = unseen /\ y = t /\ Y = Q => View(y, l, Y)'  BY <1>17
      <3> QED  BY <3>1 DEF View, Exact, Reached, Genuine, Whole, Partial
    <2> QED  BY <2>1, <2>2 DEF View, Exact, Reached, Genuine, Whole, Partial, t
  <1>21. TypeOK'
    <2>1. epoch' \in Nat /\ ring'.head \in Nat /\ ring'.entries \in Seq(Event) /\ log' \in Seq(Event)
          /\ made' \in Nat /\ pending' \in Nat
      BY DEF NodeInv, Retains, Ordered
    <2>2. down' \in Seq(Frame)  BY <1>4, <1>18
    <2>3. unseen' \in SUBSET Nat  BY <1>1 DEF TypeOK
    <2>4. kept' \in SUBSET Nat /\ ended' \in Nat  BY <1>10 DEF Stored, Holds
    <2> QED  BY <2>1, <2>2, <2>3, <2>4 DEF TypeOK, LinksOK
  <1> QED  BY <1>19, <1>20, <1>21 DEF ClientInv

\* A stream that is not touched is extended by nothing.
LEMMA SameStream ==
  ASSUME Placed, Stored, Fresh => Numbered, epoch' = epoch, ring' = ring, log' = log,
         kept' = kept, ended' = ended, untold \subseteq untold'
  PROVE  Placed' /\ Stored' /\ (Fresh' => Fresh /\ Numbered') /\ Extended
  <1>1. Placed' /\ (Numbered => Numbered')  BY DEF Placed, Numbered
  <1>2. Fresh' => Fresh  BY DEF Fresh
  <1>3. Extended  BY DEF Extended
  <1>4. Stored'  BY DEF Stored, Holds
  <1> QED  BY <1>1, <1>2, <1>3, <1>4

\* The messages hold what has ended if they hold what a step ends.
LEMMA StoredStays ==
  ASSUME Placed, Stored, Placed', Extended, kept \subseteq kept', kept' \subseteq DOMAIN log',
         ended' \in ended .. Len(log'),
         \A p \in DOMAIN log' \ DOMAIN log : log'[p].kind \in Ends =>
           p <= ended' /\ log'[p].from .. p \subseteq kept'
  PROVE  Stored'
  <1> DEFINE n == Len(log)
             m == Len(log')
  <1>1. n \in Nat /\ m \in Nat /\ DOMAIN log = 1 .. n /\ DOMAIN log' = 1 .. m
    BY LenProperties DEF Placed, PlacedIn
  <1>2. \A p \in 1 .. n : p \in 1 .. m /\ log'[p] = log[p]  BY <1>1 DEF Extended
  <1>3. /\ \A p \in 1 .. n : log[p].kind \in Ends => log[p].from .. p \subseteq kept
        /\ ended \in 0 .. n /\ \A p \in 1 .. n : p > ended => log[p].kind \notin Ends
    BY <1>1 DEF Stored, Holds
  <1> HIDE DEF n, m
  <1>4. \A p \in 1 .. m : log'[p].kind \in Ends => log'[p].from .. p \subseteq kept'
    <2> SUFFICES ASSUME NEW p \in 1 .. m, log'[p].kind \in Ends PROVE log'[p].from .. p \subseteq kept'  OBVIOUS
    <2>1. CASE p \in 1 .. n
      <3>1. log'[p] = log[p]  BY <1>2, <2>1
      <3> QED  BY <1>3, <2>1, <3>1
    <2>2. CASE p \notin 1 .. n  BY <1>1, <2>2
    <2> QED  BY <2>1, <2>2
  <1>5. ended' \in 0 .. m  BY <1>1, <1>3 DEF m
  <1>6. \A p \in 1 .. m : p > ended' => log'[p].kind \notin Ends
    <2> SUFFICES ASSUME NEW p \in 1 .. m, p > ended' PROVE log'[p].kind \notin Ends  OBVIOUS
    <2>1. CASE p \in 1 .. n
      <3>1. p > ended  BY <1>1, <1>3
      <3> QED  BY <1>2, <1>3, <2>1, <3>1
    <2>2. CASE p \notin 1 .. n
      <3>1. ~(p <= ended')  BY <1>1, <1>5
      <3> QED  BY <1>1, <2>2, <3>1
    <2> QED  BY <2>1, <2>2
  <1> QED  BY <1>1, <1>4, <1>5, <1>6 DEF Stored, Holds, m

\* What a step settles are the ends that it fans out.
LEMMA SettlesStored ==
  ASSUME Placed, Stored, Placed', Extended, NEW rest, Settles(rest), Ending(rest),
         Len(rest) = 1 => Len(log') \in DOMAIN log'
  PROVE  Stored'
  <1> DEFINE m == Len(log')
  <1>1. /\ Len(log) \in Nat /\ m \in Nat /\ DOMAIN log = 1 .. Len(log) /\ DOMAIN log' = 1 .. m
    BY LenProperties DEF Placed, PlacedIn
  <1>2. \A p \in DOMAIN log : p \in DOMAIN log'  BY DEF Extended
  <1>3. ended \in 0 .. Len(log) /\ kept \subseteq DOMAIN log  BY <1>1 DEF Stored, Holds
  <1>4. ended \in 0 .. m
    <2>1. CASE ended = 0  BY <1>1, <2>1
    <2>2. CASE ended # 0
      <3>1. ended \in 1 .. m  BY <1>1, <1>2, <1>3, <2>2
      <3> QED  BY <3>1
    <2> QED  BY <2>1, <2>2
  <1>5. kept \subseteq DOMAIN log'  BY <1>2, <1>3
  <1> HIDE DEF m
  <1>6. CASE Len(rest) # 1 /\ UNCHANGED <<kept, ended>>
    <2>1. kept' = kept /\ ended' = ended  BY <1>6
    <2>2. ended' \in ended .. Len(log')  BY <1>1, <1>4, <2>1 DEF m
    <2>3. \A p \in DOMAIN log' \ DOMAIN log : log'[p].kind \notin Ends  BY <1>6 DEF Ending
    <2> QED  BY <1>5, <2>1, <2>2, <2>3, StoredStays
  <1>7. ASSUME NEW kind \in Kind, NEW number \in Nat, rest = <<NewEvent(kind, number)>>, Settle(kind)
        PROVE  Stored'
    <2>1. /\ Len(rest) = 1 /\ rest[1].kind = kind
          /\ rest[1].from = IF kind \in {"message_update", "message_end"} THEN ended + 1 ELSE 0
      BY <1>7 DEF NewEvent
    <2>2. m \in 1 .. m  BY <1>1, <2>1 DEF m
    <2>3. /\ kept' = CASE kind = "message_end" -> kept \union (ended + 1 .. m)
                       [] kind = "agent_end" -> kept \union {m}
                       [] OTHER -> kept
          /\ ended' = IF kind \in Ends THEN m ELSE ended
      BY <1>7 DEF Settle, m
    <2>4. ended' \in ended .. m  BY <1>1, <1>4, <2>3
    <2>5. ended + 1 .. m \subseteq 1 .. m  BY <1>1, <1>4
    <2>6. kept \subseteq kept' /\ kept' \subseteq 1 .. m  BY <1>1, <1>5, <2>2, <2>3, <2>5 DEF Kind
    <2>7. ASSUME NEW p \in DOMAIN log' \ DOMAIN log, log'[p].kind \in Ends
          PROVE  p <= ended' /\ log'[p].from .. p \subseteq kept'
      <3>1. /\ p = m /\ kind \in Ends /\ log'[p].from = IF rest[1].from = 0 THEN p ELSE rest[1].from
        BY <2>1, <2>7 DEF Ending, m
      <3>2. p <= ended'  BY <1>1, <2>3, <3>1
      <3>3. CASE kind = "message_end"
        <4>1. log'[p].from = ended + 1  BY <1>4, <2>1, <3>1, <3>3
        <4> QED  BY <2>3, <3>1, <3>2, <3>3, <4>1
      <3>4. CASE kind = "agent_end"
        <4>1. log'[p].from = m  BY <2>1, <3>1, <3>4
        <4>2. m .. m = {m}  BY <1>1
        <4> QED  BY <2>3, <3>1, <3>2, <3>4, <4>1, <4>2
      <3> QED  BY <3>1, <3>3, <3>4 DEF Ends
    <2> QED  BY <1>1, <2>4, <2>6, <2>7, StoredStays DEF m
  <1> QED  BY <1>6, <1>7 DEF Settles

\* What the node sends arrives behind the rest, or is lost.
LEMMA SentBehind ==
  ASSUME down \in Seq(Frame), NEW frames \in Seq(Newly), down' = Sent(frames)
  PROVE  \E new \in Seq(Newly) : down' = down \o new
  <1>1. CASE link = "up" /\ sock  BY <1>1 DEF Sent
  <1>2. CASE ~(link = "up" /\ sock)
    <2>1. down' = down  BY <1>2 DEF Sent
    <2>2. down \o <<>> = down /\ <<>> \in Seq(Newly)  BY ConcatEmptySeq, EmptySeq
    <2> QED  BY <2>1, <2>2
  <1> QED  BY <1>1, <1>2

\* The pending update is numbered and placed next.
LEMMA FlushedAdds ==
  ASSUME NodeInv, Placed, Stored, NEW a, a = log \o Stamped(Flushed, 0)
  PROVE  /\ Adds(log, epoch, ring.head, Stamped(Flushed, 0), a) /\ Len(Stamped(Flushed, 0)) = Len(Flushed)
         /\ Len(Flushed) = 1 => Stamped(Flushed, 0)[1].kind \notin Ends
  <1> DEFINE f == Stamped(Flushed, 0)
             b == Len(Flushed)
             h == ring.head
  <1>1. /\ epoch \in Nat /\ ended \in Nat /\ pending \in Nat /\ h \in Nat /\ log \in Seq(Event) /\ PlacedIn(log)
        /\ Len(log) \in Nat /\ DOMAIN log = 1 .. Len(log)
    BY LenProperties DEF NodeInv, Retains, Ordered, Placed, PlacedIn
  <1>o. ended \in 0 .. Len(log) /\ \A q \in DOMAIN log : q > ended => log[q].kind \notin Ends  BY DEF Stored
  <1>2. /\ AtMostOne(Flushed) /\ b \in Nat
        /\ b = 1 => Flushed[1].epoch = epoch /\ Flushed[1].kind = "message_update" /\ Flushed[1].from = ended + 1
    <2>1. AtMostOne(Flushed) /\ b \in Nat  BY <1>1, FlushedOne, LenProperties DEF AtMostOne
    <2>2. CASE pending = 0
      <3>1. Flushed = <<>>  BY <2>2 DEF Flushed
      <3>2. b = 0  BY <3>1, EmptySeq
      <3> QED  BY <2>1, <3>2
    <2>3. CASE pending # 0
      <3>1. Flushed = <<NewEvent("message_update", pending)>>  BY <2>3 DEF Flushed
      <3>2. Flushed[1].epoch = epoch /\ Flushed[1].kind = "message_update" /\ Flushed[1].from = ended + 1
        BY <3>1 DEF NewEvent
      <3> QED  BY <2>1, <3>2
    <2> QED  BY <2>2, <2>3
  <1>3. /\ AtMostOne(f) /\ Len(f) = b
        /\ Len(f) = 1 => /\ f[1].seq = h + 1 /\ f[1].epoch = epoch /\ f[1].pos = Len(log) + 1
                         /\ f[1].kind = "message_update" /\ f[1].from = ended + 1
    <2>1. AtMostOne(f) /\ Len(f) = b /\ (b = 1 => f[1].seq = h + 0 + 1)  BY <1>1, <1>2, StampedOne
    <2>2. b = 1 => /\ f[1].epoch = epoch /\ f[1].pos = Len(log) + 0 + 1 /\ f[1].kind = "message_update"
                   /\ f[1].from = ended + 1
      <3> SUFFICES ASSUME b = 1
                   PROVE  /\ f[1].epoch = epoch /\ f[1].pos = Len(log) + 0 + 1 /\ f[1].kind = "message_update"
                          /\ f[1].from = ended + 1
        OBVIOUS
      <3>1. /\ f[1].epoch = Flushed[1].epoch /\ f[1].kind = Flushed[1].kind /\ f[1].pos = Len(log) + 0 + 1
            /\ f[1].from = IF Flushed[1].from = 0 THEN Len(log) + 0 + 1 ELSE Flushed[1].from
        BY <1>1, <1>2, StampedPlace
      <3>2. Flushed[1].from # 0  BY <1>1, <1>2
      <3> QED  BY <1>2, <3>1, <3>2
    <2>3. Len(log) \in Nat  BY <1>1
    <2> HIDE DEF f, b, h
    <2> QED  BY <1>1, <2>1, <2>2, <2>3
  <1>4. a = log \o f  OBVIOUS
  <1> HIDE DEF f
  <1>s. Spans(log, ended + 1, Len(log) + 1)
    <2>1. ended + 1 \in 1 .. Len(log) + 1  BY <1>1, <1>o
    <2>2. \A q \in ended + 1 .. (Len(log) + 1) - 1 : q \in DOMAIN log /\ q > ended  BY <1>1, <1>o
    <2> QED  BY <1>o, <2>1, <2>2 DEF Spans
  <1>5. Adds(log, epoch, ring.head, f, a)  BY <1>1, <1>3, <1>4, <1>s DEF Adds
  <1> QED  BY <1>3, <1>5 DEF f, b, Ends

\* Fanning out the pending update and an event extends the stream and sends them.
LEMMA FanOutSends ==
  ASSUME NodeInv, Placed, Stored, down \in Seq(Frame), NEW notice \in Seq(Newly), NEW rest,
         FanOut(Flushed, notice, rest), AtMostOne(rest),
         Len(rest) = 1 => rest[1].epoch = epoch /\ rest[1].from \in {0, ended + 1}, epoch' = epoch
  PROVE  /\ Placed' /\ Extended /\ (Numbered => Numbered')
         /\ Ending(rest) /\ (Len(rest) = 1 => Len(log') \in DOMAIN log')
         /\ \E new \in Seq(Newly) : down' = down \o new
  <1> DEFINE f == Stamped(Flushed, 0)
             b == Len(Flushed)
             g == Stamped(rest, b)
             h == ring.head
             a == log \o f
  <1>1. /\ epoch \in Nat /\ ended \in Nat /\ pending \in Nat /\ h \in Nat /\ log \in Seq(Event)
        /\ PlacedIn(log) /\ Retains(ring, log) /\ Len(log) \in Nat /\ DOMAIN log = 1 .. Len(log)
    BY LenProperties DEF NodeInv, Retains, Ordered, Placed, PlacedIn
  <1>o. ended \in 0 .. Len(log) /\ \A q \in DOMAIN log : q > ended => log[q].kind \notin Ends  BY DEF Stored
  <1>2. AtMostOne(Flushed) /\ b \in Nat  BY <1>1, FlushedOne, LenProperties DEF AtMostOne
  <1>3. Adds(log, epoch, h, f, a) /\ Len(f) = b /\ (b = 1 => f[1].kind \notin Ends)  BY FlushedAdds
  <1>f. AtMostOne(f) /\ (Len(f) = 1 => f[1].seq = h + 1 /\ f[1].epoch = epoch /\ f[1].pos = Len(log) + 1)
    BY <1>3 DEF Adds
  <1>4. /\ AtMostOne(g) /\ Len(g) = Len(rest)
        /\ Len(g) = 1 => /\ g[1].seq = h + b + 1 /\ g[1].epoch = epoch /\ g[1].pos = Len(log) + b + 1
                         /\ g[1].kind = rest[1].kind
                         /\ g[1].from = IF rest[1].from = 0 THEN Len(log) + b + 1 ELSE rest[1].from
    <2>1. AtMostOne(g) /\ Len(g) = Len(rest) /\ (Len(rest) = 1 => g[1].seq = h + b + 1)  BY <1>1, <1>2, StampedOne
    <2>2. Len(rest) = 1 => /\ g[1].epoch = rest[1].epoch /\ g[1].pos = Len(log) + b + 1
                           /\ g[1].kind = rest[1].kind
                           /\ g[1].from = IF rest[1].from = 0 THEN Len(log) + b + 1 ELSE rest[1].from
      BY <1>1, <1>2, StampedPlace
    <2> HIDE DEF g, b, h
    <2> QED  BY <2>1, <2>2
  <1>5. /\ log' = a \o g /\ down' = Sent(Frames(f) \o notice \o Frames(g))
        /\ \E r \in Retained(ring, f) : ring' \in Retained(r, g)
    BY DEF FanOut
  <1> HIDE DEF f, b, g, a
  <1>6. /\ PlacedIn(a) /\ Len(a) = Len(log) + b
        /\ \A p \in DOMAIN log : p \in DOMAIN a /\ a[p] = log[p]
        /\ \A p \in DOMAIN a : p \in DOMAIN log \/ (p = Len(log) + 1 /\ Len(f) = 1 /\ a[p] = f[1])
        /\ Len(f) = 1 => Len(log) + 1 \in DOMAIN a /\ a[Len(log) + 1] = f[1]
        /\ CountedIn(log, epoch, h) => CountedIn(a, epoch, h + b)
    <2>2. /\ PlacedIn(a) /\ Len(a) = Len(log) + Len(f)
          /\ \A p \in DOMAIN log : p \in DOMAIN a /\ a[p] = log[p]
          /\ \A p \in DOMAIN a : p \in DOMAIN log \/ (p = Len(log) + 1 /\ Len(f) = 1 /\ a[p] = f[1])
          /\ Len(f) = 1 => Len(log) + 1 \in DOMAIN a /\ a[Len(log) + 1] = f[1]
          /\ CountedIn(log, epoch, h) => CountedIn(a, epoch, h + Len(f))
      BY <1>3, PlacedAppends
    <2> QED  BY <1>3, <2>2
  <1>7. h + b \in Nat /\ (Len(g) = 1 => g[1].seq = h + b + 1 /\ g[1].epoch = epoch /\ g[1].pos = Len(a) + 1)
    BY <1>1, <1>2, <1>4, <1>6
  <1>a. Len(a) \in Nat /\ DOMAIN a = 1 .. Len(a)  BY <1>6, LenProperties DEF PlacedIn
  <1>s. Len(g) = 1 => Spans(a, g[1].from, Len(a) + 1)
    <2> SUFFICES ASSUME Len(g) = 1 PROVE Spans(a, g[1].from, Len(a) + 1)  OBVIOUS
    <2>1. CASE rest[1].from = 0
      <3>1. g[1].from = Len(a) + 1  BY <1>4, <1>6, <2>1
      <3> QED  BY <1>a, <3>1 DEF Spans
    <2>2. CASE rest[1].from # 0
      <3>1. g[1].from = ended + 1  BY <1>4, <2>2
      <3>2. ended + 1 \in 1 .. Len(a) + 1  BY <1>1, <1>2, <1>o, <1>6
      <3>3. \A q \in ended + 1 .. (Len(a) + 1) - 1 : q \in DOMAIN a /\ q > ended  BY <1>1, <1>o, <1>a
      <3>4. \A q \in DOMAIN a : q > ended => a[q].kind \notin Ends
        <4> SUFFICES ASSUME NEW q \in DOMAIN a, q > ended PROVE a[q].kind \notin Ends  OBVIOUS
        <4>1. CASE q \in DOMAIN log  BY <1>o, <1>6, <4>1
        <4>2. CASE q \notin DOMAIN log  BY <1>3, <1>6, <4>2
        <4> QED  BY <4>1, <4>2
      <3> QED  BY <3>1, <3>2, <3>3, <3>4 DEF Spans
    <2> QED  BY <2>1, <2>2
  <1>8. /\ PlacedIn(log') /\ Len(log') = Len(a) + Len(g)
        /\ \A p \in DOMAIN a : p \in DOMAIN log' /\ log'[p] = a[p]
        /\ \A p \in DOMAIN log' : p \in DOMAIN a \/ (p = Len(a) + 1 /\ Len(g) = 1 /\ log'[p] = g[1])
        /\ Len(g) = 1 => Len(a) + 1 \in DOMAIN log' /\ log'[Len(a) + 1] = g[1]
        /\ CountedIn(a, epoch, h + b) => CountedIn(log', epoch, h + b + Len(g))
    <2> DEFINE m == h + b
               l == log'
    <2>1. Adds(a, epoch, m, g, l)  BY <1>1, <1>4, <1>5, <1>6, <1>7, <1>s DEF Adds
    <2> HIDE DEF m, l
    <2>3. /\ PlacedIn(l) /\ Len(l) = Len(a) + Len(g)
          /\ \A p \in DOMAIN a : p \in DOMAIN l /\ l[p] = a[p]
          /\ \A p \in DOMAIN l : p \in DOMAIN a \/ (p = Len(a) + 1 /\ Len(g) = 1 /\ l[p] = g[1])
          /\ Len(g) = 1 => Len(a) + 1 \in DOMAIN l /\ l[Len(a) + 1] = g[1]
          /\ CountedIn(a, epoch, m) => CountedIn(l, epoch, m + Len(g))
      BY <2>1, PlacedAppends
    <2> QED  BY <2>3 DEF m, l
  <1>9. ring'.head = h + b + Len(g)
    <2>1. PICK r \in Retained(ring, f) : ring' \in Retained(r, g)  BY <1>5
    <2>2. Retains(r, a) /\ r.head = h + b
      <3>1. Len(f) = 1 => f[1].seq = ring.head + 1  BY <1>f DEF h
      <3> QED  BY <1>1, <1>3, <1>f, <2>1, <3>1, RetainedKeeps DEF AtMostOne, a, h
    <2>3. Len(g) = 1 => g[1].seq = r.head + 1  BY <1>4, <2>2
    <2> QED  BY <1>4, <2>1, <2>2, <2>3, RetainedKeeps DEF AtMostOne
  <1>10. Placed' /\ (Numbered => Numbered')  BY <1>6, <1>8, <1>9 DEF Placed, Numbered, h
  <1>11. Extended
    <2>1. \A p \in DOMAIN log : p \in DOMAIN log' /\ log'[p] = log[p]  BY <1>6, <1>8
    <2>2. ASSUME NEW p \in DOMAIN log', p \notin DOMAIN log PROVE log'[p].epoch = epoch /\ log'[p].seq > h
      <3>1. CASE Len(f) = 1 /\ log'[p] = f[1]  BY <3>1, <1>1, <1>f
      <3>2. CASE Len(g) = 1 /\ log'[p] = g[1]  BY <3>2, <1>1, <1>2, <1>4
      <3>3. p \in DOMAIN a => Len(f) = 1 /\ log'[p] = f[1]  BY <1>6, <1>8, <2>2
      <3>4. p \notin DOMAIN a => Len(g) = 1 /\ log'[p] = g[1]  BY <1>8
      <3> QED  BY <3>1, <3>2, <3>3, <3>4
    <2> QED  BY <2>1, <2>2 DEF Extended, h
  <1>e. Ending(rest)
    <2> SUFFICES ASSUME NEW p \in DOMAIN log', p \notin DOMAIN log, log'[p].kind \in Ends
                 PROVE  /\ Len(rest) = 1 /\ p = Len(log') /\ log'[p].kind = rest[1].kind
                        /\ log'[p].from = IF rest[1].from = 0 THEN p ELSE rest[1].from
      BY DEF Ending
    <2>1. CASE p \in DOMAIN a
      <3>1. Len(f) = 1 /\ log'[p] = f[1]  BY <1>6, <1>8, <2>1
      <3> QED  BY <1>3, <3>1
    <2>2. CASE p \notin DOMAIN a
      <3>1. p = Len(a) + 1 /\ Len(g) = 1 /\ log'[p] = g[1]  BY <1>8, <2>2
      <3>2. p = Len(log) + b + 1 /\ p = Len(log')  BY <1>6, <1>8, <3>1
      <3> QED  BY <1>4, <3>1, <3>2
    <2> QED  BY <2>1, <2>2
  <1>n. Len(rest) = 1 => Len(log') \in DOMAIN log'  BY <1>4, <1>8
  <1>12. Frames(f) \in Seq(Newly)
    <2>1. f \in Seq(Event) /\ \A k \in DOMAIN f : k = 1 /\ Len(f) = 1
      <3>1. f \in Seq(Event) /\ Len(f) \in Nat /\ Len(f) <= 1 /\ DOMAIN f = 1 .. Len(f)
        BY <1>f, LenProperties DEF AtMostOne
      <3> QED  BY <3>1
    <2>2. \A k \in DOMAIN f : f[k].pos \in DOMAIN log' /\ log'[f[k].pos] = f[k]  BY <1>f, <1>6, <1>8, <2>1
    <2> QED  BY <2>1, <2>2, EventFrames
  <1>13. Frames(g) \in Seq(Newly)
    <2>1. g \in Seq(Event) /\ \A k \in DOMAIN g : k = 1 /\ Len(g) = 1
      <3>1. g \in Seq(Event) /\ Len(g) \in Nat /\ Len(g) <= 1 /\ DOMAIN g = 1 .. Len(g)
        BY <1>4, LenProperties DEF AtMostOne
      <3> QED  BY <3>1
    <2>2. \A k \in DOMAIN g : g[k].pos \in DOMAIN log' /\ log'[g[k].pos] = g[k]  BY <1>7, <1>8, <2>1
    <2> QED  BY <2>1, <2>2, EventFrames
  <1>14. Frames(f) \o notice \o Frames(g) \in Seq(Newly)
    <2>1. Frames(f) \o notice \in Seq(Newly)  BY <1>12, ConcatProperties
    <2> QED  BY <1>13, <2>1, ConcatProperties
  <1>15. \E new \in Seq(Newly) : down' = down \o new  BY <1>5, <1>14, SentBehind
  <1> QED  BY <1>10, <1>11, <1>15, <1>e, <1>n

-----------------------------------------------------------------------------
(* The steps. *)

\* What a step keeps: the invariant, and every ended message and turn on display.
Keeps == ClientInv' /\ \A p \in c.shown : log[p].kind \in Ends => log[p].from .. p \subseteq c'.shown

\* What a client shows of ended messages and turns it shows as a whole.
LEMMA ShownWhole ==
  ASSUME ClientInv
  PROVE  \A p \in c.shown : log[p].kind \in Ends => log[p].from .. p \subseteq c.shown
  BY DEF ClientInv, View, Whole

\* A step that leaves the client alone and sends sound frames keeps the invariant.
LEMMA Sending ==
  ASSUME ClientInv, NodeInv', Placed', Stored', Fresh' => Fresh /\ Numbered', Extended,
         \E new \in Seq(Newly) : down' = down \o new, UNCHANGED clientVars, LinksOK'
  PROVE  Keeps
  <1>1. PICK new \in Seq(Newly) : down' = down \o new  OBVIOUS
  <1>2. c' = c /\ unseen' = unseen /\ c \in Store  BY DEF clientVars, ClientInv, TypeOK
  <1>3. c' \in Store /\ Matches(c', c) /\ c'.next = c.next  BY <1>2 DEF Matches
  <1>4. down \in {down, <<>>}  OBVIOUS
  <1>5. ClientInv'  BY <1>1, <1>2, <1>3, <1>4, StreamStep
  <1> QED  BY <1>2, <1>5, ShownWhole DEF Keeps

\* A step of the node that fans out.
LEMMA FanOutStep ==
  ASSUME ClientInv, NodeInv', NEW notice \in Seq(Newly), NEW rest, FanOut(Flushed, notice, rest),
         AtMostOne(rest), Settles(rest), epoch' = epoch,
         untold \subseteq untold', UNCHANGED clientVars, LinksOK'
  PROVE  Keeps
  <1>1. NodeInv /\ Placed /\ Stored /\ (Fresh => Numbered) /\ down \in Seq(Frame)  BY DEF ClientInv, TypeOK
  <1>r. Len(rest) = 1 => rest[1].epoch = epoch /\ rest[1].from \in {0, ended + 1}
    <2> SUFFICES ASSUME Len(rest) = 1 PROVE rest[1].epoch = epoch /\ rest[1].from \in {0, ended + 1}  OBVIOUS
    <2>1. PICK kind \in Kind, number \in Nat : rest = <<NewEvent(kind, number)>>  BY DEF Settles
    <2> QED  BY <2>1 DEF NewEvent
  <1>2. /\ Placed' /\ Extended /\ (Numbered => Numbered')
        /\ Ending(rest) /\ (Len(rest) = 1 => Len(log') \in DOMAIN log')
        /\ \E new \in Seq(Newly) : down' = down \o new
    BY <1>1, <1>r, FanOutSends
  <1>3. Fresh' => Fresh /\ Numbered'  BY <1>1, <1>2 DEF Fresh
  <1>4. Stored'  BY <1>1, <1>2, SettlesStored
  <1> QED  BY <1>2, <1>3, <1>4, Sending

\* The daemon starts a new epoch, and counts from 1 in it.
LEMMA RestartStep ==
  ASSUME ClientInv, NodeInv', Restart
  PROVE  Keeps
  <1>1. /\ epoch' = epoch + 1 /\ ring' = NoRing /\ log' = log /\ down' = down /\ UNCHANGED clientVars
        /\ untold' = untold /\ epoch \in Nat /\ Placed /\ Stored /\ (Fresh => Numbered) /\ down \in Seq(Frame)
        /\ ended' = Len(log) /\ kept' = kept
    BY DEF ClientInv, TypeOK, Restart
  <1>2. LinksOK'
    <2>1. /\ turn' = FALSE /\ link' = "broken" /\ sock' = sock /\ breaks' = breaks + 1 /\ up' = <<>>
          /\ untold' = untold
      BY DEF Restart
    <2>2. <<>> \in Seq(UpRequest)  BY EmptySeq
    <2>3. LinksOK /\ breaks \in Nat  BY DEF ClientInv, TypeOK, LinksOK
    <2>4. breaks' = breaks + 1  BY <2>1
    <2>5. breaks' \in Nat  BY <2>3, <2>4
    <2> QED  BY <2>1, <2>2, <2>3, <2>5 DEF LinksOK
  <1>3. Placed'  BY <1>1 DEF Placed
  <1>4. Fresh' => Fresh /\ Numbered'
    <2> SUFFICES ASSUME Fresh' PROVE Fresh /\ Numbered'  OBVIOUS
    <2>1. Fresh /\ Numbered  BY <1>1 DEF Fresh
    <2>2. \A p \in DOMAIN log : log[p].epoch \in Nat /\ log[p].epoch <= epoch
      <3>1. \A p \in DOMAIN log : log[p] \in Event  BY <1>1, LenProperties, ElementOfSeq DEF Placed, PlacedIn
      <3> QED  BY <2>1, <3>1 DEF Numbered, CountedIn, Event
    <2>3. \A p \in DOMAIN log : log[p].epoch <= epoch + 1 /\ log[p].epoch # epoch + 1  BY <1>1, <2>2
    <2>4. CountedIn(log, epoch + 1, 0)  BY <2>1, <2>3 DEF Numbered, CountedIn
    <2>5. ring'.head = 0  BY <1>1 DEF NoRing
    <2> QED  BY <1>1, <2>1, <2>4, <2>5 DEF Numbered
  <1>5. Extended  BY <1>1 DEF Extended
  <1>s. Stored'
    <2>1. kept \subseteq DOMAIN log /\ ended \in 0 .. Len(log) /\ Len(log) \in Nat
      BY <1>1, LenProperties DEF Stored, Holds, Placed, PlacedIn
    <2>2. ended' \in ended .. Len(log')  BY <1>1, <2>1
    <2> QED  BY <1>1, <1>3, <1>5, <2>1, <2>2, StoredStays
  <1>6. \E new \in Seq(Newly) : down' = down \o new
    <2>1. <<>> \in Seq(Newly) /\ down \o <<>> = down  BY <1>1, EmptySeq, ConcatEmptySeq
    <2> QED  BY <1>1, <2>1
  <1> QED  BY <1>1, <1>2, <1>3, <1>4, <1>5, <1>s, <1>6, Sending

\* A close flushes the pending update and restarts seq, after which nothing is
\* promised of it.
LEMMA CloseStep ==
  ASSUME ClientInv, NodeInv', Close
  PROVE  Keeps
  <1> DEFINE f == Stamped(Flushed, 0)
             closed == [t |-> "closed"]
             l == log'
  <1>1. /\ log' = log \o f /\ down' = Sent(Append(Frames(f), closed)) /\ UNCHANGED clientVars
        /\ untold' = untold \union {"new stream"} /\ NodeInv /\ Placed /\ Stored /\ down \in Seq(Frame)
        /\ ring.head \in Nat /\ kept' = kept /\ ended' = ended
    BY DEF ClientInv, TypeOK, Close
  <1>2. LinksOK'
    <2>1. turn' = turn /\ link' = link /\ sock' = sock /\ breaks' = breaks + 1 /\ up' = up  BY DEF Close
    <2>2. untold' \in SUBSET {"outage", "new stream"}  BY <1>1 DEF ClientInv, TypeOK
    <2>3. LinksOK /\ breaks \in Nat  BY DEF ClientInv, TypeOK, LinksOK
    <2>4. breaks' = breaks + 1  BY <2>1
    <2>5. breaks' \in Nat  BY <2>3, <2>4
    <2> QED  BY <2>1, <2>2, <2>3, <2>5 DEF LinksOK
  <1>3. ~Fresh'  BY <1>1 DEF Fresh
  <1>4. Adds(log, epoch, ring.head, f, l) /\ (Len(f) = 1 => f[1].kind \notin Ends)
    <2>1. l = log \o f  BY <1>1
    <2> HIDE DEF l
    <2>2. Adds(log, epoch, ring.head, f, l) /\ Len(f) = Len(Flushed) /\ (Len(Flushed) = 1 => f[1].kind \notin Ends)
      BY <1>1, <2>1, FlushedAdds
    <2> HIDE DEF f
    <2> QED  BY <2>2
  <1> HIDE DEF f, closed, l
  <1>5. /\ PlacedIn(l)
        /\ \A p \in DOMAIN log : p \in DOMAIN l /\ l[p] = log[p]
        /\ \A p \in DOMAIN l : p \in DOMAIN log \/ (p = Len(log) + 1 /\ Len(f) = 1 /\ l[p] = f[1])
        /\ Len(f) = 1 => Len(log) + 1 \in DOMAIN l /\ l[Len(log) + 1] = f[1]
    BY <1>4, PlacedAppends
  <1>6. AtMostOne(f) /\ (Len(f) = 1 => f[1].seq = ring.head + 1 /\ f[1].epoch = epoch /\ f[1].pos = Len(log) + 1)
    BY <1>4 DEF Adds
  <1>7. Placed'  BY <1>5 DEF Placed, l
  <1>8. Extended
    <2>1. ASSUME NEW p \in DOMAIN l, p \notin DOMAIN log PROVE l[p].epoch = epoch /\ l[p].seq > ring.head
      <3>1. l[p].epoch = epoch /\ l[p].seq = ring.head + 1  BY <1>5, <1>6, <2>1
      <3>2. ring.head \in Nat  BY <1>1
      <3> QED  BY <3>1, <3>2
    <2> QED  BY <1>5, <2>1 DEF Extended, l
  <1>s. Stored'
    <2>1. kept \subseteq DOMAIN log /\ ended \in 0 .. Len(log) /\ Len(log) \in Nat /\ Len(l) \in Nat
          /\ DOMAIN log = 1 .. Len(log) /\ DOMAIN l = 1 .. Len(l)
      BY <1>1, <1>5, LenProperties DEF Stored, Holds, Placed, PlacedIn
    <2>2. ended \in 0 .. Len(l)
      <3>1. ended # 0 => ended \in DOMAIN l  BY <1>5, <2>1
      <3> QED  BY <2>1, <3>1
    <2>3. ended' \in ended .. Len(l) /\ kept' = kept /\ kept \subseteq DOMAIN l
      <3>1. kept \subseteq DOMAIN l  BY <1>5, <2>1
      <3>2. \A k, n \in Int : k \in 0 .. n => k \in k .. n  OBVIOUS
      <3>3. ended \in Int /\ Len(l) \in Int  BY <2>1, <2>2
      <3>4. ended \in ended .. Len(l)  BY <2>2, <3>2, <3>3
      <3>5. ended' = ended /\ kept' = kept  BY <1>1
      <3> QED  BY <3>1, <3>4, <3>5
    <2>4. \A p \in DOMAIN l \ DOMAIN log : l[p].kind \notin Ends  BY <1>4, <1>5
    <2> QED  BY <1>1, <1>7, <1>8, <2>3, <2>4, StoredStays DEF l
  <1>9. Frames(f) \in Seq(Newly)
    <2>1. f \in Seq(Event) /\ \A k \in DOMAIN f : k = 1 /\ Len(f) = 1
      <3>1. f \in Seq(Event) /\ Len(f) \in Nat /\ Len(f) <= 1 /\ DOMAIN f = 1 .. Len(f)
        BY <1>6, LenProperties DEF AtMostOne
      <3> QED  BY <3>1
    <2>2. \A k \in DOMAIN f : f[k].pos \in DOMAIN log' /\ log'[f[k].pos] = f[k]  BY <1>5, <1>6, <2>1 DEF l
    <2> QED  BY <2>1, <2>2, EventFrames
  <1>10. Append(Frames(f), closed) \in Seq(Newly)
    <2>1. closed \in Frame /\ closed.t = "closed"  BY DEF closed, Frame
    <2>2. <<closed>> \in Seq(Newly)  BY <2>1, PlainFrames
    <2>3. closed \in Newly
      <3>1. 1 \in 1 .. Len(<<closed>>) /\ <<closed>>[1] = closed  OBVIOUS
      <3> QED  BY <2>2, <3>1, ElementOfSeq
    <2> QED  BY <1>9, <2>3, AppendProperties
  <1>11. \E new \in Seq(Newly) : down' = down \o new  BY <1>1, <1>10, SentBehind DEF f, closed
  <1> QED  BY <1>1, <1>2, <1>3, <1>7, <1>8, <1>s, <1>11, Sending

\* A replay is made of events of the stream.
LEMMA ReplayGenuine ==
  ASSUME NodeInv, Placed, NEW after \in Nat
  PROVE  /\ ReplayTail(ring, after) \in Seq(Event)
         /\ \A k \in DOMAIN ReplayTail(ring, after) : Genuine(ReplayTail(ring, after)[k])
  <1> DEFINE es == ring.entries
             n == Len(ring.entries)
             dropped == {k \in DOMAIN es : es[k].seq <= after}
             m == Cardinality(dropped) + 1
             z == ReplayTail(ring, after)
             o == Len(log) - n
  <1>1. /\ es \in Seq(Event) /\ n \in Nat /\ DOMAIN es = 1 .. n /\ n <= Len(log) /\ Len(log) \in Nat
        /\ DOMAIN log = 1 .. Len(log) /\ \A k \in 1 .. n : es[k] = log[o + k]
    BY LenProperties DEF NodeInv, Retains
  <1>2. m \in Nat /\ m >= 1
    <2>1. IsFiniteSet(1 .. n)  BY FS_Interval
    <2>2. dropped \subseteq 1 .. n  BY <1>1
    <2>3. IsFiniteSet(dropped)  BY <2>1, <2>2, FS_Subset
    <2> HIDE DEF dropped
    <2>4. Cardinality(dropped) \in Nat  BY <2>3, FS_CardinalityType
    <2> QED  BY <2>4
  <1>3. z = SubSeq(es, m, n)  BY DEF ReplayTail, Since
  <1>4. \A k \in 1 .. n : es[k] \in Event /\ Genuine(es[k])
    <2> TAKE k \in 1 .. n
    <2>1. es[k] \in Event /\ es[k] = log[o + k]  BY <1>1, ElementOfSeq
    <2>2. o + k \in DOMAIN log  BY <1>1
    <2>3. log[o + k].pos = o + k  BY <2>2 DEF Placed, PlacedIn
    <2> QED  BY <2>1, <2>2, <2>3 DEF Genuine
  <1> HIDE DEF es, n, m, z
  <1>5. \A i \in m .. n : i \in 1 .. n /\ es[i] \in Event  BY <1>1, <1>2, <1>4
  <1>6. /\ SubSeq(es, m, n) \in Seq(Event)
        /\ Len(SubSeq(es, m, n)) = IF m <= n THEN n - m + 1 ELSE 0
        /\ \A i \in 1 .. n - m + 1 : SubSeq(es, m, n)[i] = es[m + i - 1]
    <2>1. m \in Int /\ n \in Int  BY <1>1, <1>2
    <2> QED  BY <1>5, <2>1, SubSeqProperties
  <1>7. z \in Seq(Event) /\ Len(z) = (IF m <= n THEN n - m + 1 ELSE 0) /\ \A i \in 1 .. n - m + 1 : z[i] = es[m + i - 1]
    BY <1>3, <1>6
  <1>8. DOMAIN z = 1 .. Len(z)  BY <1>7, LenProperties
  <1>9. ASSUME NEW k \in DOMAIN z PROVE Genuine(z[k])
    <2> DEFINE l == Len(z)
    <2>0. k \in 1 .. l /\ l = (IF m <= n THEN n - m + 1 ELSE 0) /\ n \in Nat  BY <1>1, <1>7, <1>8
    <2> HIDE DEF l
    <2>1. k \in 1 .. n - m + 1 /\ m + k - 1 \in 1 .. n  BY <1>2, <2>0
    <2> QED  BY <2>1, <1>4, <1>7
  <1> QED  BY <1>7, <1>9 DEF z

\* session.replay sends sound frames.
LEMMA ServeReplayStep ==
  ASSUME ClientInv, NodeInv', ServeReplay
  PROVE  Keeps
  <1> DEFINE after == Head(up).after
             reset == Evicted(ring, after)
             events == IF reset THEN <<>> ELSE ReplayTail(ring, after)
             f == [t |-> "replay", reset |-> reset, events |-> events]
  <1>1. /\ NodeInv /\ Placed /\ Stored /\ (Fresh => Numbered) /\ down \in Seq(Frame) /\ up \in Seq(UpRequest) /\ LinksOK
    BY DEF ClientInv, TypeOK, LinksOK
  <1>2. /\ up # <<>> /\ Head(up).t = "replay" /\ down' = Sent(<<f>>) /\ up' = Tail(up)
        /\ UNCHANGED nodeVars /\ UNCHANGED linkVars /\ UNCHANGED clientVars
    BY DEF ServeReplay
  <1>3. /\ epoch' = epoch /\ ring' = ring /\ log' = log /\ turn' = turn /\ kept' = kept /\ ended' = ended
        /\ link' = link /\ sock' = sock /\ breaks' = breaks /\ untold' = untold
    BY <1>2 DEF nodeVars, linkVars
  <1>4. Placed' /\ Stored' /\ (Fresh' => Fresh /\ Numbered') /\ Extended  BY <1>1, <1>3, SameStream
  <1>5. Tail(up) \in Seq(UpRequest) /\ Head(up) \in UpRequest  BY <1>1, <1>2, HeadTailProperties
  <1>6. LinksOK'  BY <1>1, <1>2, <1>3, <1>5 DEF LinksOK
  <1>7. after \in Nat  BY <1>2, <1>5 DEF UpRequest
  <1> HIDE DEF after
  <1>8. events \in Seq(Event) /\ \A k \in DOMAIN events : Genuine(events[k])
    <2>1. CASE reset
      <3>1. events = <<>>  BY <2>1
      <3>2. <<>> \in Seq(Event) /\ DOMAIN <<>> = {}  BY EmptySeq
      <3> HIDE DEF events
      <3> QED  BY <3>1, <3>2
    <2>2. CASE ~reset  BY <1>1, <1>7, <2>2, ReplayGenuine
    <2> QED  BY <2>1, <2>2
  <1>9. reset \in BOOLEAN  BY DEF Evicted
  <1> HIDE DEF reset, events
  <1>10. f \in Frame /\ f.t = "replay" /\ f.events = events  BY <1>8, <1>9 DEF Frame
  <1> HIDE DEF f
  <1>11. f \in Newly
    <2>1. \A x : x.t = "replay" /\ (\A k \in DOMAIN x.events : Genuine(x.events[k])) => Sound(x)'
      <3> TAKE x
      <3> HAVE x.t = "replay" /\ \A k \in DOMAIN x.events : Genuine(x.events[k])
      <3>1. \A k \in DOMAIN x.events : Genuine(x.events[k])'  BY <1>3 DEF Genuine
      <3> QED  BY <3>1 DEF Sound
    <2> QED  BY <1>8, <1>10, <2>1 DEF Newly
  <1>12. <<f>> \in Seq(Newly)  BY <1>11
  <1>13. \E new \in Seq(Newly) : down' = down \o new  BY <1>1, <1>2, <1>12, SentBehind DEF f, reset, events, after
  <1> QED  BY <1>2, <1>4, <1>6, <1>13, Sending

\* history sends a snapshot of the stream as it is.
LEMMA ServeHistoryStep ==
  ASSUME ClientInv, NodeInv', ServeHistory
  PROVE  Keeps
  <1> DEFINE f == [t |-> "history", base |-> Head(up).have, count |-> Messages, kept |-> kept, len |-> Len(log),
                   head |-> ring.head, epoch |-> epoch, busy |-> turn]
  <1>1. /\ Placed /\ Stored /\ (Fresh => Numbered) /\ down \in Seq(Frame) /\ up \in Seq(UpRequest) /\ LinksOK
        /\ ring.head \in Nat /\ epoch \in Nat /\ turn \in BOOLEAN
    BY DEF ClientInv, TypeOK, LinksOK
  <1>2. /\ up # <<>> /\ Head(up).t = "history" /\ down' = Sent(<<f>>) /\ up' = Tail(up)
        /\ UNCHANGED nodeVars /\ UNCHANGED linkVars /\ UNCHANGED clientVars
    BY DEF ServeHistory
  <1>3. /\ epoch' = epoch /\ ring' = ring /\ log' = log /\ turn' = turn /\ kept' = kept /\ ended' = ended
        /\ link' = link /\ sock' = sock /\ breaks' = breaks /\ untold' = untold
    BY <1>2 DEF nodeVars, linkVars
  <1>4. Placed' /\ Stored' /\ (Fresh' => Fresh /\ Numbered') /\ Extended  BY <1>1, <1>3, SameStream
  <1>5. Tail(up) \in Seq(UpRequest) /\ Head(up) \in UpRequest  BY <1>1, <1>2, HeadTailProperties
  <1>6. LinksOK'  BY <1>1, <1>2, <1>3, <1>5 DEF LinksOK
  <1>7. Head(up).have \in Nat  BY <1>2, <1>5 DEF UpRequest
  <1>8. Len(log) \in Nat /\ DOMAIN log = 1 .. Len(log)  BY <1>1, LenProperties DEF Placed, PlacedIn
  <1>h. kept \in SUBSET Nat /\ Holds(kept, Len(log))  BY <1>1, <1>8 DEF Stored, Holds
  <1>m. Messages \in Nat
    <2> DEFINE ms == {p \in kept : log[p].kind = "message_end"}
    <2>1. IsFiniteSet(1 .. Len(log))  BY <1>8, FS_Interval
    <2>2. ms \subseteq 1 .. Len(log)  BY <1>h DEF Holds
    <2> HIDE DEF ms
    <2>3. IsFiniteSet(ms)  BY <2>1, <2>2, FS_Subset
    <2>4. Cardinality(ms) \in Nat  BY <2>3, FS_CardinalityType
    <2> QED  BY <2>4 DEF Messages, ms
  <1>9. /\ f \in Frame /\ f.t = "history" /\ f.len = Len(log) /\ f.head = ring.head /\ f.epoch = epoch
        /\ f.kept = kept
    BY <1>1, <1>7, <1>8, <1>h, <1>m DEF Frame
  <1> HIDE DEF f
  <1>10. f \in Newly
    <2>1. Fresh => Covers(f)
      <3> SUFFICES ASSUME Fresh PROVE Covers(f)  OBVIOUS
      <3>1. Numbered  BY <1>1
      <3>2. ring.head > 0 => Len(log) > 0 /\ log[Len(log)].epoch = epoch /\ log[Len(log)].seq = ring.head
        BY <3>1 DEF Numbered, CountedIn
      <3>3. \A p \in DOMAIN log : log[p].epoch = epoch => log[p].seq <= ring.head /\ p <= Len(log)
        BY <1>8, <3>1 DEF Numbered, CountedIn
      <3> QED  BY <1>9, <3>2, <3>3 DEF Covers
    <2>2. \A x : x.t = "history" /\ x.len = Len(log) /\ x.kept = kept /\ (Fresh => Covers(x)) => Sound(x)'
      <3> TAKE x
      <3> HAVE x.t = "history" /\ x.len = Len(log) /\ x.kept = kept /\ (Fresh => Covers(x))
      <3>1. Fresh' => Covers(x)'  BY <1>3 DEF Fresh, Covers
      <3>2. x.len <= Len(log')  BY <1>3, <1>8
      <3>3. Holds(x.kept, x.len)'  BY <1>3, <1>h DEF Holds
      <3> QED  BY <3>1, <3>2, <3>3 DEF Sound
    <2> QED  BY <1>3, <1>9, <2>1, <2>2 DEF Newly
  <1>11. <<f>> \in Seq(Newly)  BY <1>10
  <1>12. \E new \in Seq(Newly) : down' = down \o new  BY <1>1, <1>2, <1>11, SentBehind DEF f
  <1> QED  BY <1>2, <1>4, <1>6, <1>12, Sending

\* A link that breaks, comes back or is noticed to be gone sends only frames that
\* show nothing; a client that drops loses what is in transit and keeps its view.
LEMMA LinkStep ==
  ASSUME ClientInv, NodeInv', UplinkBreaks \/ PeerOffline \/ Redial \/ ClientDrops \/ ClientReturns
  PROVE  Keeps
  <1>1. /\ Placed /\ Stored /\ (Fresh => Numbered) /\ down \in Seq(Frame) /\ LinksOK /\ breaks \in Nat /\ c \in Store
        /\ <<>> \in Seq(UpRequest)
    <2>1. <<>> \in Seq(UpRequest)  BY EmptySeq
    <2> QED  BY <2>1 DEF ClientInv, TypeOK, LinksOK
  <1>2. UNCHANGED nodeVars /\ untold \subseteq untold'
    BY DEF UplinkBreaks, PeerOffline, Redial, ClientDrops, ClientReturns
  <1>3. epoch' = epoch /\ ring' = ring /\ log' = log /\ turn' = turn /\ kept' = kept /\ ended' = ended
    BY <1>2 DEF nodeVars
  <1>4. Placed' /\ Stored' /\ (Fresh' => Fresh /\ Numbered') /\ Extended  BY <1>1, <1>2, <1>3, SameStream
  <1>5. <<>> \in Seq(Newly) /\ down \o <<>> = down  BY <1>1, EmptySeq, ConcatEmptySeq
  <1>6. <<[t |-> "offline"]>> \in Seq(Newly) /\ <<[t |-> "online"]>> \in Seq(Newly)
        /\ [t |-> "offline"] \in Frame /\ [t |-> "online"] \in Frame
    <2> DEFINE x == [t |-> "offline"]
               y == [t |-> "online"]
    <2>1. x \in Frame /\ y \in Frame /\ x.t = "offline" /\ y.t = "online"  BY DEF Frame
    <2> HIDE DEF x, y
    <2>2. <<x>> \in Seq(Newly) /\ <<y>> \in Seq(Newly)  BY <2>1, PlainFrames
    <2> QED  BY <2>1, <2>2 DEF x, y
  <1>7. CASE UplinkBreaks
    <2>1. /\ link' = "broken" /\ up' = <<>> /\ breaks' = breaks + 1 /\ sock' = sock /\ down' = down
          /\ untold' = untold /\ UNCHANGED clientVars
      BY <1>7 DEF UplinkBreaks
    <2>2. breaks' = breaks + 1 /\ breaks \in Nat  BY <1>1, <2>1
    <2>3. breaks' \in Nat  BY <2>2
    <2>4. LinksOK'  BY <1>1, <1>3, <2>1, <2>3 DEF LinksOK
    <2>5. \E new \in Seq(Newly) : down' = down \o new  BY <1>5, <2>1
    <2> QED  BY <1>4, <2>1, <2>4, <2>5, Sending
  <1>8. ASSUME NEW x, x \in Frame, <<x>> \in Seq(Newly), down' = IF sock THEN Append(down, x) ELSE down
        PROVE  \E new \in Seq(Newly) : down' = down \o new
    <2>1. CASE sock
      <3>1. Append(down, x) = down \o <<x>>  BY <1>1, <1>8, AppendIsConcat
      <3> QED  BY <1>8, <2>1, <3>1
    <2>2. CASE ~sock  BY <1>5, <1>8, <2>2
    <2> QED  BY <2>1, <2>2
  <1>9. CASE PeerOffline
    <2>1. /\ link' = "gone" /\ up' = up /\ breaks' = breaks /\ sock' = sock
          /\ down' = IF sock THEN Append(down, [t |-> "offline"]) ELSE down
          /\ untold' = untold /\ UNCHANGED clientVars
      BY <1>9 DEF PeerOffline
    <2>2. LinksOK'  BY <1>1, <1>3, <2>1 DEF LinksOK
    <2>3. \E new \in Seq(Newly) : down' = down \o new  BY <1>6, <1>8, <2>1
    <2> QED  BY <1>4, <2>1, <2>2, <2>3, Sending
  <1>10. CASE Redial
    <2>1. /\ link' = "up" /\ up' = up /\ breaks' = breaks /\ sock' = sock
          /\ down' = IF sock THEN Append(down, [t |-> "online"]) ELSE down
          /\ untold' = (IF link = "broken" THEN untold \union {"outage"} ELSE untold) /\ UNCHANGED clientVars
      BY <1>10 DEF Redial
    <2>2. untold' \in SUBSET {"outage", "new stream"}  BY <1>1, <2>1 DEF LinksOK
    <2>3. LinksOK'  BY <1>1, <1>3, <2>1, <2>2 DEF LinksOK
    <2>4. down' = IF sock THEN Append(down, [t |-> "online"]) ELSE down  BY <2>1
    <2>5. \E new \in Seq(Newly) : down' = down \o new  BY <1>6, <1>8, <2>4
    <2> QED  BY <1>4, <2>1, <2>3, <2>5, Sending
  <1>11. CASE ClientDrops
    <2>1. /\ sock' = FALSE /\ breaks' = breaks + 1 /\ down' = <<>> /\ up' = <<>> /\ c' = Interrupted(c)
          /\ link' = link /\ unseen' = unseen /\ untold' = untold
      BY <1>11 DEF ClientDrops
    <2>2. breaks' = breaks + 1 /\ breaks \in Nat  BY <1>1, <2>1
    <2>3. breaks' \in Nat  BY <2>2
    <2>4. LinksOK'  BY <1>1, <1>3, <2>1, <2>3 DEF LinksOK
    <2>5. Interrupted(c) \in Store /\ Matches(Interrupted(c), c) /\ Interrupted(c).next = c.next
      BY <1>1 DEF Interrupted, Store, Matches
    <2>6. c' \in Store /\ Matches(c', c) /\ c'.next = c.next /\ c.shown = c'.shown  BY <2>1, <2>5 DEF Matches
    <2>7. down' = <<>> \o <<>> /\ <<>> \in {down, <<>>}
      <3>1. <<>> \o <<>> = <<>>  BY <1>5, ConcatEmptySeq
      <3> QED  BY <2>1, <3>1
    <2>8. ClientInv'  BY <1>4, <1>5, <2>1, <2>4, <2>6, <2>7, StreamStep
    <2> QED  BY <2>6, <2>8, ShownWhole DEF Keeps
  <1>12. CASE ClientReturns
    <2>1. /\ sock' = TRUE /\ breaks' = breaks /\ down' = <<[t |-> "online"]>> /\ up' = up
          /\ link' = link /\ untold' = untold /\ UNCHANGED clientVars
      BY <1>12 DEF ClientReturns
    <2>2. LinksOK'  BY <1>1, <1>3, <2>1 DEF LinksOK
    <2>3. c' = c /\ unseen' = unseen  BY <2>1 DEF clientVars
    <2>4. c' \in Store /\ Matches(c', c) /\ c'.next = c.next  BY <1>1, <2>3 DEF Matches
    <2> DEFINE new == <<[t |-> "online"]>>
    <2>5. new \in Seq(Newly) /\ down' = new  BY <1>6, <2>1
    <2> HIDE DEF new
    <2>6. down' = <<>> \o new /\ <<>> \in {down, <<>>}
      <3>1. <<>> \o new = new  BY <2>5, ConcatEmptySeq
      <3> QED  BY <2>5, <3>1
    <2>7. ClientInv'  BY <1>4, <2>2, <2>3, <2>4, <2>5, <2>6, StreamStep
    <2> QED  BY <2>3, <2>7, ShownWhole DEF Keeps
  <1> QED  BY <1>7, <1>9, <1>10, <1>11, <1>12

\* The client receives a frame.
LEMMA ReceiveStep ==
  ASSUME ClientInv, NodeInv', Receive
  PROVE  Keeps
  <1> DEFINE w == [s |-> c, out |-> <<>>, lost |-> unseen]
             st == Reduce(w, Head(down))
             d == Tail(down)
  <1>1. /\ NodeInv /\ Placed /\ Stored /\ (Fresh => Numbered) /\ InTransit(down) /\ View(c, unseen, Known(down))
        /\ down \in Seq(Frame) /\ c \in Store /\ unseen \in SUBSET Nat /\ up \in Seq(UpRequest) /\ LinksOK
    BY DEF ClientInv, TypeOK, LinksOK
  <1>2. /\ down # <<>> /\ c' = st.s /\ unseen' = st.lost /\ up' = Asked(st.out) /\ down' = d
        /\ UNCHANGED nodeVars /\ UNCHANGED linkVars
    BY DEF Receive
  <1>3. /\ epoch' = epoch /\ ring' = ring /\ log' = log /\ turn' = turn /\ kept' = kept /\ ended' = ended
        /\ link' = link /\ sock' = sock /\ breaks' = breaks /\ untold' = untold
    BY <1>2 DEF nodeVars, linkVars
  <1>4. w \in Work /\ w.s = c /\ w.lost = unseen
    <2>1. <<>> \in Seq(UpRequest)  BY EmptySeq
    <2> QED  BY <1>1, <2>1 DEF Work
  <1> HIDE DEF w
  <1>5. st \in Views(Known(d), Settled(c.shown))
    <2>1. View(w.s, w.lost, Known(down))  BY <1>1, <1>4
    <2>2. Reduce(w, Head(down)) \in Views(Known(Tail(down)), Settled(w.s.shown))  BY <1>1, <1>2, <1>4, <2>1, ReduceStays
    <2> QED  BY <1>4, <2>2
  <1>6. InTransit(d) /\ d \in Seq(Frame)  BY <1>1, <1>2, KnownGrows
  <1> HIDE DEF st, d
  <1>7. st \in Work /\ Settled(c.shown) \subseteq st.s.shown /\ View(st.s, st.lost, Known(d))  BY <1>5 DEF Views
  <1>8. st.s \in Store /\ st.out \in Seq(UpRequest) /\ st.lost \in SUBSET Nat  BY <1>7 DEF Work
  <1>9. up' \in Seq(UpRequest)
    <2>1. up \o st.out \in Seq(UpRequest)  BY <1>1, <1>8, ConcatProperties
    <2> QED  BY <1>1, <1>2, <2>1 DEF Asked
  <1>10. LinksOK'  BY <1>1, <1>3, <1>9 DEF LinksOK
  <1>11. TypeOK'
    <2>1. epoch' \in Nat /\ ring'.head \in Nat /\ ring'.entries \in Seq(Event) /\ log' \in Seq(Event)
          /\ made' \in Nat /\ pending' \in Nat
      BY DEF NodeInv, Retains, Ordered
    <2>2. kept' \in SUBSET Nat /\ ended' \in Nat  BY <1>3 DEF ClientInv, TypeOK
    <2> QED  BY <1>2, <1>6, <1>8, <1>10, <2>1, <2>2 DEF TypeOK, LinksOK
  <1>12. Placed' /\ Stored' /\ (Fresh' => Numbered')
    <2>1. untold \subseteq untold'  BY <1>3
    <2> QED  BY <1>1, <1>3, <2>1, SameStream
  <1>13. Fresh' <=> Fresh  BY <1>3 DEF Fresh
  <1>14. InTransit(down)'
    <2>1. \A f : Sound(f) => Sound(f)'  BY <1>3, <1>13 DEF Sound, Genuine, Covers, Holds
    <2>2. \A i \in DOMAIN d : \A f : f = d[i] => Sound(f)'  BY <1>6, <2>1 DEF InTransit
    <2>3. \A i \in DOMAIN down' : Sound(down[i])'
      <3> TAKE i \in DOMAIN down'
      <3>1. \A f : f = down'[i] => Sound(f)'  BY <1>2, <2>2
      <3> QED  BY <3>1 DEF Sound, Genuine, Covers, Holds
    <2>4. \A i, j \in DOMAIN down' : i < j /\ down'[j].t = "history" =>
            \A p \in DOMAIN log' : Shows(down[i], p)' => p <= down'[j].len
      BY <1>2, <1>3, <1>6 DEF InTransit, Shows
    <2> QED  BY <2>3, <2>4 DEF InTransit
  <1>15. View(c, unseen, Known(down))'
    <2>1. Known(down)' = Known(d)  BY <1>2, <1>3 DEF Known
    <2>2. \A s, l, X : View(s, l, X) => View(s, l, X)'
      BY <1>3, <1>13 DEF View, Exact, Reached, Genuine, Whole, Partial
    <2>3. \A s, l, X : s = st.s /\ l = st.lost /\ X = Known(d) => View(s, l, X)'  BY <1>7, <2>2
    <2>4. \A s, l, X : s = c' /\ l = unseen' /\ X = Known(down)' => View(s, l, X)'  BY <1>2, <2>1, <2>3
    <2> QED  BY <2>4 DEF View, Exact, Reached, Genuine, Whole, Partial
  <1>16. ClientInv'  BY <1>11, <1>12, <1>14, <1>15 DEF ClientInv
  <1> QED  BY <1>2, <1>7, <1>16 DEF Keeps, Settled

\* Every step keeps the invariant and what is on display of ended messages and turns.
LEMMA ClientStep ==
  ASSUME ClientInv, [Next]_vars
  PROVE  Keeps
  <1>1. NodeInv'
    <2>1. NodeInv  BY DEF ClientInv
    <2> QED  BY <2>1, NodeStep
  <1>2. /\ NodeInv /\ Placed /\ Stored /\ (Fresh => Numbered) /\ down \in Seq(Frame) /\ LinksOK /\ breaks \in Nat
        /\ epoch \in Nat /\ ended \in Nat /\ pending \in Nat /\ made \in Nat /\ turn \in BOOLEAN
    BY DEF ClientInv, TypeOK, LinksOK
  <1>3. <<>> \in Seq(Newly) /\ down \o <<>> = down  BY <1>2, EmptySeq, ConcatEmptySeq
  <1>4. AtMostOne(<<>>) /\ Len(<<>>) # 1
    <2>1. <<>> \in Seq(Event) /\ Len(<<>>) = 0  BY EmptySeq
    <2> QED  BY <2>1 DEF AtMostOne
  <1>5. CASE AgentUpdate
    <2>1. /\ epoch' = epoch /\ ring' = ring /\ log' = log /\ turn' = turn /\ UNCHANGED linkVars
          /\ kept' = kept /\ ended' = ended
          /\ down' = down /\ up' = up /\ UNCHANGED clientVars
      BY <1>5 DEF AgentUpdate
    <2>2. link' = link /\ sock' = sock /\ breaks' = breaks /\ untold' = untold  BY <2>1 DEF linkVars
    <2>3. LinksOK'  BY <1>2, <2>1, <2>2 DEF LinksOK
    <2>4. untold \subseteq untold'  BY <2>2
    <2>5. Placed' /\ Stored' /\ (Fresh' => Fresh /\ Numbered') /\ Extended  BY <1>2, <2>1, <2>4, SameStream
    <2>6. \E new \in Seq(Newly) : down' = down \o new  BY <1>3, <2>1
    <2> QED  BY <1>1, <2>1, <2>3, <2>5, <2>6, Sending
  <1>6. CASE CoalescerFires
    <2>1. /\ FanOut(Flushed, <<>>, <<>>) /\ epoch' = epoch /\ turn' = turn /\ UNCHANGED linkVars /\ up' = up
          /\ UNCHANGED clientVars /\ UNCHANGED <<kept, ended>>
      BY <1>6 DEF CoalescerFires
    <2>2. link' = link /\ sock' = sock /\ breaks' = breaks /\ untold' = untold  BY <2>1 DEF linkVars
    <2>3. LinksOK' /\ untold \subseteq untold'  BY <1>2, <2>1, <2>2 DEF LinksOK
    <2> DEFINE none == <<>>
    <2>4. /\ none \in Seq(Newly) /\ AtMostOne(none) /\ Settles(none) /\ FanOut(Flushed, none, none)
      BY <1>3, <1>4, <2>1 DEF Settles
    <2> HIDE DEF none
    <2> QED  BY <1>1, <2>1, <2>3, <2>4, FanOutStep
  <1>7. ASSUME NEW kind \in Kind, AgentEvent(kind) PROVE Keeps
    <2> DEFINE number == made + 1
               rest == <<NewEvent(kind, number)>>
               notice == StateNotice(turn')
    <2>1. /\ FanOut(Flushed, notice, rest) /\ epoch' = epoch /\ turn' = (kind # "agent_end")
          /\ UNCHANGED linkVars /\ up' = up /\ UNCHANGED clientVars /\ Settle(kind)
      BY <1>7 DEF AgentEvent
    <2>2. link' = link /\ sock' = sock /\ breaks' = breaks /\ untold' = untold  BY <2>1 DEF linkVars
    <2>3. turn' \in BOOLEAN  BY <2>1
    <2>4. LinksOK' /\ untold \subseteq untold'  BY <1>2, <2>1, <2>2, <2>3 DEF LinksOK
    <2>5. number \in Nat  BY <1>2
    <2> HIDE DEF number
    <2>6. AtMostOne(rest) /\ Settles(rest)
      <3>1. AtMostOne(rest)  BY <1>2, <2>5, NewEventType
      <3> QED  BY <2>1, <2>5, <3>1 DEF Settles
    <2>7. notice \in Seq(Newly)
      <3>1. CASE turn' = turn  BY <3>1, <1>3 DEF StateNotice
      <3>2. CASE turn' # turn
        <4> DEFINE x == [t |-> "state", busy |-> turn']
        <4>1. x \in Frame /\ x.t = "state"  BY <2>3 DEF Frame
        <4>2. notice = <<x>>  BY <3>2 DEF StateNotice
        <4> HIDE DEF x, notice
        <4> QED  BY <4>1, <4>2, PlainFrames
      <3> QED  BY <3>1, <3>2
    <2> HIDE DEF rest, notice
    <2> QED  BY <1>1, <2>1, <2>4, <2>6, <2>7, FanOutStep
  <1>8. CASE Detach
    <2> DEFINE x == [t |-> "closed"]
               none == <<>>
               notice == <<x>>
    <2>1. /\ FanOut(Flushed, notice, none) /\ epoch' = epoch /\ turn' = turn /\ breaks' = breaks + 1
          /\ link' = link /\ sock' = sock /\ up' = up /\ UNCHANGED clientVars /\ untold' = untold
          /\ UNCHANGED <<kept, ended>>
      BY <1>8 DEF Detach
    <2>2. x \in Frame /\ x.t = "closed"  BY DEF Frame
    <2> HIDE DEF x
    <2>3. notice \in Seq(Newly)  BY <2>2, PlainFrames
    <2>4. breaks' = breaks + 1 /\ breaks \in Nat  BY <1>2, <2>1
    <2>5. breaks' \in Nat  BY <2>4
    <2>6. LinksOK' /\ untold \subseteq untold'  BY <1>2, <2>1, <2>5 DEF LinksOK
    <2>7. AtMostOne(none) /\ Settles(none)  BY <1>4, <2>1 DEF Settles
    <2> HIDE DEF none, notice
    <2> QED  BY <1>1, <2>1, <2>3, <2>6, <2>7, FanOutStep
  <1>9. CASE UNCHANGED vars
    <2>1. /\ epoch' = epoch /\ ring' = ring /\ log' = log /\ turn' = turn /\ link' = link /\ sock' = sock
          /\ breaks' = breaks /\ untold' = untold /\ down' = down /\ up' = up /\ c' = c /\ unseen' = unseen
          /\ kept' = kept /\ ended' = ended
      BY <1>9 DEF vars
    <2>2. LinksOK' /\ untold \subseteq untold' /\ UNCHANGED clientVars  BY <1>2, <2>1 DEF LinksOK, clientVars
    <2>3. Placed' /\ Stored' /\ (Fresh' => Fresh /\ Numbered') /\ Extended  BY <1>2, <2>1, <2>2, SameStream
    <2>4. \E new \in Seq(Newly) : down' = down \o new  BY <1>3, <2>1
    <2> QED  BY <1>1, <2>2, <2>3, <2>4, Sending
  <1>10. CASE ServeReplay  BY <1>1, <1>10, ServeReplayStep
  <1>11. CASE ServeHistory  BY <1>1, <1>11, ServeHistoryStep
  <1>12. CASE Close  BY <1>1, <1>12, CloseStep
  <1>13. CASE Restart  BY <1>1, <1>13, RestartStep
  <1>14. CASE UplinkBreaks \/ PeerOffline \/ Redial \/ ClientDrops \/ ClientReturns  BY <1>1, <1>14, LinkStep
  <1>15. CASE Receive  BY <1>1, <1>15, ReceiveStep
  <1> QED
    BY <1>5, <1>6, <1>7, <1>8, <1>9, <1>10, <1>11, <1>12, <1>13, <1>14, <1>15 DEF Next

-----------------------------------------------------------------------------
(* The theorems. *)

\* The client's invariant holds in every reachable state.
THEOREM ClientInvariance == Spec => []ClientInv
  <1>1. Init => ClientInv
    <2> SUFFICES ASSUME Init PROVE ClientInv  OBVIOUS
    <2>1. /\ epoch = 1 /\ ring = NoRing /\ log = <<>> /\ made = 0 /\ pending = 0 /\ turn = FALSE
          /\ link = "up" /\ sock = TRUE /\ breaks = 0 /\ down = <<>> /\ up = <<HistoryRequest(0)>>
          /\ kept = {} /\ ended = 0
          /\ c = [epoch |-> 0, next |-> 0, held |-> {}, shown |-> {}, bare |-> {}, have |-> 0, working |-> FALSE,
                  fin |-> TRUE, deferred |-> {}, opening |-> TRUE, online |-> TRUE, synced |-> FALSE]
          /\ unseen = {} /\ untold = {}
      BY DEF Init
    <2>2. <<>> \in Seq(Event) /\ <<>> \in Seq(Frame) /\ DOMAIN <<>> = {}  BY EmptySeq
    <2>3. ring.head = 0 /\ ring.entries = <<>>  BY <2>1 DEF NoRing
    <2>4. NodeInv
      <3>1. Retains(ring, log)  BY <2>1, <2>2, NoRingRetains
      <3>2. Ordered(log, made, pending)  BY <2>1, <2>2 DEF Ordered
      <3> QED  BY <2>1, <3>1, <3>2 DEF NodeInv
    <2>5. c \in Store /\ c.shown = {} /\ c.held = {} /\ c.synced = FALSE /\ c.next = 0  BY <2>1 DEF Store
    <2>6. up \in Seq(UpRequest)
      <3> DEFINE x == HistoryRequest(0)
      <3>1. x \in UpRequest  BY DEF HistoryRequest, UpRequest
      <3> HIDE DEF x
      <3>2. <<x>> \in Seq(UpRequest)  BY <3>1
      <3> QED  BY <2>1, <3>2 DEF x
    <2>7. TypeOK
      <3>1. epoch \in Nat /\ made \in Nat /\ pending \in Nat /\ ring.head \in Nat /\ ring.entries \in Seq(Event)
            /\ log \in Seq(Event)
        BY <2>4 DEF NodeInv, Retains, Ordered
      <3>2. breaks = 0  BY <2>1
      <3>3. breaks \in Nat  BY <3>2
      <3>4. LinksOK  BY <2>1, <2>6, <3>3 DEF LinksOK
      <3>5. down \in Seq(Frame) /\ unseen \in SUBSET Nat  BY <2>1, <2>2
      <3>6. kept \in SUBSET Nat /\ ended \in Nat  BY <2>1
      <3> QED  BY <2>5, <3>1, <3>4, <3>5, <3>6 DEF TypeOK, LinksOK
    <2>8. Placed /\ Numbered  BY <2>1, <2>2, <2>3 DEF Placed, PlacedIn, Numbered, CountedIn
    <2>s. Stored
      <3>1. Len(log) = 0 /\ DOMAIN log = {}  BY <2>1, <2>2, EmptySeq
      <3>2. \A p \in 1 .. 0 : FALSE  OBVIOUS
      <3> QED  BY <2>1, <3>1, <3>2 DEF Stored, Holds
    <2>9. InTransit(down)  BY <2>1, <2>2 DEF InTransit
    <2>10. View(c, unseen, Known(down))
      <3>1. IsFiniteSet(c.held)  BY <2>5, FS_EmptySet
      <3> QED  BY <2>1, <2>5, <3>1 DEF View, Exact, Reached, Whole, Partial
    <2> QED  BY <2>4, <2>7, <2>8, <2>s, <2>9, <2>10 DEF ClientInv
  <1>2. ClientInv /\ [Next]_vars => ClientInv'  BY ClientStep DEF Keeps
  <1> QED  BY <1>1, <1>2, PTL DEF Spec

\* Every variable keeps its shape.
THEOREM TypeCorrect == Spec => []TypeOK
  <1>1. ClientInv => TypeOK  BY DEF ClientInv
  <1> QED  BY <1>1, ClientInvariance, PTL

\* As long as no close restarts seq, a client that has had a snapshot shows every
\* end of a message or turn that its reassembler's cursor has passed, and every other
\* event but the text of a message that was open when the snapshot was taken: no loss,
\* replay, snapshot, reconnection or restart makes it step over one, whatever the caps
\* of ring and held events.
THEOREM CursorStaysExact == Spec => []CursorExact
  <1>1. ClientInv => CursorExact  BY DEF ClientInv, View, Exact, Fresh, CursorExact, Passed
  <1> QED  BY <1>1, ClientInvariance, PTL

\* Unless a close restarts seq, no end of a message or turn that accept drops as a
\* duplicate is missing from the display, though a snapshot moved the cursor past text
\* it did not hold.
THEOREM NothingFreshDropped == Spec => []StreamNoFreshDiscard
  <1>1. ClientInv => StreamNoFreshDiscard
    BY DEF ClientInv, View, Fresh, StreamNoFreshDiscard, NoFreshDiscard, Partial
  <1> QED  BY <1>1, ClientInvariance, PTL

\* A snapshot, which replaces the transcript, may take back the text of an open message
\* but never any of a message or turn whose end is on display: none is applied that was
\* taken before that end.
THEOREM NothingTakenBack == Spec => NothingErased
  <1>1. ClientInv /\ [Next]_vars =>
          [\A p \in c.shown : log[p].kind \in Ends => log[p].from .. p \subseteq c'.shown]_vars
    BY ClientStep DEF Keeps
  <1> QED  BY <1>1, ClientInvariance, PTL DEF Spec, NothingErased
=============================================================================
