------------------------- MODULE SessionStreamProofs -------------------------
(***************************************************************************)
(* What the node promises of one session's stream, for every value of the  *)
(* constants: its ring is the unbroken end of what was fanned out, and the *)
(* coalescer reorders nothing.                                             *)
(***************************************************************************)
EXTENDS SessionStream, SequenceTheorems, FiniteSetTheorems, TLAPS

\* Ring r retains the end of the stream L, numbered up to head without a hole.
Retains(r, L) ==
  /\ r.head \in Nat /\ r.entries \in Seq(Event) /\ L \in Seq(Event)
  /\ Len(r.entries) <= r.head /\ Len(r.entries) <= Len(L)
  /\ r.head > 0 => Len(r.entries) > 0
  /\ \A k \in 1 .. Len(r.entries) : /\ r.entries[k].seq = r.head - Len(r.entries) + k
                                    /\ r.entries[k] = L[Len(L) - Len(r.entries) + k]

\* The stream L is in the order the agent produced it; m is its last event's
\* number or later, and p a pending update that comes after all of L, or 0.
Ordered(L, m, p) ==
  /\ m \in Nat /\ p \in Nat /\ p <= m
  /\ \A k \in DOMAIN L : L[k].made <= m /\ (p # 0 => L[k].made < p)
  /\ \A j, k \in DOMAIN L : j < k => L[j].made < L[k].made

NodeInv == epoch \in Nat /\ ended \in Nat /\ Retains(ring, log) /\ Ordered(log, made, pending)

-----------------------------------------------------------------------------
(* The ring. *)

\* A nonempty set of naturals has a least element: of the initial segments its
\* elements make, one contains no other.
LEMMA Least ==
  ASSUME NEW K \in SUBSET Nat, K # {}
  PROVE  \E m \in K : \A k \in K : m <= k
  <1> DEFINE T == {1 .. k : k \in K}
             R == StrictSubsetOrdering(Nat)
  <1>1. T \subseteq FiniteSubsetsOf(Nat) /\ T # {}
    <2>1. \A k \in K : 1 .. k \in SUBSET Nat /\ IsFiniteSet(1 .. k)  BY FS_Interval
    <2> QED  BY <2>1 DEF FiniteSubsetsOf
  <1>2. IsWellFoundedOn(R, FiniteSubsetsOf(Nat))  BY FS_StrictSubsetOrderingWellFounded
  <1>3. PICK x \in T : \A y \in T : ~(<<y, x>> \in R)
    <2> HIDE DEF T, R
    <2> QED  BY <1>1, <1>2, WFMin
  <1>4. PICK m \in K : x = 1 .. m  OBVIOUS
  <1>5. ASSUME NEW k \in K, k < m  PROVE FALSE
    <2>1. 1 .. k \subseteq 1 .. m /\ 1 .. k # 1 .. m
      <3>1. m \in Nat /\ k \in Nat  OBVIOUS
      <3>2. m \in 1 .. m /\ m \notin 1 .. k  BY <3>1, <1>5
      <3>3. \A i \in 1 .. k : i \in 1 .. m  BY <3>1, <1>5
      <3> QED  BY <3>2, <3>3
    <2>2. 1 .. k \in SUBSET Nat /\ 1 .. m \in SUBSET Nat  OBVIOUS
    <2>3. <<1 .. k, 1 .. m>> \in R  BY <2>1, <2>2 DEF StrictSubsetOrdering
    <2> QED  BY <2>3, <1>3, <1>4
  <1> QED
    <2> HIDE DEF T, R
    <2>1. \A k \in K : k \in Nat /\ m \in Nat /\ ~(k < m)  BY <1>5
    <2>2. \A k \in K : m <= k  BY <2>1
    <2> QED  BY <2>2

\* The loop of evict ends at one place: there is exactly one end of the entries
\* that it can leave, whatever the events weigh.
LEMMA EvictIsAFunction ==
  ASSUME NEW s \in Seq(Event), Len(s) > 0
  PROVE  \E z : Evict(s) = {z}
  <1> DEFINE n == Len(s)
             K == {k \in 1 .. n : k = n \/ Fits(Since(s, k))}
  <1>1. n \in Nat /\ n \in 1 .. n  BY LenProperties
  <1>2. K \in SUBSET Nat /\ n \in K  BY <1>1
  <1>3. PICK m \in K : \A k \in K : m <= k
    <2> HIDE DEF K
    <2> QED  BY <1>2, Least
  <1>4. m \in 1 .. n /\ (m = n \/ Fits(Since(s, m)))  OBVIOUS
  <1>5. \A j \in 1 .. m - 1 : j \in 1 .. n /\ j < m /\ j # n  BY <1>1, <1>4
  <1>6. \A j \in 1 .. m - 1 : ~Fits(Since(s, j))
    <2> TAKE j \in 1 .. m - 1
    <2>1. j \in Nat /\ m \in Nat /\ ~(m <= j)  BY <1>1, <1>4
    <2>2. j \notin K  BY <2>1, <1>3
    <2> QED  BY <2>2, <1>5
  <1>7. EvictStops(s, m)  BY <1>4, <1>6 DEF EvictStops
  <1>8. ASSUME NEW j \in 1 .. n, EvictStops(s, j)  PROVE j = m
    <2>1. j \in Nat /\ m \in Nat /\ m <= n  BY <1>1, <1>4
    <2>2. j \in K  BY <1>8 DEF EvictStops
    <2>3. m <= j  BY <2>2, <1>3
    <2>4. ~(m < j)
      <3> SUFFICES ASSUME m < j PROVE FALSE  OBVIOUS
      <3>1. m \in 1 .. j - 1 /\ m # n  BY <2>1, <1>4, <1>1
      <3>2. ~Fits(Since(s, m))  BY <3>1, <1>8 DEF EvictStops
      <3> QED  BY <3>1, <3>2, <1>4
    <2> HIDE DEF n, K
    <2> QED  BY <2>1, <2>3, <2>4
  <1>9. {j \in 1 .. Len(s) : EvictStops(s, j)} = {m}  BY <1>4, <1>7, <1>8
  <1>10. Evict(s) = {Since(s, k) : k \in {m}}  BY <1>9 DEF Evict
  <1>11. Evict(s) = {Since(s, m)}  BY <1>10
  <1> QED  BY <1>11

\* What an eviction leaves is a nonempty end of the entries.
LEMMA EvictKeepsEnd ==
  ASSUME NEW s \in Seq(Event), Len(s) > 0, NEW z \in Evict(s)
  PROVE  /\ z \in Seq(Event) /\ Len(z) > 0 /\ Len(z) <= Len(s)
         /\ \A k \in 1 .. Len(z) : z[k] = s[Len(s) - Len(z) + k]
  <1>1. PICK k \in 1 .. Len(s) : z = SubSeq(s, k, Len(s))  BY DEF Evict, Since
  <1>2. Len(s) \in Nat  BY LenProperties
  <1>3. /\ z \in Seq(Event) /\ Len(z) = Len(s) - k + 1
        /\ \A j \in 1 .. Len(s) - k + 1 : z[j] = s[k + j - 1]
    BY <1>1, <1>2, SubSeqProperties
  <1>4. Len(z) > 0 /\ Len(z) <= Len(s)  BY <1>2, <1>3
  <1>5. \A j \in 1 .. Len(z) : k + j - 1 = Len(s) - Len(z) + j  BY <1>2, <1>3
  <1> QED  BY <1>3, <1>4, <1>5

\* next and record retain the event behind the others: the guard of record never
\* refuses it, since the newest entry carries head.
LEMMA StampKeeps ==
  ASSUME NEW r, NEW L, Retains(r, L), NEW e \in Event, e.seq = r.head + 1, NEW s \in Stamp(r, e)
  PROVE  Retains(s, Append(L, e)) /\ s.head = r.head + 1
  <1> DEFINE n == Len(r.entries)
             g == Append(r.entries, e)
             M == Append(L, e)
  <1>1. r.head \in Nat /\ r.entries \in Seq(Event) /\ L \in Seq(Event) /\ n \in Nat /\ Len(L) \in Nat
        /\ n <= r.head /\ n <= Len(L) /\ (r.entries # <<>> => n > 0)
        /\ \A k \in 1 .. n : r.entries[k].seq = r.head - n + k /\ r.entries[k] = L[Len(L) - n + k]
    <2>1. r.entries \in Seq(Event) /\ L \in Seq(Event)  BY DEF Retains
    <2>2. n \in Nat /\ Len(L) \in Nat /\ (r.entries # <<>> => n > 0)  BY <2>1, LenProperties, EmptySeq
    <2> QED  BY <2>1, <2>2 DEF Retains
  <1>0. n = Len(r.entries)  OBVIOUS
  <1> HIDE DEF n
  <1>2. [e EXCEPT !.seq = r.head + 1] = e  BY DEF Event
  <1>3. PICK z \in Record(r.entries, e) : s = [head |-> r.head + 1, entries |-> z]
    BY <1>2 DEF Stamp
  <1>4. Record(r.entries, e) = Evict(g)
    <2>1. CASE r.entries = <<>>  BY <2>1 DEF Record
    <2>2. CASE r.entries # <<>>
      <3>1. n \in 1 .. n  BY <2>2, <1>1
      <3>2. r.entries[n].seq = r.head - n + n  BY <3>1, <1>1
      <3>3. r.head - n + n = r.head  BY <1>1
      <3>4. Last(r.entries) = r.entries[n]  BY <1>0 DEF Last
      <3>5. Last(r.entries).seq + 1 = e.seq  BY <3>2, <3>3, <3>4
      <3> QED  BY <3>5 DEF Record
    <2> QED  BY <2>1, <2>2
  <1>5. /\ g \in Seq(Event) /\ Len(g) = n + 1 /\ g[n + 1] = e /\ \A k \in 1 .. n : g[k] = r.entries[k]
        /\ M \in Seq(Event) /\ Len(M) = Len(L) + 1 /\ M[Len(L) + 1] = e
        /\ \A k \in 1 .. Len(L) : M[k] = L[k]
    BY <1>0, <1>1, AppendProperties
  <1>6. \A k \in 1 .. n + 1 : g[k].seq = r.head - n + k /\ g[k] = M[Len(L) - n + k]
    <2> TAKE k \in 1 .. n + 1
    <2>1. CASE k = n + 1
      <3>0. n \in Nat /\ Len(L) \in Nat /\ r.head \in Nat  BY <1>1
      <3>1. Len(L) - n + k = Len(L) + 1 /\ r.head - n + k = r.head + 1  BY <2>1, <3>0
      <3> QED  BY <2>1, <3>1, <1>5
    <2>2. CASE k # n + 1
      <3>1. k \in 1 .. n /\ Len(L) - n + k \in 1 .. Len(L)  BY <2>2, <1>1, SMTT(30)
      <3>2. r.entries[k].seq = r.head - n + k /\ r.entries[k] = L[Len(L) - n + k]
        BY <3>1, <1>1
      <3> QED  BY <3>1, <3>2, <1>5
    <2> QED  BY <2>1, <2>2
  <1>7. /\ z \in Seq(Event) /\ Len(z) > 0 /\ Len(z) <= Len(g)
        /\ \A k \in 1 .. Len(z) : z[k] = g[Len(g) - Len(z) + k]
    <2> HIDE DEF g
    <2>1. Len(g) > 0 /\ z \in Evict(g)  BY <1>1, <1>3, <1>4, <1>5
    <2> QED  BY <2>1, <1>5, EvictKeepsEnd
  <1>8. s.head = r.head + 1 /\ s.entries = z  BY <1>3
  <1> HIDE DEF g, M
  <1>9. Len(z) \in Nat  BY <1>7, LenProperties
  <1>10. \A k \in 1 .. Len(z) : z[k].seq = r.head + 1 - Len(z) + k /\ z[k] = M[Len(M) - Len(z) + k]
    <2> TAKE k \in 1 .. Len(z)
    <2> DEFINE j == Len(g) - Len(z) + k
    <2>0. z[k] = g[j]  BY <1>7
    <2>a. n \in Nat /\ Len(g) = n + 1 /\ Len(z) <= Len(g)  BY <1>1, <1>5, <1>7
    <2>1. j \in 1 .. n + 1  BY <2>a, <1>9
    <2>2. r.head - n + j = r.head + 1 - Len(z) + k /\ Len(L) - n + j = Len(M) - Len(z) + k
      BY <1>1, <1>5, <1>9, SMTT(30)
    <2> HIDE DEF j
    <2> QED  BY <2>0, <2>1, <2>2, <1>6
  <1>11. Len(z) <= r.head + 1 /\ Len(z) <= Len(M) /\ r.head + 1 \in Nat  BY <1>1, <1>5, <1>7, <1>9
  <1>12. Retains(s, M)  BY <1>5, <1>7, <1>8, <1>10, <1>11 DEF Retains
  <1> QED  BY <1>8, <1>12 DEF M

\* None or one event, numbered next, is retained behind the others.
LEMMA RetainedKeeps ==
  ASSUME NEW r, NEW L, Retains(r, L), NEW ev \in Seq(Event), Len(ev) <= 1,
         Len(ev) = 1 => ev[1].seq = r.head + 1, NEW s \in Retained(r, ev)
  PROVE  Retains(s, L \o ev) /\ s.head = r.head + Len(ev)
  <1>1. r.head \in Nat /\ L \in Seq(Event)  BY DEF Retains
  <1>2. CASE ev = <<>>
    <2>1. s = r /\ Len(ev) = 0  BY <1>2, EmptySeq DEF Retained
    <2>2. L \o ev = L  BY <1>1, <1>2, ConcatEmptySeq
    <2> QED  BY <1>1, <2>1, <2>2
  <1>3. CASE ev # <<>>
    <2>0. Len(ev) \in Nat /\ Len(ev) # 0  BY <1>3, EmptySeq
    <2>1. Len(ev) = 1
      <3> DEFINE l == Len(ev)
      <3>1. l \in Nat /\ l # 0 /\ l <= 1  BY <2>0
      <3> HIDE DEF l
      <3>2. l = 1  BY <3>1
      <3> QED  BY <3>2 DEF l
    <2>2. ev[1] \in Event /\ ev[1].seq = r.head + 1 /\ s \in Stamp(r, ev[1])
      BY <1>3, <2>1, ElementOfSeq DEF Retained
    <2>3. L \o ev = Append(L, ev[1])
      <3> DEFINE a == L \o ev
                 b == Append(L, ev[1])
                 n == Len(L)
      <3>1. n \in Nat  BY <1>1, LenProperties
      <3>2. /\ a \in Seq(Event) /\ Len(a) = n + 1
            /\ \A i \in 1 .. n + 1 : a[i] = IF i <= n THEN L[i] ELSE ev[i - n]
        <4>1. /\ a \in Seq(Event) /\ Len(a) = n + Len(ev)
              /\ \A i \in 1 .. n + Len(ev) : a[i] = IF i <= n THEN L[i] ELSE ev[i - n]
          BY <1>1, ConcatProperties
        <4> QED  BY <2>1, <4>1
      <3>3. b \in Seq(Event) /\ Len(b) = n + 1 /\ (\A i \in 1 .. n : b[i] = L[i]) /\ b[n + 1] = ev[1]
        BY <1>1, <2>2, AppendProperties
      <3> HIDE DEF a, b, n
      <3>4. \A i \in 1 .. n + 1 : a[i] = b[i]
        <4> TAKE i \in 1 .. n + 1
        <4>1. CASE i <= n
          <5>1. i \in 1 .. n  BY <3>1, <4>1
          <5> QED  BY <4>1, <5>1, <3>2, <3>3
        <4>2. CASE ~(i <= n)
          <5>1. i = n + 1 /\ i - n = 1  BY <3>1, <4>2
          <5> QED  BY <4>2, <5>1, <3>2, <3>3
        <4> QED  BY <4>1, <4>2
      <3>5. a = b  BY <3>2, <3>3, <3>4, SeqEqual
      <3> QED  BY <3>5 DEF a, b
    <2> QED  BY <2>1, <2>2, <2>3, StampKeeps
  <1> QED  BY <1>2, <1>3

\* An event made after all others is appended.
LEMMA OrderedAppends ==
  ASSUME NEW L \in Seq(Event), NEW m, NEW p, Ordered(L, m, p), NEW ev \in Seq(Event), Len(ev) <= 1,
         NEW x \in Nat, m <= x, Len(ev) = 1 => ev[1].made <= x /\ \A k \in DOMAIN L : L[k].made < ev[1].made
  PROVE  Ordered(L \o ev, x, 0)
  <1> DEFINE a == L \o ev
             n == Len(L)
  <1>1. /\ n \in Nat /\ Len(ev) \in Nat /\ DOMAIN L = 1 .. n /\ m \in Nat
        /\ \A k \in 1 .. n : L[k].made \in Nat
    <2>1. \A k \in 1 .. n : L[k] \in Event  BY ElementOfSeq
    <2> QED  BY <2>1, LenProperties DEF Event, Ordered
  <1>2. /\ a \in Seq(Event) /\ Len(a) = n + Len(ev)
        /\ \A k \in 1 .. n + Len(ev) : a[k] = IF k <= n THEN L[k] ELSE ev[k - n]
    BY ConcatProperties
  <1>3. DOMAIN a = 1 .. n + Len(ev)  BY <1>2, LenProperties
  <1>4. \A k \in 1 .. n : L[k].made <= m /\ \A j \in 1 .. n : j < k => L[j].made < L[k].made
    BY <1>1 DEF Ordered
  <1> HIDE DEF a, n
  <1>5. \A k \in 1 .. n + Len(ev) :
          \/ k \in 1 .. n /\ a[k] = L[k]
          \/ k = n + 1 /\ Len(ev) = 1 /\ a[k] = ev[1]
    <2> TAKE k \in 1 .. n + Len(ev)
    <2>1. CASE k <= n
      <3>1. k \in 1 .. n  BY <1>1, <2>1
      <3> QED  BY <2>1, <3>1, <1>2
    <2>2. CASE ~(k <= n)
      <3> DEFINE l == Len(ev)
      <3>1. l \in Nat /\ l <= 1 /\ k \in 1 .. n + l  BY <1>1
      <3> HIDE DEF l
      <3>2. k = n + 1 /\ k - n = 1 /\ l = 1  BY <3>1, <1>1, <2>2
      <3> QED  BY <2>2, <3>2, <1>2 DEF l
    <2> QED  BY <2>1, <2>2
  <1>6. \A k \in DOMAIN a : a[k].made <= x
    <2> TAKE k \in DOMAIN a
    <2>1. CASE k \in 1 .. n /\ a[k] = L[k]  BY <2>1, <1>1, <1>4
    <2>2. CASE Len(ev) = 1 /\ a[k] = ev[1]  BY <2>2
    <2> QED  BY <2>1, <2>2, <1>3, <1>5
  <1>7. ASSUME NEW j \in DOMAIN a, NEW k \in DOMAIN a, j < k  PROVE a[j].made < a[k].made
    <2>1. j \in 1 .. n /\ a[j] = L[j]
      <3>1. k <= n + 1 /\ j \in 1 .. n + Len(ev)  BY <1>1, <1>3
      <3> QED  BY <3>1, <1>1, <1>3, <1>5, <1>7
    <2>2. CASE k \in 1 .. n /\ a[k] = L[k]  BY <2>1, <2>2, <1>4, <1>7
    <2>3. CASE Len(ev) = 1 /\ a[k] = ev[1]  BY <2>1, <2>3, <1>1
    <2> QED  BY <2>2, <2>3, <1>3, <1>5
  <1> QED  BY <1>6, <1>7 DEF Ordered, a
-----------------------------------------------------------------------------
(* The fan-out. *)

\* None or one event, as the listener and the coalescer hand them over.
AtMostOne(ev) == ev \in Seq(Event) /\ Len(ev) <= 1

\* The events handed over are events.
LEMMA NewEventType ==
  ASSUME epoch \in Nat, ended \in Nat, NEW kind \in Kind, NEW number \in Nat
  PROVE  /\ AtMostOne(<<NewEvent(kind, number)>>) /\ Len(<<NewEvent(kind, number)>>) = 1
         /\ <<NewEvent(kind, number)>>[1].made = number
  <1>1. SizeOf(kind) \in Nat  BY StreamAssumption DEF SizeOf
  <1> DEFINE from == IF kind \in {"message_update", "message_end"} THEN ended + 1 ELSE 0
  <1>f. from \in Nat  OBVIOUS
  <1> HIDE DEF from
  <1>2. NewEvent(kind, number) \in Event /\ NewEvent(kind, number).made = number
    BY <1>1, <1>f DEF NewEvent, Event, from
  <1> DEFINE e == NewEvent(kind, number)
  <1> HIDE DEF e
  <1>3. e \in Event => <<e>> \in Seq(Event) /\ Len(<<e>>) = 1 /\ <<e>>[1] = e  OBVIOUS
  <1>4. <<e>> \in Seq(Event) /\ Len(<<e>>) = 1 /\ <<e>>[1] = e  BY <1>2, <1>3 DEF e
  <1> QED  BY <1>2, <1>4 DEF e, AtMostOne

\* Stamping numbers an event and changes nothing else of it that matters.
LEMMA StampedOne ==
  ASSUME NEW ev, AtMostOne(ev), NEW b \in Nat, ring.head \in Nat, log \in Seq(Event)
  PROVE  /\ AtMostOne(Stamped(ev, b)) /\ Len(Stamped(ev, b)) = Len(ev)
         /\ Len(ev) = 1 => /\ Stamped(ev, b)[1].seq = ring.head + b + 1
                           /\ Stamped(ev, b)[1].made = ev[1].made
  <1> DEFINE n == Len(ev)
             h == ring.head + b
             l == Len(log) + b
             z == Stamped(ev, b)
  <1>1. ev \in Seq(Event) /\ n \in Nat /\ n <= 1 /\ DOMAIN ev = 1 .. n /\ h \in Nat /\ l \in Nat
    BY LenProperties DEF AtMostOne
  <1>2. \A k \in 1 .. n : ev[k] \in Event  BY <1>1, ElementOfSeq
  <1>3. z = [k \in 1 .. n |-> [ev[k] EXCEPT !.seq = h + k, !.pos = l + k,
                                         !.from = IF @ = 0 THEN l + k ELSE @]]
    BY <1>1 DEF Stamped
  <1> HIDE DEF n, h, l, z
  <1>4. \A k \in 1 .. n : z[k] \in Event /\ z[k].seq = h + k /\ z[k].made = ev[k].made
    <2> TAKE k \in 1 .. n
    <2> DEFINE x == h + k
               y == l + k
               e == ev[k]
    <2> DEFINE from == IF e.from = 0 THEN y ELSE e.from
    <2>0. z[k] = [ev[k] EXCEPT !.seq = h + k, !.pos = l + k, !.from = IF @ = 0 THEN l + k ELSE @]  BY <1>3
    <2>1. x \in Nat /\ y \in Nat /\ e \in Event  BY <1>1, <1>2
    <2>f. from \in Nat /\ (z[k] = [e EXCEPT !.seq = x, !.pos = y, !.from = from])
      BY <2>0, <2>1 DEF Event
    <2> HIDE DEF x, y, e, from
    <2>2. z[k] \in Event /\ z[k].seq = x /\ z[k].made = e.made
      BY <2>1, <2>f DEF Event
    <2> QED  BY <2>2 DEF x, e
  <1>5. z \in [1 .. n -> Event]  BY <1>3, <1>4
  <1>6. z \in Seq(Event)  BY <1>1, <1>5, SeqDef
  <1>7. Len(z) = n
    <2>1. Len(z) \in Nat /\ 1 .. Len(z) = 1 .. n  BY <1>3, <1>6, LenProperties
    <2> DEFINE m == Len(z)
    <2> HIDE DEF m
    <2>2. m \in Nat /\ (\A k \in Int : k \in 1 .. m <=> k \in 1 .. n)  BY <2>1 DEF m
    <2>3. m = n  BY <2>2, <1>1
    <2> QED  BY <2>3 DEF m
  <1>8. n = 1 => z[1].seq = h + 1 /\ z[1].made = ev[1].made  BY <1>4
  <1> QED  BY <1>1, <1>6, <1>7, <1>8 DEF AtMostOne, n, h, z

\* The flushed update is the pending one.
LEMMA FlushedOne ==
  ASSUME epoch \in Nat, ended \in Nat, pending \in Nat
  PROVE  /\ AtMostOne(Flushed)
         /\ Len(Flushed) = 1 => pending # 0 /\ Flushed[1].made = pending
         /\ pending # 0 => Len(Flushed) = 1
  <1>1. CASE pending = 0
    <2>1. Flushed = <<>>  BY <1>1 DEF Flushed
    <2>2. <<>> \in Seq(Event) /\ Len(<<>>) = 0  BY EmptySeq
    <2> QED  BY <1>1, <2>1, <2>2 DEF AtMostOne
  <1>2. CASE pending # 0
    <2> DEFINE u == "message_update"
    <2>1. u \in Kind /\ Flushed = <<NewEvent(u, pending)>>  BY <1>2 DEF Flushed, Kind
    <2> HIDE DEF u
    <2> QED  BY <1>2, <2>1, NewEventType
  <1> QED  BY <1>1, <1>2

\* The pending update goes out before what the agent produces next.
LEMMA FlushedInOrder ==
  ASSUME NodeInv
  PROVE  /\ AtMostOne(Stamped(Flushed, 0))
         /\ Ordered(log \o Stamped(Flushed, 0), made, 0)
  <1> DEFINE f == Stamped(Flushed, 0)
  <1>1. /\ epoch \in Nat /\ ended \in Nat /\ pending \in Nat /\ ring.head \in Nat /\ log \in Seq(Event)
        /\ made \in Nat /\ pending <= made /\ Ordered(log, made, pending)
    BY DEF NodeInv, Retains, Ordered
  <1>3. AtMostOne(f) /\ (Len(f) = 1 => Len(Flushed) = 1 /\ f[1].made = Flushed[1].made)
    BY <1>1, FlushedOne, StampedOne
  <1>4. Len(f) = 1 => f[1].made = pending /\ pending # 0  BY <1>1, <1>3, FlushedOne
  <1> HIDE DEF f
  <1>5. Len(f) = 1 => f[1].made <= made /\ \A k \in DOMAIN log : log[k].made < f[1].made
    BY <1>1, <1>4 DEF Ordered
  <1>6. Ordered(log \o f, made, 0)  BY <1>1, <1>3, <1>5, OrderedAppends DEF AtMostOne
  <1> QED  BY <1>3, <1>6 DEF f

\* A fan-out of the pending update, and of an event made after it, keeps the ring
\* and the order.
LEMMA FanOutKeeps ==
  ASSUME NodeInv, NEW notice, NEW rest, FanOut(Flushed, notice, rest), AtMostOne(rest),
         epoch' = epoch, ended' \in {ended, Len(log')}, pending' = 0, made' \in Nat, made <= made',
         Len(rest) = 1 => made < made' /\ rest[1].made = made'
  PROVE  NodeInv'
  <1> DEFINE f == Stamped(Flushed, 0)
             b == Len(Flushed)
             g == Stamped(rest, b)
  <1>1. /\ epoch \in Nat /\ ended \in Nat /\ pending \in Nat /\ ring.head \in Nat
        /\ log \in Seq(Event) /\ made \in Nat
        /\ Retains(ring, log)
    BY DEF NodeInv, Retains, Ordered
  <1>2. AtMostOne(Flushed) /\ b \in Nat  BY <1>1, FlushedOne, LenProperties DEF AtMostOne
  <1>3. /\ AtMostOne(f) /\ Len(f) = b
        /\ Len(f) = 1 => f[1].seq = ring.head + 0 + 1
    BY <1>1, <1>2, StampedOne
  <1>4. /\ AtMostOne(g) /\ Len(g) = Len(rest)
        /\ Len(rest) = 1 => g[1].seq = ring.head + b + 1 /\ g[1].made = rest[1].made
    BY <1>1, <1>2, StampedOne
  <1>5. PICK r \in Retained(ring, f) : ring' \in Retained(r, g)  BY DEF FanOut
  <1>6. log' = log \o f \o g  BY DEF FanOut
  <1>7. Ordered(log \o f, made, 0)  BY FlushedInOrder
  <1>8. Retains(r, log \o f) /\ r.head = ring.head + b
    <2> HIDE DEF f, b
    <2>1. Len(f) = 1 => f[1].seq = ring.head + 1  BY <1>1, <1>3
    <2> QED  BY <2>1, <1>1, <1>3, <1>5, RetainedKeeps DEF AtMostOne
  <1> HIDE DEF f, g, b
  <1>9. Retains(ring', log')  BY <1>4, <1>5, <1>6, <1>8, RetainedKeeps DEF AtMostOne
  <1>10. log \o f \in Seq(Event)  BY <1>8 DEF Retains
  <1>11. Len(g) = 1 => g[1].made <= made' /\ \A k \in DOMAIN (log \o f) : (log \o f)[k].made < g[1].made
    <2> DEFINE a == log \o f
    <2>1. a \in Seq(Event)  BY <1>10
    <2>2. \A k \in DOMAIN a : a[k].made <= made /\ a[k].made \in Nat
      <3>1. \A k \in DOMAIN a : a[k] \in Event  BY <2>1, LenProperties, ElementOfSeq
      <3> HIDE DEF a
      <3>2. Ordered(a, made, 0)  BY <1>7 DEF a
      <3> QED  BY <3>1, <3>2 DEF Event, Ordered
    <2> HIDE DEF a
    <2>3. Len(g) = 1 => g[1].made = made' /\ made < made'  BY <1>4
    <2>4. Len(g) = 1 => g[1].made <= made' /\ \A k \in DOMAIN a : a[k].made < g[1].made
      BY <2>2, <2>3, <1>1
    <2> QED  BY <2>4 DEF a
  <1>12. Ordered(log \o f \o g, made', 0)
    <2> DEFINE a == log \o f
    <2> HIDE DEF a
    <2>1. a \in Seq(Event) /\ Ordered(a, made, 0) /\ (Len(g) = 1 => g[1].made <= made' /\ \A k \in DOMAIN a : a[k].made < g[1].made)
      BY <1>7, <1>10, <1>11 DEF a
    <2>2. Ordered(a \o g, made', 0)  BY <2>1, <1>4, OrderedAppends DEF AtMostOne
    <2> QED  BY <2>2 DEF a
  <1>13. Ordered(log', made', pending')  BY <1>6, <1>12
  <1>14. ended' \in Nat
    <2>1. Len(log') \in Nat  BY <1>9, LenProperties DEF Retains
    <2> QED  BY <1>1, <2>1
  <1> QED  BY <1>1, <1>9, <1>13, <1>14 DEF NodeInv, Retains, Ordered
-----------------------------------------------------------------------------
(* The theorems. *)

\* An empty ring retains the end of any stream.
LEMMA NoRingRetains ==
  ASSUME NEW L \in Seq(Event)
  PROVE  Retains(NoRing, L)
  <1>1. NoRing.head = 0 /\ NoRing.entries = <<>>  BY DEF NoRing
  <1>2. <<>> \in Seq(Event) /\ Len(<<>>) = 0 /\ Len(L) \in Nat  BY EmptySeq, LenProperties
  <1> QED  BY <1>1, <1>2 DEF Retains

\* Every step keeps what the node promises.
LEMMA NodeStep ==
  ASSUME NodeInv, [Next]_vars
  PROVE  NodeInv'
  <1>t. /\ epoch \in Nat /\ ended \in Nat /\ pending \in Nat /\ made \in Nat /\ pending <= made
        /\ log \in Seq(Event) /\ Retains(ring, log) /\ Ordered(log, made, pending)
    BY DEF NodeInv, Retains, Ordered
  <1>0. CASE UNCHANGED nodeVars
    <2>1. epoch' = epoch /\ ended' = ended /\ ring' = ring /\ log' = log /\ made' = made /\ pending' = pending
      BY <1>0 DEF nodeVars
    <2> QED  BY <1>t, <2>1 DEF NodeInv, Retains, Ordered
  <1>1. CASE AgentUpdate
    <2>1. /\ epoch' = epoch /\ ended' = ended /\ ring' = ring /\ log' = log
          /\ made' = made + 1 /\ pending' = made + 1
      BY <1>1 DEF AgentUpdate
    <2>2. \A k \in DOMAIN log : log[k].made \in Nat
      <3>1. \A k \in DOMAIN log : log[k] \in Event  BY <1>t, LenProperties, ElementOfSeq
      <3> QED  BY <3>1 DEF Event
    <2>3. Ordered(log, made + 1, made + 1)  BY <1>t, <2>2 DEF Ordered
    <2> QED  BY <1>t, <2>1, <2>3 DEF NodeInv, Retains, Ordered
  <1>2. ASSUME NEW notice, FanOut(Flushed, notice, <<>>), epoch' = epoch, ended' = ended, made' = made,
               pending' = 0
        PROVE  NodeInv'
    <2> DEFINE none == <<>>
    <2>1. AtMostOne(none) /\ Len(none) # 1
      <3>1. <<>> \in Seq(Event) /\ Len(<<>>) = 0  BY EmptySeq
      <3> QED  BY <3>1 DEF AtMostOne
    <2>2. FanOut(Flushed, notice, none)  BY <1>2
    <2> HIDE DEF none
    <2> QED  BY <1>2, <1>t, <2>1, <2>2, FanOutKeeps
  <1>3. CASE CoalescerFires
    <2>1. FanOut(Flushed, <<>>, <<>>) /\ epoch' = epoch /\ ended' = ended /\ made' = made /\ pending' = 0
      BY <1>3 DEF CoalescerFires
    <2> QED  BY <1>2, <2>1
  <1>4. CASE Detach
    <2> DEFINE closed == <<[t |-> "closed"]>>
    <2>1. FanOut(Flushed, closed, <<>>) /\ epoch' = epoch /\ ended' = ended /\ made' = made /\ pending' = 0
      BY <1>4 DEF Detach
    <2> HIDE DEF closed
    <2> QED  BY <1>2, <2>1
  <1>5. ASSUME NEW kind \in Kind, AgentEvent(kind)  PROVE NodeInv'
    <2> DEFINE number == made + 1
               rest == <<NewEvent(kind, number)>>
               notice == StateNotice(turn')
    <2>1. /\ FanOut(Flushed, notice, rest) /\ epoch' = epoch /\ made' = number /\ pending' = 0
          /\ ended' \in {ended, Len(log')}
      BY <1>5 DEF AgentEvent, Settle
    <2>2. number \in Nat /\ made <= number /\ made < number  BY <1>t
    <2> HIDE DEF number
    <2>3. AtMostOne(rest) /\ rest[1].made = number  BY <1>t, <2>2, NewEventType
    <2> HIDE DEF rest, notice
    <2> QED  BY <2>1, <2>2, <2>3, FanOutKeeps
  <1>6. CASE Close
    <2>1. /\ ring' = NoRing /\ log' = log \o Stamped(Flushed, 0)
          /\ epoch' = epoch /\ ended' = ended /\ made' = made /\ pending' = 0
      BY <1>6 DEF Close
    <2>2. Stamped(Flushed, 0) \in Seq(Event) /\ Ordered(log', made, 0)
      BY <2>1, FlushedInOrder DEF AtMostOne
    <2>3. log' \in Seq(Event)  BY <1>t, <2>1, <2>2, ConcatProperties
    <2>4. Retains(ring', log')  BY <2>1, <2>3, NoRingRetains
    <2> QED  BY <1>t, <2>1, <2>2, <2>4 DEF NodeInv, Retains, Ordered
  <1>7. CASE Restart
    <2>1. /\ ring' = NoRing /\ log' = log /\ epoch' = epoch + 1 /\ ended' = Len(log)
          /\ made' = made /\ pending' = 0 /\ Len(log) \in Nat
      BY <1>7, <1>t, LenProperties DEF Restart
    <2>2. Retains(NoRing, log)  BY <1>t, NoRingRetains
    <2>3. Ordered(log, made, 0)  BY <1>t DEF Ordered
    <2> QED  BY <1>t, <2>1, <2>2, <2>3 DEF NodeInv
  <1>8. CASE ServeReplay \/ ServeHistory \/ UplinkBreaks \/ PeerOffline \/ Redial \/ ClientDrops
             \/ ClientReturns \/ Receive
    <2>1. UNCHANGED nodeVars
      BY <1>8 DEF ServeReplay, ServeHistory, UplinkBreaks, PeerOffline, Redial, ClientDrops, ClientReturns, Receive
    <2> QED  BY <1>0, <2>1
  <1>9. CASE UNCHANGED vars
    <2>1. UNCHANGED nodeVars  BY <1>9 DEF vars, nodeVars
    <2> QED  BY <1>0, <2>1
  <1> QED  BY <1>1, <1>3, <1>4, <1>5, <1>6, <1>7, <1>8, <1>9 DEF Next

\* The node's invariant holds in every reachable state.
THEOREM NodeInvariance == Spec => []NodeInv
  <1>1. Init => NodeInv
    <2> SUFFICES ASSUME Init PROVE NodeInv  OBVIOUS
    <2>1. epoch = 1 /\ ended = 0 /\ ring = NoRing /\ log = <<>> /\ made = 0 /\ pending = 0  BY DEF Init
    <2>2. log \in Seq(Event) /\ DOMAIN log = {}  BY <2>1, EmptySeq
    <2>3. Retains(ring, log)  BY <2>1, <2>2, NoRingRetains
    <2>4. Ordered(log, made, pending)  BY <2>1, <2>2 DEF Ordered
    <2> QED  BY <2>1, <2>3, <2>4 DEF NodeInv, Retains, Ordered
  <1> QED  BY <1>1, NodeStep, PTL DEF Spec

\* SessionEventSequencer retains the last events fanned out, numbered up to head
\* without a hole, whatever it evicts: record never refuses an event.
THEOREM RingStaysContiguous == Spec => []RingContiguous
  <1>1. NodeInv => RingContiguous  BY DEF NodeInv, Retains, RingContiguous
  <1> QED  BY <1>1, NodeInvariance, PTL

\* The coalescer never lets an event overtake the text it holds back.
THEOREM FanOutStaysOrdered == Spec => []FanOutOrdered
  <1>1. NodeInv => FanOutOrdered  BY DEF NodeInv, Ordered, FanOutOrdered
  <1> QED  BY <1>1, NodeInvariance, PTL

\* What a client misses is in the ring unless replay answers reset: replay tests
\* the oldest entry only, and no event behind it is missing.
THEOREM ReplaysStayComplete == Spec => []ReplayComplete
  <1>1. NodeInv => ReplayComplete
    <2> SUFFICES ASSUME NodeInv, NEW after \in 0 .. ring.head, ~Evicted(ring, after)
                 PROVE  LET tail == ReplayTail(ring, after)
                        IN /\ Len(tail) = ring.head - after
                           /\ \A k \in 1 .. Len(tail) : tail[k].seq = after + k
      BY DEF ReplayComplete
    <2> DEFINE es == ring.entries
               n == Len(ring.entries)
               h == ring.head
               d == after - (h - n)
               tail == ReplayTail(ring, after)
    <2>1. /\ h \in Nat /\ es \in Seq(Event) /\ n <= h /\ (h > 0 => n > 0)
          /\ \A k \in 1 .. n : es[k].seq = h - n + k
      BY DEF NodeInv, Retains
    <2>2. n \in Nat /\ DOMAIN es = 1 .. n /\ (n > 0 => es # <<>>)  BY <2>1, LenProperties, EmptySeq
    <2>3. after \in Nat /\ after <= h  BY <2>1
    <2>4. d \in 0 .. n
      <3>1. CASE n = 0
        <4>1. h = 0  BY <3>1, <2>1
        <4> QED  BY <3>1, <4>1, <2>3
      <3>2. CASE n # 0
        <4>1. es # <<>> /\ 1 \in 1 .. n  BY <3>2, <2>2
        <4>2. Oldest(ring) = h - n + 1  BY <2>1, <4>1 DEF Oldest
        <4>3. after = h \/ ~(after + 1 < h - n + 1)  BY <2>1, <2>3, <4>2 DEF Evicted
        <4> QED  BY <4>3, <2>1, <2>2, <2>3
      <3> QED  BY <3>1, <3>2
    <2>5. {k \in DOMAIN es : es[k].seq <= after} = 1 .. d
      <3>1. \A k \in 1 .. n : es[k].seq <= after <=> k <= d
        <4> TAKE k \in 1 .. n
        <4>1. es[k].seq = h - n + k  BY <2>1
        <4> HIDE DEF es
        <4>2. h - n + k <= after <=> k <= d  BY <2>1, <2>2, <2>3
        <4> QED  BY <4>1, <4>2
      <3>2. \A k \in 1 .. d : k \in 1 .. n /\ k <= d  BY <2>2, <2>4
      <3>3. \A k \in 1 .. n : k <= d => k \in 1 .. d  BY <2>2, <2>4
      <3> HIDE DEF d, n, es
      <3> QED  BY <2>2, <3>1, <3>2, <3>3
    <2>6. d \in Int /\ Cardinality(1 .. d) = d
      <3>1. d \in Nat  BY <2>2, <2>4
      <3> HIDE DEF d
      <3>2. 1 \in Int /\ d \in Int  BY <3>1
      <3>3. Cardinality(1 .. d) = IF 1 > d THEN 0 ELSE d - 1 + 1  BY <3>2, FS_Interval
      <3> QED  BY <3>1, <3>3
    <2>7. tail = SubSeq(es, d + 1, n)
      <3>1. tail = Since(es, Cardinality(1 .. d) + 1)  BY <2>5 DEF ReplayTail
      <3> QED  BY <2>6, <3>1 DEF Since
    <2> HIDE DEF tail, d, n, es, h
    <2>8. \A i \in d + 1 .. n : i \in 1 .. n  BY <2>2, <2>4
    <2>9. \A i \in d + 1 .. n : es[i] \in Event  BY <2>1, <2>2, <2>8, ElementOfSeq DEF n
    <2>10. /\ Len(SubSeq(es, d + 1, n)) = IF d + 1 <= n THEN n - (d + 1) + 1 ELSE 0
           /\ \A i \in 1 .. n - (d + 1) + 1 : SubSeq(es, d + 1, n)[i] = es[d + 1 + i - 1]
      <3>1. d + 1 \in Int /\ n \in Int  BY <2>2, <2>6
      <3> QED  BY <2>9, <3>1, SubSeqProperties
    <2>11. Len(tail) = n - d /\ \A i \in 1 .. n - d : tail[i] = es[d + i]
      <3>1. /\ n - (d + 1) + 1 = n - d /\ (~(d + 1 <= n) => n - d = 0)
            /\ \A i \in 1 .. n - d : d + 1 + i - 1 = d + i
        BY <2>2, <2>4
      <3> QED  BY <2>7, <2>10, <3>1
    <2>12. n - d = h - after  BY <2>1, <2>2, <2>3 DEF d
    <2>13. \A i \in 1 .. n - d : tail[i].seq = after + i
      <3> TAKE i \in 1 .. n - d
      <3>1. d + i \in 1 .. n  BY <2>2, <2>4
      <3>2. es[d + i].seq = h - n + (d + i)  BY <2>1, <3>1
      <3>3. h - n + (d + i) = after + i  BY <2>1, <2>2, <2>3 DEF d
      <3> QED  BY <2>11, <3>2, <3>3
    <2> QED  BY <2>11, <2>12, <2>13 DEF tail, h
  <1> QED  BY <1>1, NodeInvariance, PTL
=============================================================================
