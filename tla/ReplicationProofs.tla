-------------------------- MODULE ReplicationProofs --------------------------
(***************************************************************************)
(* The safety of session replication, for any number of turns, overlapping *)
(* ships, faults and promotions.  The shapes below carry what every frame  *)
(* and every application keeps by itself; Fetched and Snapshot say how     *)
(* they stand to the repositories and to the running session's transcript. *)
(***************************************************************************)
EXTENDS Replication, TLAPS, SequenceTheorems, FiniteSetTheorems

Epoch == 0 .. MaxEpoch
Waiter == {Nobody} \union Slot
FrameShape == [epoch : Epoch, mode : {"full", "append"}, base : Nat, records : Turn, hash : Turn,
               ckpt : Turn, since : Turn, bundle : BOOLEAN, slot : Waiter]

\* What buildReplFrame puts in a frame: the whole transcript, or what follows
\* its base; and a bundle only of a checkpoint.
WellBuilt(f) ==
  /\ f.bundle => f.ckpt # << >>
  /\ f.mode = "full" => f.records = f.hash
  /\ f.mode = "append" => f.base <= Len(f.hash) /\ f.records = SubSeq(f.hash, f.base + 1, Len(f.hash))
Frame == {f \in FrameShape : WellBuilt(f)}

Answer == [slot : Waiter, status : {"applied", "stale", "resync", "needFull"}, cursor : Cursor]
JobShape == [frame : Frame, next : Turn, st : {"git", "persist"}, forgotten : BOOLEAN]
Job == {j \in JobShape : j.frame.ckpt # << >>}
Ship == [st : {"idle", "declare", "connect", "building", "wait"}, retry : BOOLEAN,
         cursor : Cursor, records : Turn, epoch : Epoch]
ReplState == [epoch : Epoch, records : Turn, hash : Turn, ckpt : Turn, tree : BOOLEAN]
Owner == [declared : BOOLEAN, epoch : Epoch, cursor : Cursor]
Promo == [st : {"none", "read", "won"}, expected : Nat]

Shape ==
  /\ cp \in [owner : Node \union {NoNode}, epoch : Epoch]
  /\ log \in [Node -> Turn] /\ git \in Turn /\ repo \in [Node -> Turn]
  /\ live \subseteq Node /\ up \subseteq Node /\ sync \in BOOLEAN
  /\ me \in [Node -> Owner] /\ repl \in [Node -> ReplState]
  /\ ship \in [Node -> [Slot -> Ship]]
  /\ chan \in [Node -> Seq(Frame)] /\ acks \in [Node -> Seq(Answer)]
  /\ jobs \in [Node -> SUBSET Job]
  /\ promo \in [Node -> Promo]
  /\ IsFiniteSet(turns) /\ Cardinality(turns) <= MaxTurns
  /\ faults \in 0 .. MaxFaults /\ calm \in Node \union {NoNode}

\* A promotion that read the epoch read one below the bound; every epoch won is
\* at most the one in the row, and won by one machine.
Fence ==
  /\ \A m \in Node : promo[m].st = "read" => promo[m].expected < MaxEpoch
  /\ \A w \in won : w.epoch \in Nat /\ w.epoch <= cp.epoch
  /\ OnePromotionPerEpoch

\* The checkpoint of a frame about to be persisted is in the repository, and so
\* is the one a committed view names.
Fetched ==
  /\ \A m \in Node : \A j \in jobs[m] : j.st = "persist" => IsPrefix(j.frame.ckpt, repo[m])
  /\ CheckpointBeforeTranscript

\* Before the session runs anywhere else, nothing flows back from the other
\* machine, and all that is read, on its way, being applied or stored is a
\* prefix of the running transcript.
Silent ==
  /\ jobs[First] = {}
  /\ \A n \in Node \ {First} :
       chan[n] = << >> /\ acks[n] = << >> /\ \A k \in Slot : ship[n][k] = NoShip
Flowing ==
  /\ \A k \in Slot : ship[First][k].st = "building" => IsPrefix(ship[First][k].records, log[First])
  /\ \A i \in 1 .. Len(chan[First]) : IsPrefix(chan[First][i].hash, log[First])
  /\ \A m \in Node : \A j \in jobs[m] : IsPrefix(j.next, log[First])
Stored ==
  \A m \in Node : IsPrefix(log[m], log[First]) /\ (m # First => IsPrefix(repl[m].records, log[First]))
Snapshot == Unbranched => Silent /\ Flowing /\ Stored

IInv == Shape /\ Fence /\ Fetched /\ Snapshot

-----------------------------------------------------------------------------
(* Prefixes. *)

\* A prefix, element by element.
LEMMA PrefixElements ==
  ASSUME NEW S, NEW s \in Seq(S), NEW t \in Seq(S)
  PROVE  IsPrefix(s, t) <=> Len(s) <= Len(t) /\ \A i \in 1 .. Len(s) : s[i] = t[i]
  <1>0. Len(s) \in Nat /\ Len(t) \in Nat  BY LenProperties
  <1>1. ASSUME Len(s) <= Len(t)
        PROVE  SubSeq(s, 1, Len(s)) = SubSeq(t, 1, Len(s)) <=> \A i \in 1 .. Len(s) : s[i] = t[i]
    <2>1. (\A i \in 1 .. Len(s) : s[i] \in S) /\ (\A i \in 1 .. Len(s) : t[i] \in S)
      BY <1>0, <1>1, ElementOfSeq
    <2>2. /\ SubSeq(s, 1, Len(s)) \in Seq(S) /\ Len(SubSeq(s, 1, Len(s))) = Len(s)
          /\ \A i \in 1 .. Len(s) : SubSeq(s, 1, Len(s))[i] = s[i]
      BY <2>1, <1>0, SubSeqProperties
    <2>3. /\ SubSeq(t, 1, Len(s)) \in Seq(S) /\ Len(SubSeq(t, 1, Len(s))) = Len(s)
          /\ \A i \in 1 .. Len(s) : SubSeq(t, 1, Len(s))[i] = t[i]
      BY <2>1, <1>0, SubSeqProperties
    <2> HIDE <2>1
    <2> QED  BY <2>2, <2>3, SeqEqual
  <1> QED  BY <1>0, <1>1 DEF IsPrefix

\* The order of prefixes.
LEMMA PrefixOrder ==
  /\ \A s \in Turn : IsPrefix(s, s) /\ IsPrefix(<< >>, s)
  /\ \A s, t, u \in Turn : IsPrefix(s, t) /\ IsPrefix(t, u) => IsPrefix(s, u)
  <1>1. << >> \in Turn /\ Len(<< >>) = 0  BY EmptySeq DEF Turn
  <1>2. \A s, t \in Turn : IsPrefix(s, t) <=> Len(s) <= Len(t) /\ \A i \in 1 .. Len(s) : s[i] = t[i]
    BY PrefixElements DEF Turn
  <1>3. \A s \in Turn : Len(s) \in Nat  BY LenProperties DEF Turn
  <1>4. \A s \in Turn : IsPrefix(s, s) /\ IsPrefix(<< >>, s)  BY <1>1, <1>2, <1>3
  <1>5. ASSUME NEW s \in Turn, NEW t \in Turn, NEW u \in Turn, IsPrefix(s, t), IsPrefix(t, u)
        PROVE  IsPrefix(s, u)
    <2>1. /\ Len(s) <= Len(t) /\ \A i \in 1 .. Len(s) : s[i] = t[i]
          /\ Len(t) <= Len(u) /\ \A i \in 1 .. Len(t) : t[i] = u[i]
      BY <1>2, <1>5
    <2>2. Len(s) \in Nat /\ Len(t) \in Nat /\ Len(u) \in Nat  BY <1>3
    <2>3. \A i \in 1 .. Len(s) : i \in 1 .. Len(t)  BY <2>1, <2>2
    <2>4. Len(s) <= Len(u) /\ \A i \in 1 .. Len(s) : s[i] = u[i]  BY <2>1, <2>2, <2>3
    <2> QED  BY <2>4, <1>2
  <1> QED  BY <1>4, <1>5

\* A turn added at the end keeps what was there.
LEMMA AppendTurn ==
  ASSUME NEW s \in Turn, NEW x \in 1 .. MaxTurns
  PROVE  Append(s, x) \in Turn /\ IsPrefix(s, Append(s, x))
  <1>1. s \in Seq(1 .. MaxTurns) /\ Len(s) \in Nat  BY LenProperties DEF Turn
  <1>2. /\ Append(s, x) \in Seq(1 .. MaxTurns) /\ Len(Append(s, x)) = Len(s) + 1
        /\ \A i \in 1 .. Len(s) : Append(s, x)[i] = s[i]
    BY <1>1, AppendProperties
  <1>3. Len(s) <= Len(Append(s, x))  BY <1>1, <1>2
  <1> QED  BY <1>1, <1>2, <1>3, PrefixElements DEF Turn

\* The rest of a transcript behind a position is a transcript.
LEMMA RestOfTurns ==
  ASSUME NEW s \in Turn, NEW b \in Nat
  PROVE  SubSeq(s, b + 1, Len(s)) \in Turn
  <1>1. s \in Seq(1 .. MaxTurns) /\ Len(s) \in Nat  BY LenProperties DEF Turn
  <1>2. \A i \in 1 .. Len(s) : s[i] \in 1 .. MaxTurns  BY <1>1, ElementOfSeq
  <1>3. \A i \in b + 1 .. Len(s) : i \in 1 .. Len(s)  BY <1>1
  <1>4. \A i \in b + 1 .. Len(s) : s[i] \in 1 .. MaxTurns  BY <1>2, <1>3
  <1>5. b + 1 \in Int /\ Len(s) \in Int  BY <1>1
  <1> QED  BY <1>4, <1>5, SubSeqProperties DEF Turn

\* applyReplFrame's append: a frame that continues where a replica of the same
\* transcript ends makes it the transcript the frame was built from.
LEMMA Splice ==
  ASSUME NEW r \in Turn, NEW h \in Turn, NEW l \in Turn, IsPrefix(r, l), IsPrefix(h, l), Len(r) <= Len(h)
  PROVE  r \o SubSeq(h, Len(r) + 1, Len(h)) = h
  <1> DEFINE d == SubSeq(h, Len(r) + 1, Len(h))
             S == 1 .. MaxTurns
  <1>1. r \in Seq(S) /\ h \in Seq(S) /\ l \in Seq(S) /\ Len(r) \in Nat /\ Len(h) \in Nat /\ Len(l) \in Nat
    BY LenProperties DEF Turn
  <1>2. /\ Len(r) <= Len(l) /\ \A i \in 1 .. Len(r) : r[i] = l[i]
        /\ Len(h) <= Len(l) /\ \A i \in 1 .. Len(h) : h[i] = l[i]
    BY <1>1, PrefixElements
  <1>3. \A i \in Len(r) + 1 .. Len(h) : h[i] \in S
    <2>1. \A i \in 1 .. Len(h) : h[i] \in S  BY <1>1, ElementOfSeq
    <2>2. \A i \in Len(r) + 1 .. Len(h) : i \in 1 .. Len(h)  BY <1>1
    <2> QED  BY <2>1, <2>2
  <1>4. /\ d \in Seq(S) /\ Len(d) = IF Len(r) + 1 <= Len(h) THEN Len(h) - (Len(r) + 1) + 1 ELSE 0
        /\ \A i \in 1 .. Len(h) - (Len(r) + 1) + 1 : d[i] = h[(Len(r) + 1) + i - 1]
    BY <1>1, <1>3, SubSeqProperties
  <1> HIDE DEF d, S
  <1>5. Len(d) = Len(h) - Len(r) /\ \A i \in 1 .. Len(d) : d[i] = h[Len(r) + i]  BY <1>1, <1>4
  <1>6. /\ r \o d \in Seq(S) /\ Len(r \o d) = Len(r) + Len(d)
        /\ \A i \in 1 .. Len(r) + Len(d) : (r \o d)[i] = IF i <= Len(r) THEN r[i] ELSE d[i - Len(r)]
    BY <1>1, <1>4, ConcatProperties
  <1>7. Len(r \o d) = Len(h)  BY <1>1, <1>5, <1>6
  <1>8. ASSUME NEW i \in 1 .. Len(h)  PROVE (r \o d)[i] = h[i]
    <2>1. CASE i <= Len(r)
      <3>1. i \in 1 .. Len(r) /\ i \in 1 .. Len(r) + Len(d)  BY <2>1, <1>1, <1>5
      <3> QED  BY <2>1, <3>1, <1>2, <1>6
    <2>2. CASE ~(i <= Len(r))
      <3>1. i - Len(r) \in 1 .. Len(d) /\ i \in 1 .. Len(r) + Len(d) /\ Len(r) + (i - Len(r)) = i
        BY <2>2, <1>1, <1>5
      <3>2. (r \o d)[i] = d[i - Len(r)]  BY <2>2, <3>1, <1>6
      <3>3. d[i - Len(r)] = h[Len(r) + (i - Len(r))]  BY <3>1, <1>5
      <3> QED  BY <3>1, <3>2, <3>3
    <2> QED  BY <2>1, <2>2
  <1>9. \A i \in 1 .. Len(h) : (r \o d)[i] = h[i]  BY <1>8
  <1> QED  BY <1>1, <1>6, <1>7, <1>9, SeqEqual DEF d
-----------------------------------------------------------------------------
(* What the operators of the model return. *)

\* The two machines are each other's standby.
LEMMA Standbys ==
  /\ \A n \in Node : StandbyOf(n) \in Node /\ StandbyOf(n) # n /\ StandbyOf(StandbyOf(n)) = n
  /\ \A n \in Node \ {First} : StandbyOf(n) = First /\ n = StandbyOf(First)
  /\ \A n \in Node : OwnerOf(n) = StandbyOf(n)
  <1>1. PICK m \in Node : m # First /\ Node = {First, m}  BY TwoMachines
  <1>2. StandbyOf(First) = m  BY <1>1 DEF StandbyOf
  <1>3. StandbyOf(m) = First  BY <1>1 DEF StandbyOf
  <1> QED  BY <1>1, <1>2, <1>3, TwoMachines DEF OwnerOf

\* The bounds, each by itself.
LEMMA Bounds == MaxTurns \in Nat /\ MaxEpoch \in Nat /\ MaxFaults \in Nat /\ MaxShips \in Nat
  BY BoundsAreNat

\* The initial values have the shapes of their variables.
LEMMA InitialShapes ==
  /\ << >> \in Turn /\ NoCursor \in Cursor /\ InitialReplState \in ReplState
  /\ NoShip \in Ship /\ Undeclared \in Owner /\ NoPromo \in Promo
  <1>1. << >> \in Turn  BY EmptySeq DEF Turn
  <1>2. NoCursor \in Cursor  BY <1>1 DEF NoCursor, Cursor
  <1>3. 0 \in Epoch  BY Bounds DEF Epoch
  <1>4. InitialReplState \in ReplState  BY <1>1, <1>3 DEF InitialReplState, ReplState
  <1>5. NoShip \in Ship  BY <1>1, <1>2, <1>3 DEF NoShip, Ship
  <1>6. Undeclared \in Owner  BY <1>2, <1>3 DEF Undeclared, Owner
  <1>7. NoPromo \in Promo  BY DEF NoPromo, Promo
  <1> QED  BY <1>1, <1>2, <1>4, <1>5, <1>6, <1>7

\* buildReplFrame builds a frame of the transcript it was given.
LEMMA FrameBuilt ==
  ASSUME NEW epoch \in Epoch, NEW records \in Turn, NEW ckpt \in Turn, NEW cursor \in Cursor,
         NEW k \in Slot, sync \in BOOLEAN
  PROVE  /\ BuildReplFrame(epoch, records, ckpt, cursor, k) \in Frame
         /\ BuildReplFrame(epoch, records, ckpt, cursor, k).hash = records
  <1> DEFINE append == PrefixMatches(records, cursor)
             base == IF append THEN cursor.count ELSE 0
             rest == SubSeq(records, base + 1, Len(records))
             since == BundleSince(ckpt, cursor)
             bundle == sync /\ ckpt # << >> /\ ckpt # cursor.ckpt
             mode == IF append THEN "append" ELSE "full"
             f == BuildReplFrame(epoch, records, ckpt, cursor, k)
  <1>1. cursor.count \in Nat /\ cursor.ckpt \in Turn  BY DEF Cursor
  <1>2. base \in Nat  BY <1>1
  <1>3. rest \in Turn  BY <1>2, RestOfTurns
  <1>4. since \in Turn  BY <1>1, InitialShapes DEF BundleSince
  <1>5. f = [epoch |-> epoch, mode |-> mode, base |-> base, records |-> rest, hash |-> records,
             ckpt |-> ckpt, since |-> since, bundle |-> bundle, slot |-> k]
    BY DEF BuildReplFrame
  <1>6. bundle \in BOOLEAN /\ mode \in {"full", "append"} /\ k \in Waiter  BY DEF Waiter
  <1>7. bundle => ckpt # << >>  OBVIOUS
  <1>8. mode = "append" => base <= Len(records)
    <2>1. Len(records) \in Nat  BY LenProperties DEF Turn
    <2> QED  BY <2>1 DEF PrefixMatches
  <1>9. mode = "full" => rest = records
    <2> SUFFICES ASSUME ~append PROVE SubSeq(records, 0 + 1, Len(records)) = records  OBVIOUS
    <2>1. records \in Seq(1 .. MaxTurns)  BY DEF Turn
    <2>2. SubSeq(records, 1, Len(records)) = records  BY <2>1, SubSeqFull
    <2> QED  BY <2>2
  <1> HIDE DEF append, base, since, bundle, mode, f
  <1>10. f \in FrameShape  BY <1>2, <1>3, <1>4, <1>5, <1>6 DEF FrameShape
  <1>11. WellBuilt(f)  BY <1>5, <1>7, <1>8, <1>9 DEF WellBuilt
  <1>12. f.hash = records  BY <1>5
  <1> QED  BY <1>10, <1>11, <1>12 DEF Frame, f

\* The cursor and the acknowledgement of a view.
LEMMA AckShape ==
  ASSUME NEW f \in Frame, NEW s \in ReplState, NEW status \in {"applied", "stale", "resync", "needFull"}
  PROVE  CursorOf(s) \in Cursor /\ Ack(f, status, s) \in Answer
  <1>1. s.records \in Turn /\ s.hash \in Turn /\ s.ckpt \in Turn  BY DEF ReplState
  <1>2. Len(s.records) \in Nat  BY <1>1, LenProperties DEF Turn
  <1>3. CursorOf(s) \in Cursor  BY <1>1, <1>2 DEF CursorOf, Cursor
  <1>4. f.slot \in Waiter  BY DEF Frame, FrameShape
  <1> QED  BY <1>3, <1>4 DEF Ack, Answer

\* The records a frame leads to.
LEMMA NextShape ==
  ASSUME NEW f \in Frame, NEW s \in ReplState
  PROVE  NextRecords(s, f) \in Turn
  <1>1. f.records \in Turn /\ s.records \in Turn  BY DEF Frame, FrameShape, ReplState
  <1>2. s.records \o f.records \in Turn  BY <1>1, ConcatProperties DEF Turn
  <1> QED  BY <1>1, <1>2 DEF NextRecords

\* The view a frame leads to.
LEMMA AppliedShape ==
  ASSUME NEW f \in Frame, NEW s \in ReplState, NEW next \in Turn, NEW fetched \in BOOLEAN
  PROVE  /\ Applied(s, f, next, fetched) \in ReplState
         /\ Applied(s, f, next, fetched).records = next
         /\ Applied(s, f, next, fetched).ckpt = IF f.ckpt = << >> THEN s.ckpt ELSE f.ckpt
         /\ Applied(s, f, next, fetched).tree =
              (fetched \/ (s.tree /\ (IF f.ckpt = << >> THEN s.ckpt ELSE f.ckpt) = s.ckpt))
  <1>1. /\ f.records \in Turn /\ f.hash \in Turn /\ f.ckpt \in Turn /\ f.epoch \in Epoch
    BY DEF Frame, FrameShape
  <1>2. /\ s.records \in Turn /\ s.ckpt \in Turn /\ s.epoch \in Epoch /\ s.tree \in BOOLEAN
    BY DEF ReplState
  <1> DEFINE ckpt == IF f.ckpt = << >> THEN s.ckpt ELSE f.ckpt
             epoch == IF f.epoch > s.epoch THEN f.epoch ELSE s.epoch
             tree == fetched \/ (s.tree /\ ckpt = s.ckpt)
  <1>5. Applied(s, f, next, fetched) =
          [epoch |-> epoch, records |-> next, hash |-> f.hash, ckpt |-> ckpt, tree |-> tree]
    BY DEF Applied
  <1>6. ckpt \in Turn /\ epoch \in Epoch  BY <1>1, <1>2
  <1>7. tree \in BOOLEAN  OBVIOUS
  <1>8. tree = (fetched \/ (s.tree /\ (IF f.ckpt = << >> THEN s.ckpt ELSE f.ckpt) = s.ckpt))
    OBVIOUS
  <1>9. ckpt = IF f.ckpt = << >> THEN s.ckpt ELSE f.ckpt  OBVIOUS
  <1> HIDE DEF ckpt, epoch, tree
  <1>10. Applied(s, f, next, fetched) \in ReplState  BY <1>1, <1>5, <1>6, <1>7 DEF ReplState
  <1> QED  BY <1>5, <1>8, <1>9, <1>10

\* An accepted frame of the running session's transcript leads the replica to
\* exactly the transcript it was built from.
LEMMA AcceptedIsSnapshot ==
  ASSUME NEW f \in Frame, NEW s \in ReplState, NEW l \in Turn,
         IsPrefix(s.records, l), IsPrefix(f.hash, l), Fits(s, f)
  PROVE  NextRecords(s, f) = f.hash
  <1>1. WellBuilt(f) /\ f.hash \in Turn /\ f.mode \in {"full", "append"}  BY DEF Frame, FrameShape
  <1>2. s.records \in Turn  BY DEF ReplState
  <1>3. CASE f.mode = "full"  BY <1>1, <1>3 DEF NextRecords, WellBuilt
  <1>4. CASE f.mode = "append"
    <2>1. f.base = Len(s.records) /\ f.base <= Len(f.hash) /\ f.records = SubSeq(f.hash, f.base + 1, Len(f.hash))
      BY <1>1, <1>4 DEF Fits, WellBuilt
    <2>2. s.records \o SubSeq(f.hash, Len(s.records) + 1, Len(f.hash)) = f.hash
      BY <1>1, <1>2, <2>1, Splice
    <2> QED  BY <1>4, <2>1, <2>2 DEF NextRecords
  <1> QED  BY <1>1, <1>3, <1>4

-----------------------------------------------------------------------------
(* Steps that add no frame and apply none. *)

\* Steps that leave the fence alone.
LEMMA FenceIdle ==
  ASSUME Fence, won' = won, cp'.epoch = cp.epoch,
         \A m \in Node : promo'[m] = promo[m] \/ promo'[m].st # "read"
  PROVE  Fence'
  BY DEF Fence, OnePromotionPerEpoch

\* A step that stores nothing, and keeps of frames and applications only what
\* there was, keeps the replica a snapshot with its checkpoint fetched.
LEMMA Carried ==
  ASSUME IInv, Shape', UNCHANGED <<log, repo, turns>>,
         \A n \in Node : repl'[n] = repl[n] \/ repl'[n] = InitialReplState,
         \A n \in Node : \A i \in 1 .. Len(chan'[n]) :
           \E l \in 1 .. Len(chan[n]) : chan'[n][i].hash = chan[n][l].hash,
         \A m \in Node : \A j \in jobs'[m] :
           \E x \in jobs[m] : j.st = x.st /\ j.next = x.next /\ j.frame.ckpt = x.frame.ckpt,
         \A k \in Slot : ship'[First][k].st = "building" =>
           ship'[First][k].records = log[First] \/ ship'[First][k] = ship[First][k],
         Unbranched => \A n \in Node \ {First} : acks'[n] = << >> /\ \A k \in Slot : ship'[n][k] = NoShip
  PROVE  Fetched' /\ Snapshot'
  <1>1. First \in Node /\ log[First] \in Turn /\ \A n \in Node : log[n] \in Turn /\ repo[n] \in Turn
    BY TwoMachines DEF IInv, Shape
  <1>2. Fetched'
    <2>1. \A m \in Node : \A j \in jobs'[m] : j.st = "persist" => IsPrefix(j.frame.ckpt, repo'[m])
      BY DEF IInv, Fetched
    <2>2. CheckpointBeforeTranscript'
      BY DEF IInv, Fetched, CheckpointBeforeTranscript, InitialReplState
    <2> QED  BY <2>1, <2>2 DEF Fetched
  <1>3. Snapshot'
    <2> SUFFICES ASSUME Unbranched' PROVE Silent' /\ Flowing' /\ Stored'  BY DEF Snapshot
    <2>1. Unbranched  BY DEF Unbranched
    <2>2. Silent /\ Flowing /\ Stored  BY <2>1 DEF IInv, Snapshot
    <2>3. Silent'
      <3>1. jobs'[First] = {}  BY <2>2, <1>1 DEF Silent
      <3>2. ASSUME NEW n \in Node \ {First}  PROVE chan'[n] = << >>
        <4>1. chan[n] = << >>  BY <2>2 DEF Silent
        <4>2. chan'[n] \in Seq(Frame)  BY DEF Shape
        <4>3. Len(chan[n]) = 0 /\ Len(chan'[n]) \in Nat  BY <4>1, <4>2, LenProperties, EmptySeq
        <4>4. Len(chan'[n]) = 0
          <5>1. ASSUME Len(chan'[n]) # 0 PROVE FALSE
            <6>1. 1 \in 1 .. Len(chan'[n])  BY <5>1, <4>3
            <6>2. \E l \in 1 .. Len(chan[n]) : TRUE  BY <6>1
            <6> QED  BY <6>2, <4>3
          <5> QED  BY <5>1
        <4> QED  BY <4>2, <4>4, EmptySeq
      <3> QED  BY <3>1, <3>2, <2>1 DEF Silent
    <2>4. Flowing'
      <3>1. \A k \in Slot : ship'[First][k].st = "building" => IsPrefix(ship'[First][k].records, log'[First])
        BY <2>2, <1>1, PrefixOrder DEF Flowing
      <3>2. \A i \in 1 .. Len(chan'[First]) : IsPrefix(chan'[First][i].hash, log'[First])
        BY <2>2, <1>1 DEF Flowing
      <3>3. \A m \in Node : \A j \in jobs'[m] : IsPrefix(j.next, log'[First])
        BY <2>2 DEF Flowing
      <3> QED  BY <3>1, <3>2, <3>3 DEF Flowing
    <2>5. Stored'
      <3>1. InitialReplState.records = << >>  BY DEF InitialReplState
      <3>2. \A m \in Node \ {First} : IsPrefix(repl'[m].records, log[First])
        BY <2>2, <3>1, <1>1, PrefixOrder DEF Stored
      <3> QED  BY <3>2, <2>2 DEF Stored
    <2> QED  BY <2>3, <2>4, <2>5
  <1> QED  BY <1>2, <1>3

\* Before the session runs elsewhere, only its first machine ships.
LEMMA OnlyFirstShips ==
  ASSUME IInv, Unbranched, NEW n \in Node, NEW k \in Slot, ship[n][k].st # "idle"
  PROVE  n = First
  BY DEF IInv, Snapshot, Silent, NoShip

\* A step of one call in progress leaves the machine that does not ship alone.
LEMMA OneShipMoves ==
  ASSUME IInv, NEW n \in Node, NEW k \in Slot, ship[n][k].st # "idle", acks' = acks,
         \A m \in Node, x \in Slot : m # n \/ x # k => ship'[m][x] = ship[m][x]
  PROVE  Unbranched => \A m \in Node \ {First} : acks'[m] = << >> /\ \A x \in Slot : ship'[m][x] = NoShip
  BY OnlyFirstShips DEF IInv, Snapshot, Silent

\* POST /node/sessions/:id/standby names the owner and never moves the epoch.
LEMMA DeclareKeeps ==
  ASSUME IInv, NEW n \in Node, NEW k \in Slot, Declare(n, k)
  PROVE  IInv'
  <1>s. Shape /\ ship[n][k] \in Ship /\ ship[n] \in [Slot -> Ship] /\ me[n] \in Owner  BY DEF IInv, Shape
  <1>1. PICK served \in BOOLEAN, answered \in BOOLEAN :
          /\ ~answered => faults < MaxFaults
          /\ faults' = IF answered THEN faults ELSE faults + 1
          /\ cp' = IF served THEN [cp EXCEPT !.owner = n] ELSE cp
          /\ me' = [me EXCEPT ![n] = [declared |-> TRUE, cursor |-> @.cursor,
                                      epoch |-> IF answered THEN cp.epoch ELSE @.epoch]]
    BY DEF Declare
  <1>2. /\ ship' = [ship EXCEPT ![n][k].st = "connect"] /\ ship[n][k].st = "declare"
        /\ UNCHANGED <<log, git, repo, live, repl, up, sync, chan, acks, jobs, promo, turns, won, calm>>
    BY DEF Declare, wire, history
  <1>3. cp' \in [owner : Node \union {NoNode}, epoch : Epoch] /\ cp'.epoch = cp.epoch
    BY <1>1, <1>s DEF Shape
  <1>4. me' \in [Node -> Owner]
    <2>1. cp.epoch \in Epoch  BY <1>s DEF Shape
    <2>2. [declared |-> TRUE, cursor |-> me[n].cursor,
           epoch |-> IF answered THEN cp.epoch ELSE me[n].epoch] \in Owner
      BY <2>1, <1>s DEF Owner
    <2> QED  BY <2>2, <1>1, <1>s DEF Shape
  <1>5. /\ ship' \in [Node -> [Slot -> Ship]]
        /\ \A m \in Node, x \in Slot : m # n \/ x # k => ship'[m][x] = ship[m][x]
        /\ ship'[n][k].st = "connect"
    <2>1. [ship[n][k] EXCEPT !.st = "connect"] \in Ship /\ [ship[n][k] EXCEPT !.st = "connect"].st = "connect"
      BY <1>s DEF Ship
    <2> QED  BY <1>2, <1>s, <2>1 DEF Shape
  <1>6. faults' \in 0 .. MaxFaults  BY <1>1, <1>s, Bounds DEF Shape
  <1>7. Shape'  BY <1>2, <1>3, <1>4, <1>5, <1>6, <1>s DEF Shape
  <1>8. Fence'  BY <1>2, <1>3, FenceIdle DEF IInv
  <1>9. ship[n][k].st # "idle"  BY <1>2
  <1>10. Unbranched => \A m \in Node \ {First} : acks'[m] = << >> /\ \A x \in Slot : ship'[m][x] = NoShip
    BY <1>2, <1>5, <1>9, OneShipMoves
  <1>11. \A x \in Slot : ship'[First][x].st = "building" =>
           ship'[First][x].records = log[First] \/ ship'[First][x] = ship[First][x]
    BY <1>5, TwoMachines
  <1>12. Fetched' /\ Snapshot'  BY <1>2, <1>7, <1>10, <1>11, Carried
  <1> QED  BY <1>7, <1>8, <1>12 DEF IInv

\* A call in progress that is dropped, or that starts to build from the log.
LEMMA ShipMoves ==
  ASSUME IInv, NEW n \in Node, NEW k \in Slot, ship[n][k].st # "idle", NEW v \in Ship,
         ship' = [ship EXCEPT ![n][k] = v], v.st = "building" => v.records = log[n],
         calm' \in Node \union {NoNode},
         UNCHANGED <<cp, log, git, repo, live, me, repl, up, sync, chan, acks, jobs, promo, turns, won, faults>>
  PROVE  IInv'
  <1>s. Shape /\ ship \in [Node -> [Slot -> Ship]]  BY DEF IInv, Shape
  <1>5. /\ ship' \in [Node -> [Slot -> Ship]]
        /\ \A m \in Node, x \in Slot : m # n \/ x # k => ship'[m][x] = ship[m][x]
        /\ ship'[n][k] = v
    BY <1>s
  <1>7. Shape'  BY <1>5, <1>s DEF Shape
  <1>8. Fence'  BY FenceIdle DEF IInv
  <1>10. Unbranched => \A m \in Node \ {First} : acks'[m] = << >> /\ \A x \in Slot : ship'[m][x] = NoShip
    BY <1>5, OneShipMoves
  <1>11. \A x \in Slot : ship'[First][x].st = "building" =>
           ship'[First][x].records = log[First] \/ ship'[First][x] = ship[First][x]
    BY <1>5, TwoMachines
  <1>12. Fetched' /\ Snapshot'  BY <1>7, <1>10, <1>11, Carried
  <1> QED  BY <1>7, <1>8, <1>12 DEF IInv

\* A round skipped because the standby could not be reached.
LEMMA SkipRoundKeeps ==
  ASSUME IInv, NEW n \in Node, NEW k \in Slot, SkipRound(n, k)
  PROVE  IInv'
  <1>1. /\ ship' = [ship EXCEPT ![n][k] = NoShip] /\ ship[n][k].st # "idle" /\ calm' \in Node \union {NoNode}
        /\ UNCHANGED <<cp, log, git, repo, live, me, repl, up, sync, chan, acks, jobs, promo, turns, won, faults>>
    BY DEF SkipRound, wire, history
  <1>2. NoShip \in Ship /\ NoShip.st # "building"  BY InitialShapes DEF NoShip
  <1> QED  BY <1>1, <1>2, ShipMoves

\* buildTurnFrame reads the whole log of the running session.
LEMMA ReadingShape ==
  ASSUME Shape, NEW n \in Node, NEW cursor \in Cursor, NEW retry \in BOOLEAN
  PROVE  Reading(n, cursor, retry) \in Ship /\ Reading(n, cursor, retry).records = log[n]
  <1>1. log[n] \in Turn /\ me[n].epoch \in Epoch  BY DEF Shape, Owner
  <1> QED  BY <1>1 DEF Reading, Ship

\* A ship reads the transcript and the cursor it will build its frame from.
LEMMA ShipBeginsKeeps ==
  ASSUME IInv, NEW n \in Node, NEW k \in Slot, ShipBegins(n, k)
  PROVE  IInv'
  <1> DEFINE v == Reading(n, me[n].cursor, TRUE)
  <1>s. Shape /\ calm \in Node \union {NoNode}  BY DEF IInv, Shape
  <1>1. /\ ship' = [ship EXCEPT ![n][k] = v] /\ ship[n][k].st # "idle" /\ calm' = calm
        /\ UNCHANGED <<cp, log, git, repo, live, me, repl, up, sync, chan, acks, jobs, promo, turns, won, faults>>
    BY DEF ShipBegins, wire, history
  <1>2. me[n].cursor \in Cursor  BY <1>s DEF Shape, Owner
  <1>3. v \in Ship /\ v.records = log[n]  BY <1>2, <1>s, ReadingShape
  <1> HIDE DEF v
  <1> QED  BY <1>1, <1>3, <1>s, ShipMoves

\* The head of the checkpoint ref an owner ships.
LEMMA HeadShape ==
  ASSUME Shape, NEW n \in Node
  PROVE  CheckpointHead(n) \in Turn
  BY DEF Shape, CheckpointHead

\* One end of a connection gets a message: the other connections are as they were.
LEMMA Sent ==
  ASSUME NEW S, NEW c \in [Node -> Seq(S)], NEW n \in Node, NEW x \in S
  PROVE  /\ [c EXCEPT ![n] = Append(@, x)] \in [Node -> Seq(S)]
         /\ Len([c EXCEPT ![n] = Append(@, x)][n]) = Len(c[n]) + 1
         /\ \A i \in 1 .. Len(c[n]) : [c EXCEPT ![n] = Append(@, x)][n][i] = c[n][i]
         /\ [c EXCEPT ![n] = Append(@, x)][n][Len(c[n]) + 1] = x
         /\ \A m \in Node \ {n} : [c EXCEPT ![n] = Append(@, x)][m] = c[m]
  <1>1. c[n] \in Seq(S)  OBVIOUS
  <1>2. /\ Append(c[n], x) \in Seq(S) /\ Len(Append(c[n], x)) = Len(c[n]) + 1
        /\ \A i \in 1 .. Len(c[n]) : Append(c[n], x)[i] = c[n][i]
        /\ Append(c[n], x)[Len(c[n]) + 1] = x
    BY <1>1, AppendProperties
  <1> QED  BY <1>2

\* One end of a connection takes the first message.
LEMMA Taken ==
  ASSUME NEW S, NEW c \in [Node -> Seq(S)], NEW n \in Node, c[n] # << >>
  PROVE  /\ [c EXCEPT ![n] = Tail(@)] \in [Node -> Seq(S)]
         /\ Head(c[n]) \in S /\ Head(c[n]) = c[n][1] /\ 1 \in 1 .. Len(c[n])
         /\ \A m \in Node : \A i \in 1 .. Len([c EXCEPT ![n] = Tail(@)][m]) :
              \E l \in 1 .. Len(c[m]) : [c EXCEPT ![n] = Tail(@)][m][i] = c[m][l]
         /\ \A m \in Node \ {n} : [c EXCEPT ![n] = Tail(@)][m] = c[m]
  <1> DEFINE d == [c EXCEPT ![n] = Tail(@)]
  <1>1. c[n] \in Seq(S)  OBVIOUS
  <1>2. /\ Head(c[n]) \in S /\ Tail(c[n]) \in Seq(S) /\ Len(Tail(c[n])) = Len(c[n]) - 1
        /\ \A i \in 1 .. Len(Tail(c[n])) : Tail(c[n])[i] = c[n][i + 1]
    BY <1>1, HeadTailProperties
  <1>3. Len(c[n]) \in Nat /\ Len(c[n]) # 0  BY <1>1, LenProperties, EmptySeq
  <1>4. Head(c[n]) = c[n][1] /\ 1 \in 1 .. Len(c[n])  BY <1>1, <1>3
  <1>5. d \in [Node -> Seq(S)] /\ d[n] = Tail(c[n]) /\ \A m \in Node \ {n} : d[m] = c[m]
    BY <1>2
  <1> HIDE DEF d
  <1>6. ASSUME NEW m \in Node, NEW i \in 1 .. Len(d[m])  PROVE \E l \in 1 .. Len(c[m]) : d[m][i] = c[m][l]
    <2>1. CASE m = n
      <3>1. i + 1 \in 1 .. Len(c[n]) /\ d[m][i] = c[n][i + 1]  BY <2>1, <1>2, <1>3, <1>5
      <3> QED  BY <2>1, <3>1
    <2>2. CASE m # n  BY <2>2, <1>5
    <2> QED  BY <2>1, <2>2
  <1> QED  BY <1>2, <1>4, <1>5, <1>6 DEF d

\* ShipFrame puts a frame of the transcript it read on the connection, or
\* nothing when the standby has it all.
LEMMA ShipFrameKeeps ==
  ASSUME IInv, NEW n \in Node, NEW k \in Slot, ShipFrame(n, k)
  PROVE  IInv'
  <1> DEFINE s == ship[n][k]
             f == BuildReplFrame(s.epoch, s.records, CheckpointHead(n), s.cursor, k)
             w == [NoShip EXCEPT !.st = "wait", !.retry = s.retry]
  <1>s. Shape /\ s \in Ship /\ ship \in [Node -> [Slot -> Ship]] /\ chan \in [Node -> Seq(Frame)]
        /\ sync \in BOOLEAN /\ calm \in Node \union {NoNode}
    BY DEF IInv, Shape
  <1>0. s.st = "building" /\ ship[n][k].st # "idle"  BY DEF ShipFrame
  <1>u. UNCHANGED <<cp, log, git, repo, live, me, repl, up, sync, acks, jobs, promo, turns, won, faults, calm>>
    BY DEF ShipFrame, history
  <1>1. CASE ship' = [ship EXCEPT ![n][k] = NoShip] /\ chan' = chan
    <2>1. NoShip \in Ship /\ NoShip.st # "building"  BY InitialShapes DEF NoShip
    <2> QED  BY <2>1, <1>0, <1>1, <1>u, <1>s, ShipMoves
  <1>2. CASE ship' = [ship EXCEPT ![n][k] = w] /\ chan' = [chan EXCEPT ![n] = Append(@, f)]
    <2>1. s.epoch \in Epoch /\ s.records \in Turn /\ s.cursor \in Cursor /\ s.retry \in BOOLEAN
      BY <1>s DEF Ship
    <2>2. f \in Frame /\ f.hash = s.records  BY <2>1, <1>s, HeadShape, FrameBuilt
    <2>3. w \in Ship /\ w.st = "wait"
      <3>1. NoShip \in Ship  BY InitialShapes
      <3> DEFINE z == [NoShip EXCEPT !.st = "wait"]
      <3>2. z \in Ship /\ z.st = "wait"  BY <3>1 DEF Ship
      <3>3. w = [z EXCEPT !.retry = s.retry]  OBVIOUS
      <3> HIDE DEF z, w, s
      <3> QED  BY <3>2, <3>3, <2>1 DEF Ship
    <2> HIDE DEF w, f
    <2>4. /\ ship' \in [Node -> [Slot -> Ship]] /\ ship'[n][k] = w
          /\ \A m \in Node, x \in Slot : m # n \/ x # k => ship'[m][x] = ship[m][x]
      <3> HIDE DEF s
      <3> QED  BY <2>3, <1>2, <1>s
    <2>5. /\ chan' \in [Node -> Seq(Frame)] /\ Len(chan'[n]) = Len(chan[n]) + 1
          /\ \A i \in 1 .. Len(chan[n]) : chan'[n][i] = chan[n][i]
          /\ chan'[n][Len(chan[n]) + 1] = f
          /\ \A m \in Node \ {n} : chan'[m] = chan[m]
      BY <2>2, <1>2, <1>s, Sent
    <2>6. Shape'  BY <2>4, <2>5, <1>u, <1>s DEF Shape
    <2>7. Fence'  BY <1>u, FenceIdle DEF IInv
    <2>8. Fetched'  BY <1>u DEF IInv, Fetched, CheckpointBeforeTranscript
    <2>9. Snapshot'
      <3> SUFFICES ASSUME Unbranched' PROVE Silent' /\ Flowing' /\ Stored'  BY DEF Snapshot
      <3>1. Unbranched  BY <1>u DEF Unbranched
      <3>2. Silent /\ Flowing /\ Stored /\ n = First  BY <3>1, <1>0, OnlyFirstShips DEF IInv, Snapshot
      <3>3. Silent'
        <4>1. \A m \in Node \ {First} : chan'[m] = chan[m] /\ \A x \in Slot : ship'[m][x] = ship[m][x]
          BY <3>2, <2>4, <2>5
        <4> QED  BY <4>1, <3>2, <1>u DEF Silent
      <3>4. IsPrefix(s.records, log[First])  BY <3>2, <1>0 DEF Flowing
      <3>5. \A i \in 1 .. Len(chan'[First]) : IsPrefix(chan'[First][i].hash, log[First])
        <4>1. Len(chan[n]) \in Nat  BY <1>s, LenProperties
        <4> TAKE i \in 1 .. Len(chan'[First])
        <4>2. i \in 1 .. Len(chan[n]) \/ i = Len(chan[n]) + 1  BY <4>1, <3>2, <2>5
        <4> HIDE DEF s
        <4>3. CASE i = Len(chan[n]) + 1  BY <4>3, <3>2, <3>4, <2>2, <2>5
        <4>4. CASE i \in 1 .. Len(chan[n])  BY <4>4, <3>2, <2>5 DEF Flowing
        <4> QED  BY <4>2, <4>3, <4>4
      <3>6. Flowing'  BY <3>2, <3>5, <2>3, <2>4, <1>u DEF Flowing
      <3>7. Stored'  BY <3>2, <1>u DEF Stored
      <3> QED  BY <3>3, <3>6, <3>7
    <2> QED  BY <2>6, <2>7, <2>8, <2>9 DEF IInv
  <1> QED  BY <1>1, <1>2 DEF ShipFrame

\* applyAck moves the cursor, and at most starts the full re-send.
LEMMA AckKeeps ==
  ASSUME IInv, NEW n \in Node, AckArrives(n)
  PROVE  IInv'
  <1> DEFINE a == Head(acks[n])
             resend == a.status \in {"resync", "needFull"}
             cursor == CASE a.status = "applied" -> a.cursor
                         [] resend -> NoCursor
                         [] OTHER -> me[n].cursor
             v == IF resend /\ ship[n][a.slot].retry THEN Reading(n, NoCursor, FALSE) ELSE NoShip
  <1>s. /\ Shape /\ acks \in [Node -> Seq(Answer)] /\ me \in [Node -> Owner] /\ me[n] \in Owner
        /\ ship \in [Node -> [Slot -> Ship]] /\ calm \in Node \union {NoNode}
    BY DEF IInv, Shape
  <1>0. acks[n] # << >> /\ acks' = [acks EXCEPT ![n] = Tail(@)]  BY DEF AckArrives
  <1>u. UNCHANGED <<cp, log, git, repo, live, repl, up, sync, chan, jobs, promo, turns, won, faults, calm>>
    BY DEF AckArrives, history
  <1>1. \/ a.slot = Nobody /\ UNCHANGED <<me, ship>>
        \/ /\ a.slot # Nobody
           /\ me' = [me EXCEPT ![n].cursor = cursor] /\ ship' = [ship EXCEPT ![n][a.slot] = v]
    BY DEF AckArrives
  <1>2. /\ acks' \in [Node -> Seq(Answer)] /\ a \in Answer
        /\ \A m \in Node \ {n} : acks'[m] = acks[m]
    BY <1>0, <1>s, Taken
  <1>3. cursor \in Cursor
    <2>1. a.cursor \in Cursor /\ me[n].cursor \in Cursor /\ a.status \in {"applied", "stale", "resync", "needFull"}
      BY <1>2, <1>s DEF Answer, Owner
    <2> HIDE DEF a
    <2> QED  BY <2>1, InitialShapes
  <1>4. a.slot # Nobody => a.slot \in Slot  BY <1>2 DEF Answer, Waiter
  <1>5. v \in Ship /\ (v.st = "building" => v.records = log[n])
    <2>1. NoShip \in Ship /\ NoShip.st # "building" /\ NoCursor \in Cursor  BY InitialShapes DEF NoShip
    <2> QED  BY <2>1, <1>s, ReadingShape
  <1> HIDE DEF a, cursor, v
  <1>6. me' \in [Node -> Owner]
    <2>1. [me[n] EXCEPT !.cursor = cursor] \in Owner  BY <1>3, <1>s DEF Owner
    <2> QED  BY <2>1, <1>1, <1>s
  <1>7. /\ ship' \in [Node -> [Slot -> Ship]]
        /\ \A m \in Node \ {n} : ship'[m] = ship[m]
        /\ \A x \in Slot : ship'[n][x] = ship[n][x] \/ ship'[n][x] = v
    <2>1. CASE UNCHANGED ship  BY <2>1, <1>s
    <2>2. CASE a.slot \in Slot /\ ship' = [ship EXCEPT ![n][a.slot] = v]  BY <2>2, <1>5, <1>s
    <2> QED  BY <2>1, <2>2, <1>1, <1>4
  <1>8. Shape'  BY <1>2, <1>6, <1>7, <1>u, <1>s DEF Shape
  <1>9. Fence'  BY <1>u, FenceIdle DEF IInv
  <1>10. Unbranched => n = First  BY <1>0 DEF IInv, Snapshot, Silent
  <1>11. Unbranched => \A m \in Node \ {First} : acks'[m] = << >> /\ \A x \in Slot : ship'[m][x] = NoShip
    <2> SUFFICES ASSUME Unbranched, NEW m \in Node \ {First}
                 PROVE  acks'[m] = << >> /\ \A x \in Slot : ship'[m][x] = NoShip
      OBVIOUS
    <2>1. acks'[m] = acks[m] /\ ship'[m] = ship[m]  BY <1>10, <1>2, <1>7
    <2> QED  BY <2>1 DEF IInv, Snapshot, Silent
  <1>12. \A x \in Slot : ship'[First][x].st = "building" =>
           ship'[First][x].records = log[First] \/ ship'[First][x] = ship[First][x]
    BY <1>5, <1>7, TwoMachines
  <1>13. Fetched' /\ Snapshot'  BY <1>8, <1>11, <1>12, <1>u, Carried
  <1> QED  BY <1>8, <1>9, <1>13 DEF IInv
-----------------------------------------------------------------------------
(* Steps of the standby. *)

\* The view s a frame f is committed to, with the records next: the replica
\* stays a snapshot with its checkpoint fetched.
LEMMA CommitKeeps ==
  ASSUME IInv, NEW m \in Node, NEW f \in Frame, NEW next \in Turn, NEW s \in ReplState,
         NEW fetched \in BOOLEAN, NEW forgotten \in BOOLEAN,
         CommitFrame(m, f, next, s, fetched, forgotten),
         ~forgotten => s = repl[m],
         fetched => f.ckpt # << >> /\ IsPrefix(f.ckpt, repo[m]),
         Unbranched => m # First /\ IsPrefix(next, log[First]),
         jobs' \in [Node -> SUBSET Job], \A x \in Node : jobs'[x] \subseteq jobs[x],
         chan' \in [Node -> Seq(Frame)],
         \A x \in Node : \A i \in 1 .. Len(chan'[x]) : \E l \in 1 .. Len(chan[x]) : chan'[x][i] = chan[x][l],
         UNCHANGED <<cp, git, repo, live, me, ship, up, sync, promo, turns, won, faults, calm>>
  PROVE  IInv'
  <1> DEFINE done == Applied(s, f, next, fetched)
             o == OwnerOf(m)
  <1>s. Shape /\ log \in [Node -> Turn] /\ repl \in [Node -> ReplState] /\ acks \in [Node -> Seq(Answer)]
    BY DEF IInv, Shape
  <1>1. /\ log' = [log EXCEPT ![m] = next]
        /\ repl' = IF forgotten THEN repl ELSE [repl EXCEPT ![m] = done]
        /\ acks' = [acks EXCEPT ![o] = Append(@, Ack(f, "applied", done))]
    BY DEF CommitFrame
  <1>2. /\ done \in ReplState /\ done.records = next
        /\ done.ckpt = IF f.ckpt = << >> THEN s.ckpt ELSE f.ckpt
        /\ done.tree = (fetched \/ (s.tree /\ (IF f.ckpt = << >> THEN s.ckpt ELSE f.ckpt) = s.ckpt))
    BY AppliedShape
  <1> HIDE DEF done
  <1>3. o \in Node /\ o = StandbyOf(m) /\ o # m  BY Standbys
  <1> HIDE DEF o
  <1>4. Ack(f, "applied", done) \in Answer  BY <1>2, AckShape
  <1>5. acks' \in [Node -> Seq(Answer)] /\ \A x \in Node \ {o} : acks'[x] = acks[x]
    BY <1>1, <1>3, <1>4, <1>s, Sent
  <1>6. log' \in [Node -> Turn] /\ log'[m] = next /\ \A x \in Node \ {m} : log'[x] = log[x]
    BY <1>1, <1>s
  <1>7. /\ repl' \in [Node -> ReplState] /\ \A x \in Node \ {m} : repl'[x] = repl[x]
        /\ repl'[m] = repl[m] \/ (~forgotten /\ repl'[m] = done)
    BY <1>1, <1>2, <1>s
  <1>8. Shape'  BY <1>5, <1>6, <1>7, <1>s DEF Shape
  <1>9. Fence'  BY FenceIdle DEF IInv
  <1>10. Fetched'
    <2>1. \A x \in Node : \A j \in jobs'[x] : j.st = "persist" => IsPrefix(j.frame.ckpt, repo'[x])
      BY DEF IInv, Fetched
    <2>2. ASSUME NEW x \in Node, repl'[x].tree  PROVE IsPrefix(repl'[x].ckpt, repo[x])
      <3>1. CASE repl'[x] = repl[x]
        BY <3>1, <2>2 DEF IInv, Fetched, CheckpointBeforeTranscript
      <3>2. CASE x = m /\ ~forgotten /\ repl'[m] = done
        <4>1. CASE fetched
          BY <4>1, <3>2, <1>2
        <4>2. CASE ~fetched
          <5>1. s.tree /\ done.ckpt = s.ckpt /\ s = repl[m]  BY <4>2, <3>2, <2>2, <1>2
          <5> QED  BY <5>1, <3>2 DEF IInv, Fetched, CheckpointBeforeTranscript
        <4> QED  BY <4>1, <4>2
      <3> QED  BY <3>1, <3>2, <1>7
    <2> QED  BY <2>1, <2>2 DEF Fetched, CheckpointBeforeTranscript
  <1>11. Snapshot'
    <2> SUFFICES ASSUME Unbranched' PROVE Silent' /\ Flowing' /\ Stored'  BY DEF Snapshot
    <2>1. Unbranched  BY DEF Unbranched
    <2>2. Silent /\ Flowing /\ Stored  BY <2>1 DEF IInv, Snapshot
    <2>3. m # First /\ IsPrefix(next, log[First]) /\ First \in Node  BY <2>1, TwoMachines
    <2>4. log'[First] = log[First] /\ o = First  BY <2>3, <1>3, <1>6, Standbys
    <2>5. Silent'
      <3>1. jobs'[First] = {}  BY <2>2, <2>3 DEF Silent
      <3>2. ASSUME NEW x \in Node \ {First}  PROVE chan'[x] = << >>
        <4>1. chan[x] = << >> /\ chan'[x] \in Seq(Frame)  BY <2>2 DEF Silent
        <4>2. Len(chan[x]) = 0 /\ Len(chan'[x]) \in Nat  BY <4>1, LenProperties, EmptySeq
        <4>3. ASSUME Len(chan'[x]) # 0 PROVE FALSE
          <5>1. 1 \in 1 .. Len(chan'[x])  BY <4>2, <4>3
          <5>2. \E l \in 1 .. Len(chan[x]) : TRUE  BY <5>1
          <5> QED  BY <5>2, <4>2
        <4> QED  BY <4>1, <4>3, EmptySeq
      <3>3. \A x \in Node \ {First} : acks'[x] = << >>  BY <2>2, <2>4, <1>5 DEF Silent
      <3> QED  BY <3>1, <3>2, <3>3, <2>2 DEF Silent
    <2>6. Flowing'
      <3>1. \A i \in 1 .. Len(chan'[First]) : IsPrefix(chan'[First][i].hash, log[First])
        BY <2>2, <2>3 DEF Flowing
      <3> QED  BY <3>1, <2>2, <2>4 DEF Flowing
    <2>7. Stored'
      <3>1. \A x \in Node : IsPrefix(log'[x], log[First])  BY <2>2, <2>3, <1>6 DEF Stored
      <3>2. \A x \in Node \ {First} : IsPrefix(repl'[x].records, log[First])
        BY <2>2, <2>3, <1>2, <1>7 DEF Stored
      <3> QED  BY <3>1, <3>2, <2>4 DEF Stored
    <2> QED  BY <2>5, <2>6, <2>7
  <1> QED  BY <1>8, <1>9, <1>10, <1>11 DEF IInv

\* session.replica.frame: the frame is refused, starts to be applied or is
\* committed; before the session runs elsewhere an accepted frame makes the
\* replica the transcript it was built from.
LEMMA ReceiveKeeps ==
  ASSUME IInv, NEW m \in Node, Receive(m)
  PROVE  IInv'
  <1> DEFINE n == OwnerOf(m)
             s == repl[m]
             f == Head(chan[n])
             x == NextRecords(s, f)
  <1>s. /\ Shape /\ chan \in [Node -> Seq(Frame)] /\ acks \in [Node -> Seq(Answer)] /\ s \in ReplState
        /\ jobs \in [Node -> SUBSET Job]
    BY DEF IInv, Shape
  <1>n. n \in Node /\ n = StandbyOf(m) /\ n # m  BY Standbys
  <1>0. chan[n] # << >> /\ chan' = [chan EXCEPT ![n] = Tail(@)]  BY DEF Receive
  <1>u. UNCHANGED <<cp, git, repo, live, me, ship, up, sync, promo, turns, won, faults, calm>>
    BY DEF Receive, ownerVars, history
  <1>1. \/ /\ \E status \in {"stale", "resync"} : acks' = [acks EXCEPT ![n] = Append(@, Ack(f, status, s))]
           /\ UNCHANGED <<log, repl, jobs>>
        \/ /\ Fits(s, f) /\ f.bundle
           /\ jobs' = [jobs EXCEPT ![m] = @ \union
                         {[frame |-> f, next |-> x, st |-> "git", forgotten |-> FALSE]}]
           /\ UNCHANGED <<log, repl, acks>>
        \/ Fits(s, f) /\ CommitFrame(m, f, x, s, FALSE, FALSE) /\ jobs' = jobs
    BY DEF Receive
  <1> HIDE DEF n
  <1>2. /\ chan' \in [Node -> Seq(Frame)] /\ f \in Frame /\ f = chan[n][1] /\ 1 \in 1 .. Len(chan[n])
        /\ \A y \in Node : \A i \in 1 .. Len(chan'[y]) : \E l \in 1 .. Len(chan[y]) : chan'[y][i] = chan[y][l]
    BY <1>0, <1>n, <1>s, Taken
  <1> HIDE DEF f, s
  <1>3. x \in Turn  BY <1>2, <1>s, NextShape
  <1>4. ASSUME Unbranched, Fits(s, f)  PROVE m # First /\ IsPrefix(x, log[First])
    <2>1. Silent /\ Flowing /\ Stored  BY <1>4 DEF IInv, Snapshot
    <2>2. n = First  BY <2>1, <1>0, <1>n DEF Silent
    <2>3. IsPrefix(f.hash, log[First])  BY <2>1, <2>2, <1>2 DEF Flowing
    <2>4. IsPrefix(s.records, log[First])  BY <2>1, <2>2, <1>n DEF Stored, s
    <2>5. log[First] \in Turn  BY <1>s, TwoMachines DEF Shape
    <2>6. x = f.hash  BY <2>3, <2>4, <2>5, <1>2, <1>4, <1>s, AcceptedIsSnapshot
    <2> QED  BY <2>2, <2>3, <2>6, <1>n
  <1> HIDE DEF x
  <1>5. CASE /\ \E status \in {"stale", "resync"} : acks' = [acks EXCEPT ![n] = Append(@, Ack(f, status, s))]
             /\ UNCHANGED <<log, repl, jobs>>
    <2>1. PICK status \in {"stale", "resync"} : acks' = [acks EXCEPT ![n] = Append(@, Ack(f, status, s))]
      BY <1>5
    <2>2. Ack(f, status, s) \in Answer  BY <1>2, <1>s, AckShape
    <2>3. acks' \in [Node -> Seq(Answer)] /\ \A y \in Node \ {n} : acks'[y] = acks[y]
      BY <2>1, <2>2, <1>n, <1>s, Sent
    <2>4. Shape'  BY <2>3, <1>2, <1>5, <1>u, <1>s DEF Shape
    <2>5. Unbranched => \A y \in Node \ {First} : acks'[y] = << >> /\ \A k \in Slot : ship'[y][k] = NoShip
      <3> SUFFICES ASSUME Unbranched, NEW y \in Node \ {First}
                   PROVE  acks'[y] = << >> /\ \A k \in Slot : ship'[y][k] = NoShip
        OBVIOUS
      <3>1. n = First  BY <1>0, <1>n DEF IInv, Snapshot, Silent
      <3> QED  BY <3>1, <2>3, <1>u DEF IInv, Snapshot, Silent
    <2>6. \A y \in Node : \A i \in 1 .. Len(chan'[y]) :
            \E l \in 1 .. Len(chan[y]) : chan'[y][i].hash = chan[y][l].hash
      BY <1>2
    <2>7. Fetched' /\ Snapshot'  BY <2>4, <2>5, <2>6, <1>5, <1>u, Carried
    <2>8. Fence'  BY <1>u, FenceIdle DEF IInv
    <2> QED  BY <2>4, <2>7, <2>8 DEF IInv
  <1>6. CASE /\ Fits(s, f) /\ f.bundle
             /\ jobs' = [jobs EXCEPT ![m] = @ \union
                           {[frame |-> f, next |-> x, st |-> "git", forgotten |-> FALSE]}]
             /\ UNCHANGED <<log, repl, acks>>
    <2> DEFINE j0 == [frame |-> f, next |-> x, st |-> "git", forgotten |-> FALSE]
    <2>1. j0 \in JobShape /\ j0.frame = f /\ j0.st = "git" /\ j0.next = x  BY <1>2, <1>3 DEF JobShape
    <2>2. f.ckpt # << >>  BY <1>2, <1>6 DEF Frame, WellBuilt
    <2>3. j0 \in Job  BY <2>1, <2>2 DEF Job
    <2>4. jobs' = [jobs EXCEPT ![m] = @ \union {j0}]  BY <1>6
    <2> HIDE DEF j0
    <2>5. /\ jobs' \in [Node -> SUBSET Job] /\ jobs'[m] = jobs[m] \union {j0}
          /\ \A y \in Node \ {m} : jobs'[y] = jobs[y]
      BY <2>3, <2>4, <1>s
    <2>6. Shape'  BY <2>5, <1>2, <1>6, <1>u, <1>s DEF Shape
    <2>7. Fence'  BY <1>u, FenceIdle DEF IInv
    <2>8. Fetched'
      BY <2>1, <2>5, <1>6, <1>u DEF IInv, Fetched, CheckpointBeforeTranscript
    <2>9. Snapshot'
      <3> SUFFICES ASSUME Unbranched' PROVE Silent' /\ Flowing' /\ Stored'  BY DEF Snapshot
      <3>1. Unbranched  BY <1>u DEF Unbranched
      <3>2. Silent /\ Flowing /\ Stored  BY <3>1 DEF IInv, Snapshot
      <3>3. m # First /\ IsPrefix(x, log[First]) /\ First \in Node  BY <3>1, <1>4, <1>6, TwoMachines
      <3>4. Silent'
        <4>1. jobs'[First] = {}  BY <3>2, <3>3, <2>5 DEF Silent
        <4>2. ASSUME NEW y \in Node \ {First}  PROVE chan'[y] = << >>
          <5>1. chan[y] = << >> /\ chan[n] # << >>  BY <3>2, <1>0 DEF Silent
          <5>2. chan'[y] = chan[y]  BY <5>1, <1>0, <1>s
          <5> QED  BY <5>1, <5>2
        <4> QED  BY <4>1, <4>2, <3>2, <1>6, <1>u DEF Silent
      <3>5. Flowing'
        <4>1. \A i \in 1 .. Len(chan'[First]) : IsPrefix(chan'[First][i].hash, log[First])
          BY <3>2, <3>3, <1>2 DEF Flowing
        <4>2. \A y \in Node : \A j \in jobs'[y] : IsPrefix(j.next, log[First])
          BY <3>2, <3>3, <2>1, <2>5 DEF Flowing
        <4> QED  BY <4>1, <4>2, <3>2, <1>6, <1>u DEF Flowing
      <3>6. Stored'  BY <3>2, <1>6 DEF Stored
      <3> QED  BY <3>4, <3>5, <3>6
    <2> QED  BY <2>6, <2>7, <2>8, <2>9 DEF IInv
  <1>7. CASE Fits(s, f) /\ CommitFrame(m, f, x, s, FALSE, FALSE) /\ jobs' = jobs
    <2>1. s = repl[m]  BY DEF s
    <2>2. Unbranched => m # First /\ IsPrefix(x, log[First])  BY <1>4, <1>7
    <2>3. jobs' \in [Node -> SUBSET Job] /\ \A y \in Node : jobs'[y] \subseteq jobs[y]  BY <1>7, <1>s
    <2> QED  BY <2>1, <2>2, <2>3, <1>2, <1>3, <1>7, <1>u, <1>s, CommitKeeps
  <1> QED  BY <1>1, <1>5, <1>6, <1>7

\* applyBundle: the ref moves forward or not at all, and only a frame whose
\* checkpoint is in the repository goes on to be persisted.
LEMMA FetchCheckpointKeeps ==
  ASSUME IInv, NEW m \in Node, NEW j \in jobs[m], FetchCheckpoint(m, j)
  PROVE  IInv'
  <1> DEFINE f == j.frame
             based == IsPrefix(f.since, repo[m])
             forward == IsPrefix(repo[m], f.ckpt)
             p == [j EXCEPT !.st = "persist"]
             o == OwnerOf(m)
  <1>s. /\ Shape /\ jobs \in [Node -> SUBSET Job] /\ repo \in [Node -> Turn] /\ acks \in [Node -> Seq(Answer)]
        /\ repl[m] \in ReplState
    BY DEF IInv, Shape
  <1>j. j \in Job /\ f \in Frame /\ f.ckpt \in Turn
    BY <1>s DEF Job, JobShape, Frame, FrameShape
  <1>1. /\ repo' = IF based /\ forward THEN [repo EXCEPT ![m] = f.ckpt] ELSE repo
        /\ jobs' = [jobs EXCEPT ![m] = (@ \ {j}) \union IF based /\ forward THEN {p} ELSE {}]
        /\ acks' = IF based THEN acks ELSE [acks EXCEPT ![o] = Append(@, Ack(f, "needFull", repl[m]))]
        /\ UNCHANGED <<cp, log, git, live, me, ship, repl, up, sync, chan, promo, turns, won, faults, calm>>
    BY DEF FetchCheckpoint, ownerVars, history
  <1>2. p \in Job /\ p.next = j.next /\ p.frame = f /\ p.st = "persist"  BY <1>j DEF Job, JobShape
  <1>o. o \in Node /\ o # m /\ o = StandbyOf(m)  BY Standbys
  <1>a. Ack(f, "needFull", repl[m]) \in Answer  BY <1>j, <1>s, AckShape
  <1> HIDE DEF based, p, f, o
  <1>3. acks' \in [Node -> Seq(Answer)] /\ \A y \in Node \ {o} : acks'[y] = acks[y]
    BY <1>1, <1>o, <1>a, <1>s, Sent
  <1>4. /\ jobs' \in [Node -> SUBSET Job]
        /\ \A y \in Node \ {m} : jobs'[y] = jobs[y]
        /\ \A x \in jobs'[m] : x \in jobs[m] \/ (based /\ forward /\ x = p)
    BY <1>1, <1>2, <1>s
  <1>5. /\ repo' \in [Node -> Turn] /\ \A y \in Node : IsPrefix(repo[y], repo'[y])
        /\ based /\ forward => IsPrefix(f.ckpt, repo'[m])
    <2>1. \A y \in Node : repo[y] \in Turn /\ IsPrefix(repo[y], repo[y])  BY <1>s, PrefixOrder
    <2>2. IsPrefix(f.ckpt, f.ckpt)  BY <1>j, PrefixOrder
    <2> QED  BY <2>1, <2>2, <1>1, <1>j, <1>s
  <1>6. Shape'  BY <1>1, <1>3, <1>4, <1>5, <1>s DEF Shape
  <1>7. Fence'  BY <1>1, FenceIdle DEF IInv
  <1>8. Fetched'
    <2>1. ASSUME NEW y \in Node, NEW x \in jobs'[y], x.st = "persist"
          PROVE  IsPrefix(x.frame.ckpt, repo'[y])
      <3>1. CASE x \in jobs[y]
        <4>1. x \in Job  BY <3>1, <1>s
        <4>2. x.frame.ckpt \in Turn  BY <4>1 DEF Job, JobShape, Frame, FrameShape
        <4>3. IsPrefix(x.frame.ckpt, repo[y])  BY <2>1, <3>1 DEF IInv, Fetched
        <4>4. repo[y] \in Turn /\ repo'[y] \in Turn  BY <1>5, <1>s
        <4> QED  BY <4>2, <4>3, <4>4, <1>5, PrefixOrder
      <3>2. CASE x \notin jobs[y]
        <4>1. y = m /\ based /\ forward /\ x = p  BY <3>2, <2>1, <1>4
        <4> QED  BY <4>1, <1>2, <1>5
      <3> QED  BY <3>1, <3>2
    <2>2. ASSUME NEW y \in Node, repl'[y].tree  PROVE IsPrefix(repl'[y].ckpt, repo'[y])
      <3>1. repl[y] \in ReplState  BY <1>s DEF Shape
      <3>2. repl[y].ckpt \in Turn  BY <3>1 DEF ReplState
      <3>3. IsPrefix(repl[y].ckpt, repo[y])
        BY <2>2, <1>1 DEF IInv, Fetched, CheckpointBeforeTranscript
      <3>4. repo[y] \in Turn /\ repo'[y] \in Turn  BY <1>5, <1>s
      <3> QED  BY <3>2, <3>3, <3>4, <1>1, <1>5, PrefixOrder
    <2> QED  BY <2>1, <2>2 DEF Fetched, CheckpointBeforeTranscript
  <1>9. Snapshot'
    <2> SUFFICES ASSUME Unbranched' PROVE Silent' /\ Flowing' /\ Stored'  BY DEF Snapshot
    <2>1. Unbranched  BY <1>1 DEF Unbranched
    <2>2. Silent /\ Flowing /\ Stored  BY <2>1 DEF IInv, Snapshot
    <2>3. m # First /\ o = First /\ First \in Node  BY <2>2, <1>o, TwoMachines, Standbys DEF Silent
    <2>4. Silent'  BY <2>2, <2>3, <1>1, <1>3, <1>4 DEF Silent
    <2>5. \A y \in Node : \A x \in jobs'[y] : IsPrefix(x.next, log[First])
      BY <2>2, <1>2, <1>4 DEF Flowing
    <2>6. Flowing'  BY <2>2, <2>5, <1>1 DEF Flowing
    <2>7. Stored'  BY <2>2, <1>1 DEF Stored
    <2> QED  BY <2>4, <2>6, <2>7
  <1> QED  BY <1>6, <1>7, <1>8, <1>9 DEF IInv

\* The rest of applyReplFrame, once git is done.
LEMMA PersistFrameKeeps ==
  ASSUME IInv, NEW m \in Node, NEW j \in jobs[m], PersistFrame(m, j)
  PROVE  IInv'
  <1> DEFINE s == IF j.forgotten THEN InitialReplState ELSE repl[m]
  <1>s. /\ Shape /\ jobs \in [Node -> SUBSET Job] /\ chan \in [Node -> Seq(Frame)] /\ repl[m] \in ReplState
    BY DEF IInv, Shape
  <1>j. j \in Job /\ j.frame \in Frame /\ j.next \in Turn /\ j.forgotten \in BOOLEAN /\ j.frame.ckpt # << >>
    BY <1>s DEF Job, JobShape
  <1>1. /\ j.st = "persist" /\ jobs' = [jobs EXCEPT ![m] = @ \ {j}]
        /\ CommitFrame(m, j.frame, j.next, s, TRUE, j.forgotten)
        /\ UNCHANGED <<cp, git, repo, live, me, ship, up, sync, chan, promo, turns, won, faults, calm>>
    BY DEF PersistFrame, ownerVars, history
  <1>2. s \in ReplState /\ (~j.forgotten => s = repl[m])  BY <1>s, InitialShapes
  <1> HIDE DEF s
  <1>3. jobs' \in [Node -> SUBSET Job] /\ \A y \in Node : jobs'[y] \subseteq jobs[y]  BY <1>1, <1>s
  <1>4. IsPrefix(j.frame.ckpt, repo[m])  BY <1>1 DEF IInv, Fetched
  <1>5. Unbranched => m # First /\ IsPrefix(j.next, log[First])
    BY DEF IInv, Snapshot, Silent, Flowing
  <1>6. chan' \in [Node -> Seq(Frame)]
        /\ \A x \in Node : \A i \in 1 .. Len(chan'[x]) : \E l \in 1 .. Len(chan[x]) : chan'[x][i] = chan[x][l]
    BY <1>1, <1>s
  <1> DEFINE fetched == TRUE
             f == j.frame
             next == j.next
             forgotten == j.forgotten
  <1>7. /\ f \in Frame /\ next \in Turn /\ fetched \in BOOLEAN /\ forgotten \in BOOLEAN
        /\ CommitFrame(m, f, next, s, fetched, forgotten)
        /\ ~forgotten => s = repl[m]
        /\ fetched => f.ckpt # << >> /\ IsPrefix(f.ckpt, repo[m])
        /\ Unbranched => m # First /\ IsPrefix(next, log[First])
    BY <1>1, <1>2, <1>4, <1>5, <1>j
  <1> HIDE DEF fetched, f, next, forgotten
  <1> QED  BY <1>1, <1>2, <1>3, <1>6, <1>7, CommitKeeps
-----------------------------------------------------------------------------
(* The owner's turns, promotions and faults. *)

\* The end of a turn adds to the log and to the checkpoint ref; it is the
\* session's transcript as long as nobody else has run a turn.
LEMMA TurnEndsKeeps ==
  ASSUME IInv, NEW n \in Node, TurnEnds(n)
  PROVE  IInv'
  <1> DEFINE t == Cardinality(turns) + 1
             rec == [id |-> t, by |-> n, epoch |-> cp.epoch]
  <1>s. /\ Shape /\ IsFiniteSet(turns) /\ log \in [Node -> Turn] /\ repo \in [Node -> Turn] /\ git \in Turn
        /\ ship \in [Node -> [Slot -> Ship]] /\ calm \in Node \union {NoNode}
    BY DEF IInv, Shape
  <1>c. Cardinality(turns) \in Nat  BY <1>s, FS_CardinalityType
  <1>t. t \in 1 .. MaxTurns  BY <1>c, Bounds DEF TurnEnds
  <1>1. /\ log' = [log EXCEPT ![n] = Append(@, t)]
        /\ git' = IF n = First THEN Append(git, t) ELSE git
        /\ repo' = IF n = First THEN repo ELSE [repo EXCEPT ![n] = Append(@, t)]
        /\ turns' = turns \union {rec}
        /\ calm' \in {n, NoNode}
        /\ UNCHANGED <<cp, live, me, repl, up, sync, chan, acks, jobs, promo, won, faults>>
    BY DEF TurnEnds, wire
  <1>2. PICK k \in Slot : /\ ship[n][k] = NoShip
                          /\ ship' = [ship EXCEPT ![n][k].st = IF me[n].declared THEN "connect" ELSE "declare"]
    BY DEF TurnEnds
  <1>3. IsFiniteSet(turns') /\ Cardinality(turns') <= MaxTurns
    <2>1. /\ IsFiniteSet(turns \union {rec})
          /\ Cardinality(turns \union {rec}) = IF rec \in turns THEN Cardinality(turns) ELSE Cardinality(turns) + 1
      BY <1>s, FS_AddElement
    <2> HIDE DEF rec
    <2> QED  BY <2>1, <1>1, <1>t, <1>c, Bounds
  <1>r. rec.by = n /\ turns \subseteq turns' /\ rec \in turns'  BY <1>1
  <1> HIDE DEF t, rec
  <1>4. /\ log' \in [Node -> Turn] /\ IsPrefix(log[n], log'[n])
        /\ \A m \in Node \ {n} : log'[m] = log[m]
    <2>1. Append(log[n], t) \in Turn /\ IsPrefix(log[n], Append(log[n], t))  BY <1>t, <1>s, AppendTurn
    <2> QED  BY <2>1, <1>1, <1>s
  <1>5. git' \in Turn /\ repo' \in [Node -> Turn] /\ \A m \in Node : IsPrefix(repo[m], repo'[m])
    <2>1. Append(git, t) \in Turn  BY <1>t, <1>s, AppendTurn
    <2>2. Append(repo[n], t) \in Turn /\ IsPrefix(repo[n], Append(repo[n], t))  BY <1>t, <1>s, AppendTurn
    <2>3. \A m \in Node : repo[m] \in Turn /\ IsPrefix(repo[m], repo[m])  BY <1>s, PrefixOrder
    <2> QED  BY <2>1, <2>2, <2>3, <1>1, <1>s
  <1>6. /\ ship' \in [Node -> [Slot -> Ship]] /\ ship'[n][k].st # "building"
        /\ \A m \in Node, x \in Slot : m # n \/ x # k => ship'[m][x] = ship[m][x]
    <2> DEFINE st == IF me[n].declared THEN "connect" ELSE "declare"
    <2>1. st \in {"connect", "declare"} /\ ship' = [ship EXCEPT ![n][k].st = st]  BY <1>2
    <2> HIDE DEF st
    <2>2. ship[n][k] \in Ship  BY <1>s
    <2>3. [ship[n][k] EXCEPT !.st = st] \in Ship /\ [ship[n][k] EXCEPT !.st = st].st = st  BY <2>1, <2>2 DEF Ship
    <2> QED  BY <2>1, <2>3, <1>s
  <1>7. Shape'  BY <1>1, <1>3, <1>4, <1>5, <1>6, <1>s DEF Shape
  <1>8. Fence'  BY <1>1, FenceIdle DEF IInv
  <1>9. Fetched'
    <2>0. \A y \in Node : repo[y] \in Turn /\ repo'[y] \in Turn  BY <1>5, <1>s
    <2>1. ASSUME NEW y \in Node, NEW x \in jobs'[y], x.st = "persist"
          PROVE  IsPrefix(x.frame.ckpt, repo'[y])
      <3>1. x \in jobs[y] /\ x \in Job  BY <1>1, <1>s DEF Shape
      <3>2. x.frame.ckpt \in Turn  BY <3>1 DEF Job, JobShape, Frame, FrameShape
      <3>3. IsPrefix(x.frame.ckpt, repo[y])  BY <2>1, <3>1 DEF IInv, Fetched
      <3> QED  BY <3>2, <3>3, <2>0, <1>5, PrefixOrder
    <2>2. ASSUME NEW y \in Node, repl'[y].tree  PROVE IsPrefix(repl'[y].ckpt, repo'[y])
      <3>1. repl[y] \in ReplState  BY <1>s DEF Shape
      <3>2. repl[y].ckpt \in Turn  BY <3>1 DEF ReplState
      <3>3. IsPrefix(repl[y].ckpt, repo[y])
        BY <2>2, <1>1 DEF IInv, Fetched, CheckpointBeforeTranscript
      <3> QED  BY <3>2, <3>3, <2>0, <1>1, <1>5, PrefixOrder
    <2> QED  BY <2>1, <2>2 DEF Fetched, CheckpointBeforeTranscript
  <1>10. Snapshot'
    <2> SUFFICES ASSUME Unbranched' PROVE Silent' /\ Flowing' /\ Stored'  BY DEF Snapshot
    <2>1. Unbranched /\ n = First  BY <1>r DEF Unbranched
    <2>2. Silent /\ Flowing /\ Stored  BY <2>1 DEF IInv, Snapshot
    <2>3. log[First] \in Turn /\ log'[First] \in Turn /\ IsPrefix(log[First], log'[First])
      BY <2>1, <1>4, <1>s
    <2>4. \A s \in Turn : IsPrefix(s, log[First]) => IsPrefix(s, log'[First])  BY <2>3, PrefixOrder
    <2>5. Silent'
      <3>1. \A m \in Node \ {First} : \A x \in Slot : ship'[m][x] = ship[m][x]  BY <2>1, <1>6
      <3> QED  BY <3>1, <2>2, <1>1 DEF Silent
    <2>6. Flowing'
      <3>1. ASSUME NEW x \in Slot, ship'[First][x].st = "building"
            PROVE  IsPrefix(ship'[First][x].records, log'[First])
        <4>1. ship'[First][x] = ship[First][x] /\ ship[First][x] \in Ship  BY <3>1, <2>1, <1>6, <1>s
        <4>2. ship[First][x].records \in Turn  BY <4>1 DEF Ship
        <4> QED  BY <3>1, <4>1, <4>2, <2>2, <2>4 DEF Flowing
      <3>2. ASSUME NEW i \in 1 .. Len(chan'[First])  PROVE IsPrefix(chan'[First][i].hash, log'[First])
        <4>1. chan[First] \in Seq(Frame) /\ i \in 1 .. Len(chan[First])  BY <1>1, <1>s, <2>1 DEF Shape
        <4>2. chan[First][i] \in Frame  BY <4>1, ElementOfSeq
        <4>3. chan[First][i].hash \in Turn  BY <4>2 DEF Frame, FrameShape
        <4> QED  BY <4>1, <4>3, <2>2, <2>4, <1>1 DEF Flowing
      <3>3. ASSUME NEW m \in Node, NEW j \in jobs'[m]  PROVE IsPrefix(j.next, log'[First])
        <4>1. j \in jobs[m] /\ j \in Job  BY <1>1, <1>s DEF Shape
        <4>2. j.next \in Turn  BY <4>1 DEF Job, JobShape
        <4> QED  BY <4>1, <4>2, <2>2, <2>4 DEF Flowing
      <3> QED  BY <3>1, <3>2, <3>3 DEF Flowing
    <2>7. Stored'
      <3>1. ASSUME NEW m \in Node  PROVE IsPrefix(log'[m], log'[First])
        <4>1. CASE m = First  BY <4>1, <2>3, PrefixOrder
        <4>2. CASE m # First
          <5>1. log'[m] = log[m] /\ log[m] \in Turn  BY <4>2, <2>1, <1>4, <1>s
          <5> QED  BY <5>1, <2>2, <2>4 DEF Stored
        <4> QED  BY <4>1, <4>2
      <3>2. ASSUME NEW m \in Node \ {First}  PROVE IsPrefix(repl'[m].records, log'[First])
        <4>1. repl'[m] = repl[m] /\ repl[m] \in ReplState  BY <1>1, <1>s DEF Shape
        <4>2. repl[m].records \in Turn  BY <4>1 DEF ReplState
        <4> QED  BY <4>1, <4>2, <2>2, <2>4 DEF Stored
      <3> QED  BY <3>1, <3>2 DEF Stored
    <2> QED  BY <2>5, <2>6, <2>7
  <1> QED  BY <1>7, <1>8, <1>9, <1>10 DEF IInv

\* What Fetched and Snapshot speak of, left alone.
LEMMA CarriedIdle ==
  ASSUME IInv, Shape', UNCHANGED <<log, repo, turns, repl, chan, jobs, ship, acks>>
  PROVE  Fetched' /\ Snapshot'
  BY DEF IInv, Fetched, CheckpointBeforeTranscript, Snapshot, Unbranched, Silent, Flowing, Stored

\* A promotion reads the epoch.
LEMMA PromoteReadsKeeps ==
  ASSUME IInv, NEW m \in Node, PromoteReads(m)
  PROVE  IInv'
  <1> DEFINE v == [st |-> "read", expected |-> cp.epoch]
  <1>s. Shape /\ promo \in [Node -> Promo]  BY DEF IInv, Shape
  <1>1. /\ cp.epoch < MaxEpoch /\ promo' = [promo EXCEPT ![m] = v]
        /\ UNCHANGED <<cp, log, git, repo, live, me, ship, repl, up, sync, chan, acks, jobs, turns, won, faults, calm>>
    BY DEF PromoteReads, ownerVars, wire, history
  <1>2. v \in Promo /\ v.expected = cp.epoch  BY <1>s DEF Shape, Promo, Epoch
  <1> HIDE DEF v
  <1>3. promo' \in [Node -> Promo] /\ promo'[m] = v /\ \A x \in Node \ {m} : promo'[x] = promo[x]
    BY <1>1, <1>2, <1>s
  <1>4. Shape'  BY <1>1, <1>3, <1>s DEF Shape
  <1>5. Fence'  BY <1>1, <1>2, <1>3 DEF IInv, Fence, OnePromotionPerEpoch
  <1> QED  BY <1>1, <1>4, <1>5, CarriedIdle DEF IInv

\* The compare-and-set gives an epoch nobody has won before to one machine.
LEMMA PromoteSetsKeeps ==
  ASSUME IInv, NEW m \in Node, PromoteSets(m)
  PROVE  IInv'
  <1>s. Shape /\ promo \in [Node -> Promo] /\ promo[m] \in Promo /\ cp.epoch \in 0 .. MaxEpoch
    BY DEF IInv, Shape, Epoch
  <1>0. /\ promo[m].st = "read" /\ calm' = NoNode
        /\ UNCHANGED <<log, git, repo, live, me, ship, repl, up, sync, chan, acks, jobs, turns, faults>>
    BY DEF PromoteSets, ownerVars, wire
  <1>1. CASE /\ cp.epoch = promo[m].expected
             /\ cp' = [owner |-> m, epoch |-> cp.epoch + 1]
             /\ won' = won \union {[epoch |-> cp.epoch + 1, node |-> m]}
             /\ promo' = [promo EXCEPT ![m].st = "won"]
    <2>1. cp.epoch < MaxEpoch  BY <1>0, <1>1 DEF IInv, Fence
    <2>2. cp' \in [owner : Node \union {NoNode}, epoch : Epoch] /\ cp'.epoch = cp.epoch + 1
      BY <2>1, <1>1, <1>s, Bounds DEF Epoch
    <2>3. [promo[m] EXCEPT !.st = "won"] \in Promo /\ [promo[m] EXCEPT !.st = "won"].st = "won"
      BY <1>s DEF Promo
    <2>4. promo' \in [Node -> Promo] /\ promo'[m].st = "won" /\ \A x \in Node \ {m} : promo'[x] = promo[x]
      BY <2>3, <1>1, <1>s
    <2>5. Shape'  BY <2>2, <2>4, <1>0, <1>s DEF Shape
    <2>6. \A w \in won : w.epoch \in Nat /\ w.epoch <= cp.epoch  BY DEF IInv, Fence
    <2>7. \A w \in won' : w.epoch \in Nat /\ w.epoch <= cp'.epoch  BY <2>2, <2>6, <1>1, <1>s
    <2>8. OnePromotionPerEpoch'
      <3> SUFFICES ASSUME NEW w \in won', NEW v \in won', w.epoch = v.epoch  PROVE w.node = v.node
        BY DEF OnePromotionPerEpoch
      <3>1. \A x \in won' : x \in won \/ (x.epoch = cp.epoch + 1 /\ x.node = m)  BY <1>1
      <3>2. \A x \in won : x.epoch # cp.epoch + 1  BY <2>6, <1>s
      <3>3. \A x, y \in won : x.epoch = y.epoch => x.node = y.node
        BY DEF IInv, Fence, OnePromotionPerEpoch
      <3> QED  BY <3>1, <3>2, <3>3
    <2>9. Fence'  BY <2>4, <2>7, <2>8 DEF IInv, Fence
    <2> QED  BY <2>5, <2>9, <1>0, CarriedIdle DEF IInv
  <1>2. CASE promo' = [promo EXCEPT ![m] = NoPromo] /\ UNCHANGED <<cp, won>>
    <2>1. NoPromo \in Promo /\ NoPromo.st # "read"  BY InitialShapes DEF NoPromo
    <2>2. promo' \in [Node -> Promo] /\ \A x \in Node : promo'[x] = promo[x] \/ promo'[x].st # "read"
      BY <2>1, <1>2, <1>s
    <2>3. Shape'  BY <2>2, <1>0, <1>2, <1>s DEF Shape
    <2>4. Fence'  BY <2>2, <1>2, FenceIdle DEF IInv
    <2> QED  BY <2>3, <2>4, <1>0, CarriedIdle DEF IInv
  <1> QED  BY <1>1, <1>2 DEF PromoteSets

\* A promotion whose answer is lost is over for the machine that asked.
LEMMA PromotionFailsKeeps ==
  ASSUME IInv, NEW m \in Node, PromotionFails(m)
  PROVE  IInv'
  <1>s. Shape /\ promo \in [Node -> Promo] /\ faults \in 0 .. MaxFaults  BY DEF IInv, Shape
  <1>1. /\ promo' = [promo EXCEPT ![m] = NoPromo] /\ calm' = NoNode
        /\ faults < MaxFaults /\ faults' = faults + 1
        /\ UNCHANGED <<cp, log, git, repo, live, me, ship, repl, up, sync, chan, acks, jobs, turns, won>>
    BY DEF PromotionFails, Fault, ownerVars, wire, history
  <1>2. NoPromo \in Promo /\ NoPromo.st # "read"  BY InitialShapes DEF NoPromo
  <1>3. promo' \in [Node -> Promo] /\ \A x \in Node : promo'[x] = promo[x] \/ promo'[x].st # "read"
    BY <1>1, <1>2, <1>s
  <1>4. faults' \in 0 .. MaxFaults  BY <1>1, <1>s, Bounds
  <1>5. Shape'  BY <1>1, <1>3, <1>4, <1>s DEF Shape
  <1>6. Fence'  BY <1>1, <1>3, FenceIdle DEF IInv
  <1> QED  BY <1>1, <1>5, <1>6, CarriedIdle DEF IInv

\* promote() forgets the standby state and lets the session run here.
LEMMA PromotedKeeps ==
  ASSUME IInv, NEW m \in Node, Promoted(m)
  PROVE  IInv'
  <1>s. Shape /\ promo \in [Node -> Promo] /\ repl \in [Node -> ReplState] /\ jobs \in [Node -> SUBSET Job]
    BY DEF IInv, Shape
  <1>1. /\ promo' = [promo EXCEPT ![m] = NoPromo] /\ repl' = [repl EXCEPT ![m] = InitialReplState]
        /\ jobs' = [jobs EXCEPT ![m] = {[j EXCEPT !.forgotten = TRUE] : j \in @}]
        /\ live' = live \union {m}
        /\ UNCHANGED <<cp, log, git, repo, me, ship, up, sync, chan, acks, turns, won, faults, calm>>
    BY DEF Promoted, ownerVars, wire, history
  <1>2. \A j \in Job : LET x == [j EXCEPT !.forgotten = TRUE]
                       IN x \in Job /\ x.st = j.st /\ x.next = j.next /\ x.frame = j.frame
    BY DEF Job, JobShape
  <1>3. jobs' \in [Node -> SUBSET Job]
        /\ \A y \in Node : \A x \in jobs'[y] : \E j \in jobs[y] :
             x.st = j.st /\ x.next = j.next /\ x.frame.ckpt = j.frame.ckpt
    <2>1. jobs'[m] = {[j EXCEPT !.forgotten = TRUE] : j \in jobs[m]} /\ \A y \in Node \ {m} : jobs'[y] = jobs[y]
      BY <1>1, <1>s
    <2>2. \A x \in jobs'[m] : x \in Job /\ \E j \in jobs[m] :
            x.st = j.st /\ x.next = j.next /\ x.frame.ckpt = j.frame.ckpt
      <3> TAKE x \in jobs'[m]
      <3>1. PICK j \in jobs[m] : x = [j EXCEPT !.forgotten = TRUE]  BY <2>1
      <3>2. j \in Job  BY <1>s
      <3>3. x \in Job /\ x.st = j.st /\ x.next = j.next /\ x.frame = j.frame  BY <3>1, <3>2, <1>2
      <3> QED  BY <3>3
    <2> QED  BY <2>1, <2>2, <1>1, <1>s
  <1>4. /\ repl' \in [Node -> ReplState] /\ promo' \in [Node -> Promo]
        /\ \A y \in Node : repl'[y] = repl[y] \/ repl'[y] = InitialReplState
        /\ \A y \in Node : promo'[y] = promo[y] \/ promo'[y].st # "read"
    <2>1. NoPromo.st # "read"  BY DEF NoPromo
    <2> QED  BY <2>1, <1>1, <1>s, InitialShapes
  <1>5. Shape'  BY <1>1, <1>3, <1>4, <1>s DEF Shape
  <1>6. Fence'  BY <1>1, <1>4, FenceIdle DEF IInv
  <1>7. Unbranched => \A y \in Node \ {First} : acks'[y] = << >> /\ \A k \in Slot : ship'[y][k] = NoShip
    BY <1>1 DEF IInv, Snapshot, Silent
  <1>8. \A y \in Node : \A i \in 1 .. Len(chan'[y]) :
          \E l \in 1 .. Len(chan[y]) : chan'[y][i].hash = chan[y][l].hash
    BY <1>1
  <1>9. Fetched' /\ Snapshot'  BY <1>1, <1>3, <1>4, <1>5, <1>7, <1>8, Carried
  <1> QED  BY <1>5, <1>6, <1>9 DEF IInv
-----------------------------------------------------------------------------
(* Faults and settings. *)

\* A request nobody waits for any more carries the same frame.
LEMMA DetachedFrame ==
  ASSUME NEW f \in Frame
  PROVE  LET g == [f EXCEPT !.slot = Nobody]
         IN g \in Frame /\ g.hash = f.hash /\ g.ckpt = f.ckpt
  <1> DEFINE g == [f EXCEPT !.slot = Nobody]
  <1>1. f \in FrameShape /\ WellBuilt(f)  BY DEF Frame
  <1>2. /\ g.epoch = f.epoch /\ g.mode = f.mode /\ g.base = f.base /\ g.records = f.records
        /\ g.hash = f.hash /\ g.ckpt = f.ckpt /\ g.since = f.since /\ g.bundle = f.bundle
    BY <1>1 DEF FrameShape
  <1>3. g \in FrameShape  BY <1>1 DEF FrameShape, Waiter
  <1> HIDE DEF g
  <1>4. WellBuilt(g)  BY <1>1, <1>2 DEF WellBuilt
  <1> QED  BY <1>2, <1>3, <1>4 DEF Frame, g

\* A frame being applied goes on under another slot as it was.
LEMMA DetachedJob ==
  ASSUME NEW j \in Job, NEW g \in Frame, g.ckpt = j.frame.ckpt
  PROVE  LET x == [j EXCEPT !.frame = g]
         IN x \in Job /\ x.st = j.st /\ x.next = j.next /\ x.frame.ckpt = j.frame.ckpt
  <1> DEFINE x == [j EXCEPT !.frame = g]
  <1>1. j \in JobShape /\ j.frame.ckpt # << >>  BY DEF Job
  <1>2. x \in JobShape /\ x.st = j.st /\ x.next = j.next /\ x.frame = g  BY <1>1 DEF JobShape
  <1> HIDE DEF x
  <1> QED  BY <1>1, <1>2 DEF Job, x

\* The frames being applied when their connection is lost.
LEMMA Orphans ==
  ASSUME Shape, NEW n \in Node
  PROVE  /\ Orphan(n) \subseteq Job
         /\ \A x \in Orphan(n) : \E j \in jobs[StandbyOf(n)] :
              x.st = j.st /\ x.next = j.next /\ x.frame.ckpt = j.frame.ckpt
  <1>1. jobs[StandbyOf(n)] \subseteq Job  BY Standbys DEF Shape
  <1>2. ASSUME NEW x \in Orphan(n)
        PROVE  x \in Job /\ \E j \in jobs[StandbyOf(n)] :
                 x.st = j.st /\ x.next = j.next /\ x.frame.ckpt = j.frame.ckpt
    <2>1. PICK j \in jobs[StandbyOf(n)] : x = [j EXCEPT !.frame.slot = Nobody]  BY <1>2 DEF Orphan
    <2> DEFINE g == [j.frame EXCEPT !.slot = Nobody]
    <2>2. j \in Job /\ j.frame \in Frame  BY <1>1 DEF Job, JobShape
    <2>3. g \in Frame /\ g.ckpt = j.frame.ckpt  BY <2>2, DetachedFrame
    <2>4. x = [j EXCEPT !.frame = g]  BY <2>1
    <2> HIDE DEF g
    <2> QED  BY <2>2, <2>3, <2>4, DetachedJob
  <1> QED  BY <1>2

\* The calls that outlive their connection have not begun to build.
LEMMA UnshippedShape ==
  ASSUME Shape, NEW n \in Node
  PROVE  /\ Unshipped(n) \in [Slot -> Ship]
         /\ \A k \in Slot : Unshipped(n)[k].st # "building"
         /\ \A k \in Slot : Unshipped(n)[k] = NoShip \/ Unshipped(n)[k] = ship[n][k]
  <1>1. ship[n] \in [Slot -> Ship]  BY DEF Shape
  <1>2. NoShip \in Ship /\ NoShip.st = "idle"  BY InitialShapes DEF NoShip
  <1>3. \A k \in Slot : Unshipped(n)[k] = IF ship[n][k].st \in {"building", "wait"} THEN NoShip ELSE ship[n][k]
    BY DEF Unshipped
  <1>4. Unshipped(n) \in [Slot -> Ship]
    BY <1>1, <1>2 DEF Unshipped
  <1> QED  BY <1>2, <1>3, <1>4

\* A connection that fails takes its frames and answers with it.
LEMMA DropKeeps ==
  ASSUME IInv, NEW n \in Node, Drop(n)
  PROVE  IInv'
  <1> DEFINE o == StandbyOf(n)
  <1>s. /\ Shape /\ ship \in [Node -> [Slot -> Ship]] /\ jobs \in [Node -> SUBSET Job]
        /\ chan \in [Node -> Seq(Frame)] /\ acks \in [Node -> Seq(Answer)] /\ faults \in 0 .. MaxFaults
    BY DEF IInv, Shape
  <1>o. o \in Node /\ o # n  BY Standbys
  <1>1. /\ faults < MaxFaults /\ faults' = faults + 1 /\ calm' = NoNode /\ up' = up \ {n}
        /\ ship' = [ship EXCEPT ![n] = Unshipped(n)]
        /\ chan' = [chan EXCEPT ![n] = << >>] /\ acks' = [acks EXCEPT ![n] = << >>]
        /\ jobs' = [jobs EXCEPT ![o] = Orphan(n)]
        /\ UNCHANGED <<cp, log, git, repo, live, me, repl, sync, promo, turns, won>>
    BY DEF Drop, Fault, history
  <1>2. /\ Unshipped(n) \in [Slot -> Ship]
        /\ \A k \in Slot : Unshipped(n)[k].st # "building"
        /\ \A k \in Slot : Unshipped(n)[k] = NoShip \/ Unshipped(n)[k] = ship[n][k]
    BY <1>s, UnshippedShape
  <1>3. /\ Orphan(n) \subseteq Job
        /\ \A x \in Orphan(n) : \E j \in jobs[o] :
             x.st = j.st /\ x.next = j.next /\ x.frame.ckpt = j.frame.ckpt
    BY <1>s, Orphans
  <1> HIDE DEF o
  <1>4. /\ ship' \in [Node -> [Slot -> Ship]] /\ ship'[n] = Unshipped(n)
        /\ \A m \in Node \ {n} : ship'[m] = ship[m]
    BY <1>1, <1>2, <1>s
  <1>5. /\ jobs' \in [Node -> SUBSET Job] /\ jobs'[o] = Orphan(n)
        /\ \A m \in Node \ {o} : jobs'[m] = jobs[m]
    BY <1>1, <1>3, <1>o, <1>s
  <1>e. << >> \in Seq(Frame) /\ << >> \in Seq(Answer) /\ Len(<< >>) = 0  BY EmptySeq
  <1>6. /\ chan' \in [Node -> Seq(Frame)] /\ chan'[n] = << >> /\ \A m \in Node \ {n} : chan'[m] = chan[m]
        /\ acks' \in [Node -> Seq(Answer)] /\ acks'[n] = << >> /\ \A m \in Node \ {n} : acks'[m] = acks[m]
    BY <1>1, <1>e, <1>s
  <1>7. faults' \in 0 .. MaxFaults  BY <1>1, <1>s, Bounds
  <1>8. Shape'  BY <1>1, <1>4, <1>5, <1>6, <1>7, <1>s DEF Shape
  <1>9. Fence'  BY <1>1, FenceIdle DEF IInv
  <1>10. \A m \in Node : \A i \in 1 .. Len(chan'[m]) : \E l \in 1 .. Len(chan[m]) : chan'[m][i].hash = chan[m][l].hash
    <2> TAKE m \in Node
    <2> TAKE i \in 1 .. Len(chan'[m])
    <2>1. CASE m = n
      <3>1. Len(chan'[m]) = 0  BY <2>1, <1>6, <1>e
      <3> QED  BY <3>1
    <2>2. CASE m # n  BY <2>2, <1>6
    <2> QED  BY <2>1, <2>2
  <1>11. \A m \in Node : \A x \in jobs'[m] : \E j \in jobs[m] :
           x.st = j.st /\ x.next = j.next /\ x.frame.ckpt = j.frame.ckpt
    BY <1>3, <1>5
  <1>12. \A k \in Slot : ship'[First][k].st = "building" =>
           ship'[First][k].records = log[First] \/ ship'[First][k] = ship[First][k]
    BY <1>2, <1>4, TwoMachines
  <1>13. Unbranched => \A m \in Node \ {First} : acks'[m] = << >> /\ \A k \in Slot : ship'[m][k] = NoShip
    <2> SUFFICES ASSUME Unbranched, NEW m \in Node \ {First}
                 PROVE  acks'[m] = << >> /\ \A k \in Slot : ship'[m][k] = NoShip
      OBVIOUS
    <2>1. acks[m] = << >> /\ \A k \in Slot : ship[m][k] = NoShip  BY DEF IInv, Snapshot, Silent
    <2>2. acks'[m] = << >>  BY <2>1, <1>6
    <2>3. CASE m = n  BY <2>1, <2>2, <2>3, <1>2, <1>4
    <2>4. CASE m # n  BY <2>1, <2>2, <2>4, <1>4
    <2> QED  BY <2>3, <2>4
  <1>14. Fetched' /\ Snapshot'  BY <1>1, <1>8, <1>10, <1>11, <1>12, <1>13, Carried
  <1> QED  BY <1>8, <1>9, <1>14 DEF IInv

\* A connection redialled, a setting turned on: nothing else moves.
LEMMA ReconnectKeeps ==
  ASSUME IInv, NEW n \in Node, Reconnect(n)
  PROVE  IInv'
  <1>1. /\ up' = up \union {n}
        /\ UNCHANGED <<cp, log, git, repo, live, me, ship, repl, sync, chan, acks, jobs, promo, turns, won, faults, calm>>
    BY DEF Reconnect, ownerVars, wire, history
  <1>2. Shape'  BY <1>1 DEF IInv, Shape
  <1>3. Fence'  BY <1>1, FenceIdle DEF IInv
  <1> QED  BY <1>1, <1>2, <1>3, CarriedIdle DEF IInv

\* The worktreeSync setting only decides whether later frames carry a bundle.
LEMMA EnableWorktreeSyncKeeps ==
  ASSUME IInv, EnableWorktreeSync
  PROVE  IInv'
  <1>1. /\ sync' = TRUE
        /\ UNCHANGED <<cp, log, git, repo, live, me, ship, repl, up, chan, acks, jobs, promo, turns, won, faults, calm>>
    BY DEF EnableWorktreeSync, ownerVars, wire, history
  <1>2. Shape'  BY <1>1 DEF IInv, Shape
  <1>3. Fence'  BY <1>1, FenceIdle DEF IInv
  <1> QED  BY <1>1, <1>2, <1>3, CarriedIdle DEF IInv

\* A sequence whose elements are replaced one by one.
LEMMA Mapped ==
  ASSUME NEW S, NEW s \in Seq(S), NEW d, d = [i \in DOMAIN s |-> d[i]],
         \A i \in 1 .. Len(s) : d[i] \in S
  PROVE  d \in Seq(S) /\ Len(d) = Len(s)
  <1>1. Len(s) \in Nat /\ DOMAIN s = 1 .. Len(s)  BY LenProperties
  <1>2. d \in [1 .. Len(s) -> S]  BY <1>1
  <1> QED  BY <1>1, <1>2

\* A request that timed out: its frame and its answer stay on their way, but
\* nobody waits for them.
LEMMA RequestTimesOutKeeps ==
  ASSUME IInv, NEW n \in Node, NEW k \in Slot, RequestTimesOut(n, k)
  PROVE  IInv'
  <1> DEFINE o == StandbyOf(n)
             Detach(x) == IF x.slot = k THEN [x EXCEPT !.slot = Nobody] ELSE x
             c == [i \in DOMAIN chan[n] |-> Detach(chan[n][i])]
             a == [i \in DOMAIN acks[n] |-> Detach(acks[n][i])]
             J == {[j EXCEPT !.frame = Detach(@)] : j \in jobs[o]}
  <1>s. /\ Shape /\ ship \in [Node -> [Slot -> Ship]] /\ jobs \in [Node -> SUBSET Job]
        /\ chan \in [Node -> Seq(Frame)] /\ acks \in [Node -> Seq(Answer)] /\ faults \in 0 .. MaxFaults
        /\ chan[n] \in Seq(Frame) /\ acks[n] \in Seq(Answer)
    BY DEF IInv, Shape
  <1>o. o \in Node /\ o # n  BY Standbys
  <1>1. /\ faults < MaxFaults /\ faults' = faults + 1 /\ calm' = NoNode
        /\ ship[n][k].st # "idle" /\ ship' = [ship EXCEPT ![n][k] = NoShip]
        /\ chan' = [chan EXCEPT ![n] = c] /\ acks' = [acks EXCEPT ![n] = a]
        /\ jobs' = [jobs EXCEPT ![o] = J]
        /\ UNCHANGED <<cp, log, git, repo, live, me, repl, up, sync, promo, turns, won>>
    BY <1>o, <1>s DEF RequestTimesOut, Fault, history
  <1>2. \A f \in Frame : Detach(f) \in Frame /\ Detach(f).hash = f.hash /\ Detach(f).ckpt = f.ckpt
    BY DetachedFrame
  <1>3. \A x \in Answer : Detach(x) \in Answer  BY DEF Answer, Waiter
  <1>4. c \in Seq(Frame) /\ Len(c) = Len(chan[n]) /\ \A i \in 1 .. Len(chan[n]) : c[i].hash = chan[n][i].hash
    <2>1. DOMAIN chan[n] = 1 .. Len(chan[n])  BY <1>s, LenProperties
    <2>2. \A i \in 1 .. Len(chan[n]) : chan[n][i] \in Frame /\ c[i] = Detach(chan[n][i])
      BY <2>1, <1>s, ElementOfSeq
    <2>3. c = [i \in DOMAIN chan[n] |-> c[i]]  OBVIOUS
    <2> HIDE DEF Detach, c
    <2>4. \A i \in 1 .. Len(chan[n]) : c[i] \in Frame /\ c[i].hash = chan[n][i].hash  BY <2>2, <1>2
    <2> QED  BY <2>3, <2>4, <1>s, Mapped
  <1>5. a \in Seq(Answer) /\ (acks[n] = << >> => a = << >>)
    <2>1. DOMAIN acks[n] = 1 .. Len(acks[n])  BY <1>s, LenProperties
    <2>2. \A i \in 1 .. Len(acks[n]) : acks[n][i] \in Answer /\ a[i] = Detach(acks[n][i])
      BY <2>1, <1>s, ElementOfSeq
    <2>3. a = [i \in DOMAIN acks[n] |-> a[i]]  OBVIOUS
    <2> HIDE DEF Detach, a
    <2>4. \A i \in 1 .. Len(acks[n]) : a[i] \in Answer  BY <2>2, <1>3
    <2>5. a \in Seq(Answer) /\ Len(a) = Len(acks[n])  BY <2>3, <2>4, <1>s, Mapped
    <2> QED  BY <2>5, EmptySeq
  <1>6. J \subseteq Job /\ \A x \in J : \E j \in jobs[o] :
          x.st = j.st /\ x.next = j.next /\ x.frame.ckpt = j.frame.ckpt
    <2>1. ASSUME NEW x \in J
          PROVE  x \in Job /\ \E j \in jobs[o] : x.st = j.st /\ x.next = j.next /\ x.frame.ckpt = j.frame.ckpt
      <3>1. PICK j \in jobs[o] : x = [j EXCEPT !.frame = Detach(@)]  OBVIOUS
      <3> DEFINE g == Detach(j.frame)
      <3>2. j \in Job /\ j.frame \in Frame  BY <1>s, <1>o DEF Job, JobShape
      <3>3. x = [j EXCEPT !.frame = g]  BY <3>1
      <3>4. g \in Frame /\ g.ckpt = j.frame.ckpt
        <4> HIDE DEF Detach
        <4> QED  BY <3>2, <1>2
      <3> HIDE DEF g
      <3> QED  BY <3>2, <3>3, <3>4, DetachedJob
    <2> QED  BY <2>1
  <1> HIDE DEF o, Detach, c, a, J
  <1>7. /\ ship' \in [Node -> [Slot -> Ship]] /\ ship'[n][k] = NoShip
        /\ \A m \in Node, x \in Slot : m # n \/ x # k => ship'[m][x] = ship[m][x]
    BY <1>1, <1>s, InitialShapes
  <1>8. /\ chan' \in [Node -> Seq(Frame)] /\ chan'[n] = c /\ \A m \in Node \ {n} : chan'[m] = chan[m]
        /\ acks' \in [Node -> Seq(Answer)] /\ acks'[n] = a /\ \A m \in Node \ {n} : acks'[m] = acks[m]
    BY <1>1, <1>4, <1>5, <1>s
  <1>9. jobs' \in [Node -> SUBSET Job] /\ jobs'[o] = J /\ \A m \in Node \ {o} : jobs'[m] = jobs[m]
    BY <1>1, <1>6, <1>o, <1>s
  <1>10. faults' \in 0 .. MaxFaults  BY <1>1, <1>s, Bounds
  <1>11. Shape'  BY <1>1, <1>7, <1>8, <1>9, <1>10, <1>s DEF Shape
  <1>12. Fence'  BY <1>1, FenceIdle DEF IInv
  <1>13. \A m \in Node : \A i \in 1 .. Len(chan'[m]) : \E l \in 1 .. Len(chan[m]) : chan'[m][i].hash = chan[m][l].hash
    <2> TAKE m \in Node
    <2> TAKE i \in 1 .. Len(chan'[m])
    <2>1. CASE m = n  BY <2>1, <1>4, <1>8
    <2>2. CASE m # n  BY <2>2, <1>8
    <2> QED  BY <2>1, <2>2
  <1>14. \A m \in Node : \A x \in jobs'[m] : \E j \in jobs[m] :
           x.st = j.st /\ x.next = j.next /\ x.frame.ckpt = j.frame.ckpt
    BY <1>6, <1>9
  <1>15. \A x \in Slot : ship'[First][x].st = "building" =>
           ship'[First][x].records = log[First] \/ ship'[First][x] = ship[First][x]
    <2>1. NoShip.st # "building"  BY DEF NoShip
    <2> QED  BY <2>1, <1>7, TwoMachines
  <1>16. Unbranched => \A m \in Node \ {First} : acks'[m] = << >> /\ \A x \in Slot : ship'[m][x] = NoShip
    <2> SUFFICES ASSUME Unbranched, NEW m \in Node \ {First}
                 PROVE  acks'[m] = << >> /\ \A x \in Slot : ship'[m][x] = NoShip
      OBVIOUS
    <2>1. n = First  BY <1>1, OnlyFirstShips
    <2>2. acks'[m] = acks[m] /\ \A x \in Slot : ship'[m][x] = ship[m][x]  BY <2>1, <1>7, <1>8
    <2> QED  BY <2>2 DEF IInv, Snapshot, Silent
  <1>17. Fetched' /\ Snapshot'  BY <1>1, <1>11, <1>13, <1>14, <1>15, <1>16, Carried
  <1> QED  BY <1>11, <1>12, <1>17 DEF IInv

\* A restart forgets what was in memory and breaks both connections.
LEMMA RestartKeeps ==
  ASSUME IInv, NEW n \in Node, Restart(n)
  PROVE  IInv'
  <1> DEFINE o == StandbyOf(n)
             none == [k \in Slot |-> NoShip]
  <1>s. /\ Shape /\ ship \in [Node -> [Slot -> Ship]] /\ jobs \in [Node -> SUBSET Job]
        /\ me \in [Node -> Owner] /\ repl \in [Node -> ReplState] /\ promo \in [Node -> Promo]
        /\ faults \in 0 .. MaxFaults
    BY DEF IInv, Shape
  <1>o. o \in Node /\ o # n /\ OwnerOf(n) = o /\ \A m \in Node : m = n \/ m = o
    BY Standbys, TwoMachines
  <1>1. /\ faults < MaxFaults /\ faults' = faults + 1 /\ calm' = NoNode /\ up' = {}
        /\ me' = [me EXCEPT ![n] = Undeclared]
        /\ ship' = [ship EXCEPT ![n] = none, ![o] = Unshipped(o)]
        /\ repl' = [repl EXCEPT ![n] = InitialReplState]
        /\ promo' = [promo EXCEPT ![n] = NoPromo]
        /\ jobs' = [jobs EXCEPT ![n] = {}, ![o] = Orphan(n)]
        /\ chan' = [m \in Node |-> << >>] /\ acks' = [m \in Node |-> << >>]
        /\ UNCHANGED <<cp, log, git, repo, live, sync, turns, won>>
    BY <1>o DEF Restart, Fault, history
  <1>2. /\ Unshipped(o) \in [Slot -> Ship]
        /\ \A k \in Slot : Unshipped(o)[k].st # "building"
        /\ \A k \in Slot : Unshipped(o)[k] = NoShip \/ Unshipped(o)[k] = ship[o][k]
    BY <1>s, <1>o, UnshippedShape
  <1>3. /\ Orphan(n) \subseteq Job
        /\ \A x \in Orphan(n) : \E j \in jobs[o] :
             x.st = j.st /\ x.next = j.next /\ x.frame.ckpt = j.frame.ckpt
    BY <1>s, Orphans
  <1>4. none \in [Slot -> Ship] /\ \A k \in Slot : none[k] = NoShip /\ none[k].st # "building"
    BY InitialShapes DEF NoShip
  <1> HIDE DEF o, none
  <1>5. ship' \in [Node -> [Slot -> Ship]] /\ ship'[n] = none /\ ship'[o] = Unshipped(o)
    BY <1>1, <1>2, <1>4, <1>o, <1>s
  <1>6. jobs' \in [Node -> SUBSET Job] /\ jobs'[n] = {} /\ jobs'[o] = Orphan(n)
    BY <1>1, <1>3, <1>o, <1>s
  <1>e. << >> \in Seq(Frame) /\ << >> \in Seq(Answer) /\ Len(<< >>) = 0  BY EmptySeq
  <1>7. /\ chan' \in [Node -> Seq(Frame)] /\ acks' \in [Node -> Seq(Answer)]
        /\ \A m \in Node : chan'[m] = << >> /\ acks'[m] = << >>
    BY <1>1, <1>e
  <1>8. me' \in [Node -> Owner]  BY <1>1, <1>s, InitialShapes
  <1>9. /\ repl' \in [Node -> ReplState] /\ promo' \in [Node -> Promo]
        /\ \A y \in Node : repl'[y] = repl[y] \/ repl'[y] = InitialReplState
        /\ \A y \in Node : promo'[y] = promo[y] \/ promo'[y].st # "read"
    <2>1. NoPromo.st # "read"  BY DEF NoPromo
    <2> QED  BY <2>1, <1>1, <1>s, InitialShapes
  <1>10. faults' \in 0 .. MaxFaults  BY <1>1, <1>s, Bounds
  <1>11. Shape'  BY <1>1, <1>5, <1>6, <1>7, <1>8, <1>9, <1>10, <1>s DEF Shape
  <1>12. Fence'  BY <1>1, <1>9, FenceIdle DEF IInv
  <1>13. \A m \in Node : \A i \in 1 .. Len(chan'[m]) : \E l \in 1 .. Len(chan[m]) : chan'[m][i].hash = chan[m][l].hash
    <2>1. \A m \in Node : Len(chan'[m]) = 0  BY <1>7, <1>e
    <2> QED  BY <2>1
  <1>14. \A m \in Node : \A x \in jobs'[m] : \E j \in jobs[m] :
           x.st = j.st /\ x.next = j.next /\ x.frame.ckpt = j.frame.ckpt
    BY <1>3, <1>6, <1>o
  <1>15. \A k \in Slot : ship'[First][k].st = "building" =>
           ship'[First][k].records = log[First] \/ ship'[First][k] = ship[First][k]
    <2>1. First = n \/ First = o  BY <1>o, TwoMachines
    <2> QED  BY <2>1, <1>2, <1>4, <1>5
  <1>16. Unbranched => \A m \in Node \ {First} : acks'[m] = << >> /\ \A k \in Slot : ship'[m][k] = NoShip
    <2> SUFFICES ASSUME Unbranched, NEW m \in Node \ {First}
                 PROVE  acks'[m] = << >> /\ \A k \in Slot : ship'[m][k] = NoShip
      OBVIOUS
    <2>1. \A k \in Slot : ship[m][k] = NoShip  BY DEF IInv, Snapshot, Silent
    <2>2. acks'[m] = << >>  BY <1>7
    <2>3. CASE m = n  BY <2>2, <2>3, <1>4, <1>5
    <2>4. CASE m = o  BY <2>1, <2>2, <2>4, <1>2, <1>5
    <2> QED  BY <2>3, <2>4, <1>o
  <1>17. Fetched' /\ Snapshot'  BY <1>1, <1>9, <1>11, <1>13, <1>14, <1>15, <1>16, Carried
  <1> QED  BY <1>11, <1>12, <1>17 DEF IInv

-----------------------------------------------------------------------------
(* The theorems. *)

\* A session on its first machine, nothing declared, shipped or promoted.
LEMMA InitHolds == Init => IInv
  <1> SUFFICES ASSUME Init PROVE IInv  OBVIOUS
  <1>0. /\ First \in Node /\ Len(<< >>) = 0 /\ << >> \in Seq(Frame) /\ << >> \in Seq(Answer)
    BY TwoMachines, EmptySeq
  <1>1. Shape
    <2>1. cp \in [owner : Node \union {NoNode}, epoch : Epoch]  BY Bounds DEF Init, Epoch
    <2>2. IsFiniteSet(turns) /\ Cardinality(turns) <= MaxTurns  BY Bounds, FS_EmptySet DEF Init
    <2>3. ship \in [Node -> [Slot -> Ship]]  BY InitialShapes DEF Init
    <2>4. log \in [Node -> Turn] /\ git \in Turn /\ repo \in [Node -> Turn]  BY InitialShapes DEF Init
    <2>5. me \in [Node -> Owner] /\ repl \in [Node -> ReplState] /\ promo \in [Node -> Promo]
      BY InitialShapes DEF Init
    <2>6. chan \in [Node -> Seq(Frame)] /\ acks \in [Node -> Seq(Answer)] /\ jobs \in [Node -> SUBSET Job]
      BY <1>0 DEF Init
    <2>7. sync \in BOOLEAN  BY SyncSetting DEF Init
    <2>8. faults \in 0 .. MaxFaults /\ calm \in Node \union {NoNode} /\ live \subseteq Node /\ up \subseteq Node
      BY <1>0, Bounds DEF Init
    <2> QED  BY <2>1, <2>2, <2>3, <2>4, <2>5, <2>6, <2>7, <2>8 DEF Shape
  <1>2. Fence  BY DEF Init, Fence, OnePromotionPerEpoch, NoPromo
  <1>3. Fetched  BY DEF Init, Fetched, CheckpointBeforeTranscript, InitialReplState
  <1>4. Silent  BY <1>0 DEF Init, Silent
  <1>5. Flowing
    <2>1. \A k \in Slot : ship[First][k].st # "building"  BY <1>0 DEF Init, NoShip
    <2>2. Len(chan[First]) = 0  BY <1>0 DEF Init
    <2> QED  BY <2>1, <2>2 DEF Init, Flowing
  <1>6. Stored
    <2>1. IsPrefix(<< >>, << >>)  BY InitialShapes, PrefixOrder
    <2> QED  BY <2>1, <1>0 DEF Init, Stored, InitialReplState
  <1> QED  BY <1>1, <1>2, <1>3, <1>4, <1>5, <1>6 DEF IInv, Snapshot

\* Every step of a session and its replica keeps the invariant.
LEMMA NextKeeps == IInv /\ [Next]_vars => IInv'
  <1> SUFFICES ASSUME IInv, [Next]_vars PROVE IInv'  OBVIOUS
  <1>1. ASSUME NEW n \in Node, NEW k \in Slot, ShipStep(n, k)  PROVE IInv'
    BY <1>1, DeclareKeeps, SkipRoundKeeps, ShipBeginsKeeps, ShipFrameKeeps, RequestTimesOutKeeps DEF ShipStep
  <1>2. ASSUME NEW n \in Node, NodeStep(n)  PROVE IInv'
    BY <1>2, TurnEndsKeeps, AckKeeps, ReceiveKeeps, PromoteReadsKeeps, PromoteSetsKeeps, PromotedKeeps,
       PromotionFailsKeeps, DropKeeps, ReconnectKeeps, RestartKeeps DEF NodeStep
  <1>3. ASSUME NEW m \in Node, Apply(m)  PROVE IInv'
    BY <1>3, FetchCheckpointKeeps, PersistFrameKeeps DEF Apply
  <1>4. CASE EnableWorktreeSync  BY <1>4, EnableWorktreeSyncKeeps
  <1>5. CASE UNCHANGED vars
    <2>1. UNCHANGED <<cp, log, git, repo, live, me, repl, up, sync, ship, chan, jobs, acks, promo,
                      turns, won, faults, calm>>
      BY <1>5 DEF vars
    <2>2. Shape'  BY <2>1 DEF IInv, Shape
    <2>3. Fence'  BY <2>1, FenceIdle DEF IInv
    <2> QED  BY <2>1, <2>2, <2>3, CarriedIdle DEF IInv
  <1> QED  BY <1>1, <1>2, <1>3, <1>4, <1>5 DEF Next

\* The inductive invariant holds throughout.
THEOREM Invariance == Spec => []IInv
  BY InitHolds, NextKeeps, PTL DEF Spec

\* Every variable keeps its shape: replicas, cursors, frames being applied.
THEOREM TypeCorrect == Spec => []TypeOK
  <1>1. IInv => TypeOK
    <2> SUFFICES ASSUME Shape PROVE TypeOK  BY DEF IInv
    <2>1. ASSUME NEW n \in Node
          PROVE  /\ log[n] \in Turn /\ repo[n] \in Turn
                 /\ me[n].declared \in BOOLEAN /\ me[n].epoch \in 0 .. MaxEpoch /\ me[n].cursor \in Cursor
                 /\ repl[n].epoch \in 0 .. MaxEpoch /\ CursorOf(repl[n]) \in Cursor
                 /\ \A k \in Slot : ship[n][k].st \in {"idle", "declare", "connect", "building", "wait"}
                 /\ \A j \in jobs[n] : j.st \in {"git", "persist"} /\ j.next \in Turn
                 /\ promo[n].st \in {"none", "read", "won"}
      <3>1. log[n] \in Turn /\ repo[n] \in Turn /\ me[n] \in Owner /\ repl[n] \in ReplState /\ promo[n] \in Promo
        BY DEF Shape
      <3>2. (\A k \in Slot : ship[n][k] \in Ship) /\ \A j \in jobs[n] : j \in JobShape  BY DEF Shape, Job
      <3>3. CursorOf(repl[n]) \in Cursor
        <4>1. repl[n].records \in Turn /\ repl[n].hash \in Turn /\ repl[n].ckpt \in Turn  BY <3>1 DEF ReplState
        <4>2. Len(repl[n].records) \in Nat  BY <4>1, LenProperties DEF Turn
        <4> QED  BY <4>1, <4>2 DEF CursorOf, Cursor
      <3>4. me[n].declared \in BOOLEAN /\ me[n].epoch \in 0 .. MaxEpoch /\ me[n].cursor \in Cursor
        BY <3>1 DEF Owner, Epoch
      <3>5. repl[n].epoch \in 0 .. MaxEpoch  BY <3>1 DEF ReplState, Epoch
      <3>6. promo[n].st \in {"none", "read", "won"}  BY <3>1 DEF Promo
      <3>7. \A k \in Slot : ship[n][k].st \in {"idle", "declare", "connect", "building", "wait"}  BY <3>2 DEF Ship
      <3>8. \A j \in jobs[n] : j.st \in {"git", "persist"} /\ j.next \in Turn  BY <3>2 DEF JobShape
      <3> QED  BY <3>1, <3>3, <3>4, <3>5, <3>6, <3>7, <3>8
    <2>2. cp.owner \in Node \union {NoNode} /\ cp.epoch \in 0 .. MaxEpoch  BY DEF Shape, Epoch
    <2>3. /\ git \in Turn /\ live \subseteq Node /\ up \subseteq Node /\ sync \in BOOLEAN
          /\ calm \in Node \union {NoNode} /\ faults \in 0 .. MaxFaults
      BY DEF Shape
    <2> QED  BY <2>1, <2>2, <2>3 DEF TypeOK
  <1> QED  BY Invariance, <1>1, PTL

\* The standby's transcript is the session's up to the end of some turn, until
\* another machine has run a turn, whatever is lost, late or applied at once.
THEOREM ReplicaStaysSnapshot == Spec => []ReplicaIsSnapshot
  <1>1. IInv => ReplicaIsSnapshot  BY DEF IInv, Snapshot, Stored, ReplicaIsSnapshot
  <1> QED  BY Invariance, <1>1, PTL

\* No view is committed whose fetched checkpoint is not in the replica's
\* repository: applyBundle comes before persist, and the ref only moves forward.
THEOREM CheckpointComesFirst == Spec => []CheckpointBeforeTranscript
  <1>1. IInv => CheckpointBeforeTranscript  BY DEF IInv, Fetched
  <1> QED  BY Invariance, <1>1, PTL

\* The compare-and-set of the ownership epoch lets one machine win each epoch.
THEOREM PromotionsAreFenced == Spec => []OnePromotionPerEpoch
  <1>1. IInv => OnePromotionPerEpoch  BY DEF IInv, Fence
  <1> QED  BY Invariance, <1>1, PTL
=============================================================================
