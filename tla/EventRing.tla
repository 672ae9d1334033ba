------------------------------ MODULE EventRing ------------------------------
(***************************************************************************)
(* The replay buffer of one session (SessionEventSequencer): head is the   *)
(* highest seq assigned, entries the retained events in ascending order of *)
(* seq, oldest first.  An entry is a record with fields seq and bytes.     *)
(***************************************************************************)
EXTENDS Naturals, Sequences, FiniteSets, SequencesExt

CONSTANTS MaxEvents,  \* maxEventsPerSession
          MaxBytes    \* maxBytesPerSession

ASSUME CapAssumption == MaxEvents \in Nat \ {0} /\ MaxBytes \in Nat \ {0}

NoRing == [head |-> 0, entries |-> <<>>]

Bytes(entries) == FoldLeft(LAMBDA sum, e : sum + e.bytes, 0, entries)
Fits(entries) == Len(entries) <= MaxEvents /\ Bytes(entries) <= MaxBytes
Since(entries, k) == SubSeq(entries, k, Len(entries))

\* evict stops at entry k: what is left from there is within both caps, or is the
\* newest alone, and nothing longer is.
EvictStops(entries, k) ==
  /\ k = Len(entries) \/ Fits(Since(entries, k))
  /\ \A j \in 1 .. k - 1 : ~Fits(Since(entries, j))

\* evict: drop the oldest until both caps hold, but never the newest.  The set of
\* what may be left, which has one element.
Evict(entries) == {Since(entries, k) : k \in {j \in 1 .. Len(entries) : EvictStops(entries, j)}}

\* record: retain the event, unless it would leave a hole.
Record(entries, e) ==
  IF entries = <<>> \/ Last(entries).seq + 1 = e.seq THEN Evict(Append(entries, e)) ELSE {entries}

\* Mutant: the event is recorded without having been assigned a seq of its own.
StampStale(ring, e) ==
  {[head |-> ring.head + 1, entries |-> es] : es \in Record(ring.entries, [e EXCEPT !.seq = ring.head])}

\* next and record: the event gets the next seq and is retained.
Stamp(ring, e) ==
  {[head |-> ring.head + 1, entries |-> es] : es \in Record(ring.entries, [e EXCEPT !.seq = ring.head + 1])}

Oldest(ring) == IF ring.entries = <<>> THEN ring.head + 1 ELSE ring.entries[1].seq

\* Mutant: off by one in the hole test.
EvictedOffByOne(ring, after) == after < ring.head /\ after + 2 < Oldest(ring)

\* replay answers reset when the ring no longer holds seq after + 1.
Evicted(ring, after) == after < ring.head /\ after + 1 < Oldest(ring)

\* replay: the retained tail after the last seq the client holds.  Entries ascend,
\* so what the filter drops is the oldest of them.
ReplayTail(ring, after) ==
  LET dropped == {k \in DOMAIN ring.entries : ring.entries[k].seq <= after}
  IN Since(ring.entries, Cardinality(dropped) + 1)
=============================================================================
