--------------------------- MODULE OrderedDelivery ---------------------------
(***************************************************************************)
(* What a client is promised about the events of a link: it is handed them *)
(* in the order the machine sent them, each at most once, and only events  *)
(* that were sent.  Events may be lost (the session layer replays those    *)
(* that matter); they are never reordered, repeated or handed over after a *)
(* later one.                                                              *)
(***************************************************************************)
EXTENDS Naturals, Sequences

VARIABLES next,   \* the number of the next event sent
          wire,   \* the events sent and not yet dealt with
          got     \* the events dealt with, in order

Init == next = 1 /\ wire = {} /\ got = <<>>

\* An event is sent, or lost at once because nobody listens.
Send ==
  /\ next' = next + 1
  /\ wire' \in {wire, wire \union {next}}
  /\ UNCHANGED got

\* Some events of the wire are dealt with, in the order they were sent; whatever
\* was sent before one of them is gone, and of the others any may be lost.
Receive ==
  LET fresh == Len(got) + 1 .. Len(got')
  IN /\ Len(got) <= Len(got') /\ \A i \in 1 .. Len(got) : got'[i] = got[i]
     /\ \A i \in fresh : got'[i] \in wire
     /\ \A i, j \in fresh : i < j => got'[i] < got'[j]
     /\ wire' \subseteq wire
     /\ \A n \in wire', i \in fresh : got'[i] < n
     /\ UNCHANGED next

Spec == Init /\ [][Send \/ Receive]_<<next, wire, got>>
=============================================================================
