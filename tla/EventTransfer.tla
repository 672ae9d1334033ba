---------------------------- MODULE EventTransfer ----------------------------
(***************************************************************************)
(* Delivery of events too large for one frame.  The machine keeps the      *)
(* sealed event and sends an offer in its place; the client pulls it page  *)
(* by page, one page in flight, while later events wait in a queue.        *)
(* Requests time out and are repeated, the machine forgets offers, its     *)
(* link drops frames both ways, and the client's own link breaks and is    *)
(* redialled.  Decrypting a finished event is asynchronous: a continuation *)
(* that may resume after the receiver was reset.                           *)
(***************************************************************************)
EXTENDS Naturals, Sequences, FiniteSets

CONSTANTS Pages,      \* pages of a large event
          Retries,    \* repeated requests for a page before giving up (2)
          MaxStored,  \* offers the machine keeps (16)
          MaxQueue,   \* events the client lets wait (4096)
          MaxEvents,  \* bound: events sent
          MaxFrames,  \* bound: frames on their way to the client
          MaxRedials  \* bound: links after the first

ASSUME TransferBounds ==
  /\ Pages \in Nat \ {0} /\ Retries \in Nat /\ MaxStored \in Nat /\ MaxQueue \in Nat
  /\ MaxEvents \in Nat /\ MaxFrames \in Nat /\ MaxRedials \in Nat

VARIABLES
  next,        \* number of the next event
  entries,     \* the machine's stored transfers, by event number
  down,        \* frames to the client, in order
  up,          \* page requests to the machine, in order
  pending,     \* the transfer being pulled, or NoTransfer
  queue,       \* events waiting behind it
  got,         \* the events dealt with, in order: handed over whole, replaced by an
               \* error ("notice"), or passed over ("foreign")
  generation,  \* resets of the receiver
  opening,     \* decryptions under way: their transfer and generation
  link,        \* the client's socket: "open", "closing" (we closed it), "closed"
  redials      \* links opened after the first

vars == <<next, entries, down, up, pending, queue, got, generation, opening, link, redials>>
linkVars == <<link, redials>>

NoTransfer == [tid |-> 0, pages |-> <<>>, asking |-> FALSE, retries |-> 0]
\* Somebody else's request, answered in the same room.
Other == Retries + 1

-----------------------------------------------------------------------------
(* The machine: EventTransferStore and sendEvent. *)

\* Mutant: no bound on the transfers kept.
OfferedAlways(kind) == IF kind = "huge" THEN "notice" ELSE kind

\* What sendEvent puts on the wire for an event: itself, an offer, or an error
\* that takes its place (too large to deliver, or no room to keep it).
Offered(kind) ==
  IF kind = "huge" \/ (kind \in {"large", "foreign"} /\ Cardinality(entries) >= MaxStored)
  THEN "notice" ELSE kind

\* Frames reach the client only over an open link.
Downward(frame) == IF link = "open" THEN Append(down, frame) ELSE down

SendEvent(kind) ==
  /\ next <= MaxEvents /\ Len(down) < MaxFrames
  /\ LET k == Offered(kind)
     IN /\ down' = Downward([t |-> "event", n |-> next, kind |-> k])
        /\ entries' = IF k \in {"large", "foreign"} THEN entries \union {next} ELSE entries
  /\ next' = next + 1
  /\ UNCHANGED <<up, pending, queue, got, generation, opening, linkVars>>

\* A page, or the error that the transfer is gone.
Part(r) == [t |-> "part", n |-> r.n, page |-> r.page, try |-> r.try, found |-> r.n \in entries]

Read ==
  /\ up # <<>> /\ Len(down) < MaxFrames
  /\ down' = Downward(Part(Head(up)))
  /\ up' = Tail(up)
  /\ UNCHANGED <<next, entries, pending, queue, got, generation, opening, linkVars>>

\* Another client of the room pulls the transfer the machine sent to all.
OtherReads(t, page) ==
  /\ Len(down) < MaxFrames
  /\ down' = Downward(Part([n |-> t, page |-> page, try |-> Other]))
  /\ UNCHANGED <<next, entries, up, pending, queue, got, generation, opening, linkVars>>

\* The lease or the deadline of a transfer passes, or the store is cleared.
Expire(t) ==
  /\ t \in entries
  /\ entries' = entries \ {t}
  /\ UNCHANGED <<next, down, up, pending, queue, got, generation, opening, linkVars>>

\* The machine's link drops: its last frames and the requests to it are lost.
NodeLinkDrops ==
  /\ \E k \in 0 .. Len(down) : down' = SubSeq(down, 1, k)
  /\ up' = <<>>
  /\ down' # down \/ up # <<>>
  /\ UNCHANGED <<next, entries, pending, queue, got, generation, opening, linkVars>>

-----------------------------------------------------------------------------
(* The client: EventTransferReceiver. *)

\* A request; the page and the count of its repetitions tell it from every other
\* request for the transfer, as its random id does.
Request(p) == [n |-> p.tid, page |-> Len(p.pages), try |-> p.retries]
Begin(t) == [tid |-> t, pages |-> <<>>, asking |-> TRUE, retries |-> 0]

\* Delivery of q stops at its first offer to be pulled, or behind its end.
StopsAt(q, k) ==
  /\ k <= Len(q) => q[k].kind = "large"
  /\ \A i \in 1 .. k - 1 : q[i].kind # "large"

\* drain, and accept with nothing waiting: deal with the events up to the next
\* offer, passing over answers to other clients, and start pulling that one.
Drained(q, sofar) ==
  \E k \in 1 .. Len(q) + 1 :
    /\ StopsAt(q, k)
    /\ got' = sofar \o [i \in 1 .. k - 1 |-> [n |-> q[i].n, how |-> q[i].kind]]
    /\ pending' = IF k <= Len(q) THEN Begin(q[k].n) ELSE NoTransfer
    /\ queue' = SubSeq(q, k + 1, Len(q))
    /\ up' = IF k <= Len(q) THEN Append(up, Request(Begin(q[k].n))) ELSE up

Reset == pending' = NoTransfer /\ queue' = <<>> /\ generation' = generation + 1
\* The transport closes its socket; what is on its way is not read any more.
Fault == link' = "closing" /\ down' = <<>> /\ UNCHANGED redials

\* fail: give up the stream, with an error in the event's place.
Fail ==
  /\ Reset /\ Fault
  /\ got' = Append(got, [n |-> pending.tid, how |-> "notice"])
  /\ UNCHANGED <<up, opening>>

AcceptEvent ==
  /\ link = "open" /\ down # <<>> /\ Head(down).t = "event"
  /\ LET e == Head(down)
         busy == pending # NoTransfer \/ queue # <<>>
     IN \/ /\ busy /\ Len(queue) >= MaxQueue
           /\ Reset /\ Fault
           /\ UNCHANGED <<up, got>>
        \/ /\ busy /\ Len(queue) < MaxQueue
           /\ queue' = Append(queue, e)
           /\ down' = Tail(down)
           /\ UNCHANGED <<up, pending, got, generation, linkVars>>
        \/ /\ ~busy
           /\ Drained(<<e>>, got)
           /\ down' = Tail(down)
           /\ UNCHANGED <<generation, linkVars>>
  /\ UNCHANGED <<next, entries, opening>>

\* Mutant: a page is recognised by its transfer alone.
AnswersTransfer(f) == pending.tid = f.n

\* The answer to the one request in flight.
Answers(f) ==
  pending.asking /\ f.n = pending.tid /\ f.page = Len(pending.pages) /\ f.try = pending.retries

AcceptPart ==
  /\ link = "open" /\ down # <<>> /\ Head(down).t = "part"
  /\ LET f == Head(down)
         filled == [pending EXCEPT !.pages = Append(@, f.page), !.retries = 0]
         last == Len(filled.pages) >= Pages
     IN \/ /\ ~Answers(f)
           /\ down' = Tail(down)
           /\ UNCHANGED <<up, pending, queue, got, generation, opening, linkVars>>
        \/ Answers(f) /\ ~f.found /\ Fail
        \/ /\ Answers(f) /\ f.found /\ ~last
           /\ pending' = filled
           /\ up' = Append(up, Request(filled))
           /\ down' = Tail(down)
           /\ UNCHANGED <<queue, got, generation, opening, linkVars>>
        \/ /\ Answers(f) /\ f.found /\ last
           /\ pending' = [filled EXCEPT !.asking = FALSE]
           /\ opening' = opening \union {[tid |-> f.n, generation |-> generation]}
           /\ down' = Tail(down)
           /\ UNCHANGED <<up, queue, got, generation, linkVars>>
  /\ UNCHANGED <<next, entries>>

\* Mutant: the finished event is handed over whatever happened meanwhile.
DecryptedAnyway(d) ==
  /\ d \in opening
  /\ opening' = opening \ {d}
  /\ Drained(queue, Append(got, [n |-> d.tid, how |-> "large"]))
  /\ UNCHANGED <<next, entries, down, generation, linkVars>>

\* Mutant: the queue is not drained once the event is there.
DecryptedHolds(d) ==
  /\ d \in opening
  /\ opening' = opening \ {d}
  /\ IF d.generation = generation /\ d.tid = pending.tid
     THEN /\ got' = Append(got, [n |-> d.tid, how |-> "large"])
          /\ pending' = NoTransfer
     ELSE UNCHANGED <<pending, got>>
  /\ UNCHANGED <<next, entries, down, up, queue, generation, linkVars>>

\* The decryption of a complete event resolves, for a receiver that may have
\* been reset since.
Decrypted(d) ==
  /\ d \in opening
  /\ opening' = opening \ {d}
  /\ IF d.generation = generation /\ d.tid = pending.tid
     THEN Drained(queue, Append(got, [n |-> d.tid, how |-> "large"]))
     ELSE UNCHANGED <<up, pending, queue, got>>
  /\ UNCHANGED <<next, entries, down, generation, linkVars>>

\* Mutant: requests are repeated without end.
TimeoutForever ==
  /\ pending.asking
  /\ pending' = [pending EXCEPT !.retries = @ + 1]
  /\ up' = Append(up, Request(pending'))
  /\ UNCHANGED <<next, entries, down, queue, got, generation, opening, linkVars>>

\* Mutant: after the last repeated request the page is waited for.
TimeoutWaits ==
  /\ pending.asking /\ pending.retries < Retries
  /\ pending' = [pending EXCEPT !.retries = @ + 1]
  /\ up' = Append(up, Request(pending'))
  /\ UNCHANGED <<next, entries, down, queue, got, generation, opening, linkVars>>

\* The page's timer fires: ask again under a new request id, or give up.
Timeout ==
  /\ pending.asking
  /\ \/ /\ pending.retries < Retries
        /\ pending' = [pending EXCEPT !.retries = @ + 1]
        /\ up' = Append(up, Request(pending'))
        /\ UNCHANGED <<down, queue, got, generation, opening, linkVars>>
     \/ pending.retries >= Retries /\ Fail
  /\ UNCHANGED <<next, entries>>

\* send() of the page request rejects: the stream is given up at once.
SendRejects ==
  /\ pending.asking
  /\ Fail
  /\ UNCHANGED <<next, entries>>

\* The client's socket closes, by itself or because of a fault.
LinkCloses ==
  /\ link # "closed"
  /\ link' = "closed" /\ down' = <<>>
  /\ Reset
  /\ UNCHANGED <<next, entries, up, got, opening, redials>>

Redial ==
  /\ link = "closed" /\ redials < MaxRedials
  /\ link' = "open" /\ redials' = redials + 1
  /\ UNCHANGED <<next, entries, down, up, pending, queue, got, generation, opening>>

-----------------------------------------------------------------------------
Kinds == {"small", "large", "foreign", "huge"}

Init ==
  /\ next = 1 /\ entries = {} /\ down = <<>> /\ up = <<>>
  /\ pending = NoTransfer /\ queue = <<>> /\ got = <<>>
  /\ generation = 0 /\ opening = {} /\ link = "open" /\ redials = 0

Next ==
  \/ \E kind \in Kinds : SendEvent(kind)
  \/ Read \/ NodeLinkDrops
  \/ \E t \in entries : Expire(t) \/ \E page \in 0 .. Pages - 1 : OtherReads(t, page)
  \/ AcceptEvent \/ AcceptPart \/ Timeout \/ SendRejects
  \/ \E d \in opening : Decrypted(d)
  \/ LinkCloses \/ Redial

Spec == Init /\ [][Next]_vars

\* Timers fire and promises resolve; nothing is assumed of the network.
FairSpec == Spec /\ WF_vars(Timeout) /\ WF_vars(\E d \in opening : Decrypted(d))

-----------------------------------------------------------------------------
(* Properties. *)

\* The shape of every variable.
TypeOK ==
  /\ next \in 1 .. MaxEvents + 1 /\ entries \subseteq 1 .. MaxEvents
  /\ \A i \in DOMAIN up : up[i].n \in 1 .. MaxEvents /\ up[i].page \in 0 .. Pages - 1
  /\ pending.tid \in 0 .. MaxEvents /\ pending.retries \in 0 .. Retries
  /\ Len(queue) <= MaxQueue /\ Len(down) <= MaxFrames
  /\ link \in {"open", "closing", "closed"} /\ redials \in 0 .. MaxRedials

\* The pages of a transfer are put together in order, each once, whatever
\* requests were repeated and whoever else pulls it: the decryption of a complete
\* event never meets a page of another request in a wrong place.
PagesInOrder == \A i \in 1 .. Len(pending.pages) : i <= Pages /\ pending.pages[i] = i - 1

\* The machine keeps a bounded number of undelivered events.
StoreBounded == Cardinality(entries) <= MaxStored

\* An event never waits with nothing before it: whatever is queued waits for a
\* transfer that a timer or a decryption will end.
WaitsForSomething ==
  /\ queue # <<>> => pending # NoTransfer
  /\ pending # NoTransfer => pending.asking \/ [tid |-> pending.tid, generation |-> generation] \in opening

\* The events on their way: the transfer under way, those behind it, and those
\* the frames carry.
Numbers(s) == [i \in DOMAIN s |-> s[i].n]
InFlight ==
  ({pending.tid} \ {0}) \union {queue[i].n : i \in DOMAIN queue}
    \union {down[i].n : i \in {j \in DOMAIN down : down[j].t = "event"}}

\* The receiver implements ordered delivery: a large event arrives in its place
\* in the stream, and nothing of an abandoned stream arrives later.
Delivery == INSTANCE OrderedDelivery WITH wire <- InFlight, got <- Numbers(got)
Ordered == Delivery!Spec

\* An event the client holds back is handed over or given up: no lost page,
\* expired transfer or dropped link wedges the stream.
Settles == \A n \in 1 .. MaxEvents :
  (n = pending.tid \/ \E i \in DOMAIN queue : queue[i].n = n)
    ~> (n # pending.tid /\ \A i \in DOMAIN queue : queue[i].n # n)
=============================================================================
