---------------------------- MODULE SessionStream ----------------------------
(***************************************************************************)
(* The live stream of one session: the node that sequences, coalesces and  *)
(* fans out agent events, the relay link, and the client store that puts   *)
(* them back in order and recovers what it missed from replays and from    *)
(* history snapshots.                                                      *)
(*                                                                         *)
(* Frames travel in order (the relay forwards per socket, a transfer holds *)
(* back what follows it), but whatever the node sends while its uplink is  *)
(* broken is dropped, and so is what a client asks.                        *)
(*                                                                         *)
(* Transcript content is abstracted to positions in log, the events ever   *)
(* fanned out.  A message_update or message_end carries the whole text of  *)
(* its message so far, so showing one shows its message from the start.  A *)
(* history snapshot holds the messages and turns that have ended, and      *)
(* nothing of the text of a message still being streamed.                  *)
(***************************************************************************)
EXTENDS EventRing, FiniteSets

CONSTANTS UpdateBytes,  \* size of a message_update, of the others 1
          MaxHeld,      \* the reassembler's cap on held events
          Closes,       \* idle sessions are closed (FALSE, TRUE)
          MaxLog,       \* bound on the events fanned out
          MaxBreaks,    \* bound on broken links, restarts and closes together
          MaxQueue      \* the node sends nothing while so many frames are in transit

ASSUME StreamAssumption ==
  /\ UpdateBytes \in Nat \ {0} /\ MaxHeld \in Nat \ {0}
  /\ Closes \in BOOLEAN
  /\ MaxLog \in Nat /\ MaxBreaks \in Nat /\ MaxQueue \in Nat

VARIABLES
  epoch,    \* sessionStreamEpoch, new at each start of the daemon
  ring,     \* the session's ring in the sequencer
  log,      \* history: every event fanned out, in order
  kept,     \* what the session's messages hold: the positions of ended messages and turns
  ended,    \* where the last message or turn ended: what follows is an open message
  made,     \* history: how many events the agent has produced
  pending,  \* the coalescer's pending update (its number), or 0
  turn,     \* sessionBusy: the agent is in a turn
  link,     \* the node's socket to the relay
  sock,     \* the client's socket to the relay is attached
  breaks,   \* breaks, restarts and closes so far
  down,     \* frames on their way to the client
  up,       \* requests on their way to the node
  c,        \* the client's store and reassembler
  unseen,   \* history: positions a client with a snapshot dropped as duplicates, never shown
  untold    \* history: what has happened that clients are told nothing of

nodeVars == <<epoch, ring, log, kept, ended, made, pending, turn>>
linkVars == <<link, sock, breaks, untold>>
clientVars == <<c, unseen>>
vars == <<epoch, ring, log, kept, ended, made, pending, turn, link, sock, breaks, down, up, c, unseen,
          untold>>

\* start stands for agent_start and for the message_start of a new message.
Kind == {"start", "message_update", "message_end", "agent_end"}
\* What closes a message or a turn, so that history holds it.
Ends == {"message_end", "agent_end"}
\* pos and from are history: where the event, and the message it carries, stand in log.
Event == [kind : Kind, pos : Nat, from : Nat, seq : Nat, epoch : Nat, bytes : Nat, made : Nat]

SizeOf(kind) == IF kind = "message_update" THEN UpdateBytes ELSE 1

-----------------------------------------------------------------------------
(* Frames and requests. *)

HistoryRequest(have) == [t |-> "history", have |-> have]
ReplayRequest(after) == [t |-> "replay", after |-> after]

\* sendEvent: a frame is dropped unless the uplink is open and a client attached.
Sent(frames) == IF link = "up" /\ sock THEN down \o frames ELSE down
\* A request reaches the node only while the relay has its socket.
Asked(requests) == IF link = "up" /\ sock THEN up \o requests ELSE up

-----------------------------------------------------------------------------
(* The node: coalescer, sequencer and fan-out. *)

\* stampSessionEvent and broadcast: stamp each event, retain it, send it; notice
\* goes out between the flushed update and the rest.
Stamped(events, before) ==
  [k \in DOMAIN events |->
     LET pos == Len(log) + before + k
     IN [events[k] EXCEPT !.seq = ring.head + before + k, !.pos = pos,
                          !.from = IF @ = 0 THEN pos ELSE @]]
Frames(events) == [k \in DOMAIN events |-> [t |-> "event", event |-> events[k]]]
\* The rings that retaining events, at most one, may leave.
Retained(r, events) == IF events = <<>> THEN {r} ELSE Stamp(r, events[1])
FanOut(flushed, notice, rest) ==
  LET first == Stamped(flushed, 0)
      last == Stamped(rest, Len(flushed))
  IN /\ \E r \in Retained(ring, first) : ring' \in Retained(r, last)
     /\ log' = log \o first \o last
     /\ down' = Sent(Frames(first) \o notice \o Frames(last))

\* broadcastSessionState, when the session starts or stops working.
StateNotice(busy) == IF busy = turn THEN <<>> ELSE <<[t |-> "state", busy |-> busy]>>

NewEvent(kind, number) ==
  [kind |-> kind, pos |-> 0, from |-> IF kind \in {"message_update", "message_end"} THEN ended + 1 ELSE 0,
   seq |-> 0, epoch |-> epoch, bytes |-> SizeOf(kind), made |-> number]
Flushed == IF pending = 0 THEN <<>> ELSE <<NewEvent("message_update", pending)>>

Room(n) == Len(log) + n <= MaxLog /\ Len(down) < MaxQueue

\* The listener, for a message_update: it supersedes the pending one.
AgentUpdate ==
  /\ turn /\ made < MaxLog /\ Len(log) + 2 <= MaxLog
  /\ made' = made + 1 /\ pending' = made + 1
  /\ UNCHANGED <<epoch, ring, log, kept, ended, turn, linkVars, down, up, clientVars>>

\* The coalescer's timer: emit the pending update.
CoalescerFires ==
  /\ pending # 0 /\ Room(1)
  /\ FanOut(Flushed, <<>>, <<>>) /\ pending' = 0
  /\ UNCHANGED <<epoch, kept, ended, made, turn, linkVars, up, clientVars>>

\* By the time a message's end is fanned out the message is among the session's
\* messages; the end of a turn abandons the text of a message left open.
Settle(kind) ==
  /\ kept' = CASE kind = "message_end" -> kept \union (ended + 1 .. Len(log'))
              [] kind = "agent_end" -> kept \union {Len(log')}
              [] OTHER -> kept
  /\ ended' = IF kind \in Ends THEN Len(log') ELSE ended

\* Mutant: another event is fanned out without flushing the pending update.
AgentEventUnflushed(kind) ==
  /\ kind \in {"start"} \union (IF turn THEN Ends ELSE {})
  /\ Room(Len(Flushed) + IF kind = "agent_end" THEN 1 ELSE 2)
  /\ made' = made + 1
  /\ turn' = (kind # "agent_end")
  /\ FanOut(<<>>, StateNotice(turn'), <<NewEvent(kind, made + 1)>>) /\ Settle(kind)
  /\ UNCHANGED <<epoch, pending, linkVars, up, clientVars>>

\* The listener, for any other event: flush the pending update, say that the
\* session works or no longer does, then fan the event out.
\* The bound leaves room for the turn to end.
AgentEvent(kind) ==
  /\ kind \in {"start"} \union (IF turn THEN Ends ELSE {})
  /\ Room(Len(Flushed) + IF kind = "agent_end" THEN 1 ELSE 2)
  /\ made' = made + 1
  /\ pending' = 0 /\ turn' = (kind # "agent_end")
  /\ FanOut(Flushed, StateNotice(turn'), <<NewEvent(kind, made + 1)>>) /\ Settle(kind)
  /\ UNCHANGED <<epoch, linkVars, up, clientVars>>

\* session.replay: the tail of the ring, or reset.
ServeReplay ==
  /\ up # <<>> /\ Head(up).t = "replay" /\ Room(0)
  /\ LET after == Head(up).after
         reset == Evicted(ring, after)
     IN down' = Sent(<<[t |-> "replay", reset |-> reset,
                        events |-> IF reset THEN <<>> ELSE ReplayTail(ring, after)]>>)
  /\ up' = Tail(up)
  /\ UNCHANGED <<nodeVars, linkVars, clientVars>>

\* The messages an ended one has made the session's: what its history counts.
Messages == Cardinality({p \in kept : log[p].kind = "message_end"})

\* history: the session's messages after the client's cursor, and the stream's
\* head, which is past the text of an open message.  len is history.
ServeHistory ==
  /\ up # <<>> /\ Head(up).t = "history" /\ Room(0)
  /\ down' = Sent(<<[t |-> "history", base |-> Head(up).have, count |-> Messages,
                     kept |-> kept, len |-> Len(log), head |-> ring.head, epoch |-> epoch, busy |-> turn]>>)
  /\ up' = Tail(up)
  /\ UNCHANGED <<nodeVars, linkVars, clientVars>>

\* closeSessionRecord of an idle session: flush, drop the ring, tell the clients.
Close ==
  /\ Closes /\ ~turn /\ log # <<>> /\ breaks < MaxBreaks /\ Room(1)
  /\ ring' = NoRing /\ pending' = 0
  /\ log' = log \o Stamped(Flushed, 0)
  /\ down' = Sent(Append(Frames(Stamped(Flushed, 0)), [t |-> "closed"]))
  /\ breaks' = breaks + 1 /\ untold' = untold \union {"new stream"}
  /\ UNCHANGED <<epoch, kept, ended, made, turn, link, sock, up, clientVars>>

\* detachSessionRecord keeps the ring.
Detach ==
  /\ Closes /\ ~turn /\ log # <<>> /\ breaks < MaxBreaks /\ Room(1)
  /\ FanOut(Flushed, <<[t |-> "closed"]>>, <<>>)
  /\ pending' = 0 /\ breaks' = breaks + 1
  /\ UNCHANGED <<epoch, kept, ended, made, turn, link, sock, up, clientVars, untold>>

\* The daemon restarts: a new epoch, the turn, the ring, the pending update and
\* the text of an open message are gone, and its socket with them.
Restart ==
  /\ breaks < MaxBreaks /\ link = "up"
  /\ epoch' = epoch + 1 /\ ring' = NoRing /\ pending' = 0 /\ turn' = FALSE
  /\ ended' = Len(log)
  /\ link' = "broken" /\ up' = <<>> /\ breaks' = breaks + 1
  /\ UNCHANGED <<log, kept, made, sock, down, clientVars, untold>>

-----------------------------------------------------------------------------
(* The links. *)

\* The node's socket to the relay dies: what is sent on it is lost.
UplinkBreaks ==
  /\ link = "up" /\ breaks < MaxBreaks
  /\ link' = "broken" /\ up' = <<>> /\ breaks' = breaks + 1
  /\ UNCHANGED <<nodeVars, sock, down, clientVars, untold>>

\* The relay sees the socket close and tells the client.
PeerOffline ==
  /\ link = "broken"
  /\ link' = "gone"
  /\ down' = IF sock THEN Append(down, [t |-> "offline"]) ELSE down
  /\ UNCHANGED <<nodeVars, sock, breaks, up, clientVars, untold>>

\* attachNode: the node redials and replaces its old socket, perhaps before the
\* relay noticed that it died.
Redial ==
  /\ link # "up"
  /\ link' = "up"
  /\ down' = IF sock THEN Append(down, [t |-> "online"]) ELSE down
  /\ untold' = IF link = "broken" THEN untold \union {"outage"} ELSE untold
  /\ UNCHANGED <<nodeVars, sock, breaks, up, clientVars>>

\* Mutant: the turn is still treated as live.
InterruptedKeepsTurn(s) == [s EXCEPT !.online = FALSE, !.deferred = {}]

\* markStreamInterrupted: the turn is no longer treated as live.
Interrupted(s) == [s EXCEPT !.online = FALSE, !.deferred = {}, !.fin = TRUE]

\* The client's own socket dies, with everything in transit.
ClientDrops ==
  /\ sock /\ breaks < MaxBreaks
  /\ sock' = FALSE /\ breaks' = breaks + 1
  /\ down' = <<>> /\ up' = <<>>
  /\ c' = Interrupted(c)
  /\ UNCHANGED <<nodeVars, link, unseen, untold>>

\* It reconnects and is admitted, which needs the node.
ClientReturns ==
  /\ ~sock /\ link = "up"
  /\ sock' = TRUE /\ down' = <<[t |-> "online"]>>
  /\ UNCHANGED <<nodeVars, link, breaks, up, clientVars, untold>>

-----------------------------------------------------------------------------
(* The client's store.  A step of the reducer takes and returns a record of *)
(* the store s, the requests out it makes and the positions it dropped.     *)

\* trackSeqStream: a new epoch starts a new stream.
Tracked(s, ep) ==
  IF s.epoch = ep THEN s ELSE [s EXCEPT !.epoch = ep, !.next = 0, !.held = {}, !.synced = FALSE]

\* baseline: the cursor moves past head; forward only.
Baselined(s, head) ==
  LET next == IF head + 1 > s.next THEN head + 1 ELSE s.next
  IN [s EXCEPT !.next = next, !.held = {e \in @ : e.seq >= next}]

\* applyHistory: replace the transcript and baseline the reassembler.  A delta on
\* a base the store no longer has is discarded and the whole history asked for.
\* bare is history: what had been fanned out and the snapshot did not hold.
ApplyHistory(st, f) ==
  IF f.base # 0 /\ f.base # st.s.have
  THEN [st EXCEPT !.s.have = 0, !.out = Append(@, HistoryRequest(0))]
  ELSE LET s1 == Baselined(Tracked(st.s, f.epoch), f.head)
       IN [st EXCEPT !.s = [s1 EXCEPT !.shown = f.kept, !.bare = (1 .. f.len) \ f.kept,
                                      !.have = f.count, !.fin = TRUE, !.working = f.busy, !.deferred = {},
                                      !.opening = FALSE, !.synced = TRUE]]

\* Mutant: the buffered snapshot is applied, not asked for again.
DrainBuffered(st) ==
  FoldLeft(ApplyHistory, [st EXCEPT !.s.deferred = {}], SetToSeq(st.s.deferred))

\* drainDeferredHistory: the buffered snapshot predates the end of the turn, so a
\* fresh one is asked for.
DrainDeferredHistory(st) ==
  [st EXCEPT !.s.deferred = {},
             !.out = IF st.s.deferred = {} THEN @ ELSE Append(@, HistoryRequest(st.s.have))]

\* foldTranscriptEvent: show the event, with its message so far; the end of a turn settles it.
Apply(st0, e) ==
  LET st == [st0 EXCEPT
               !.s.shown = @ \union (e.from .. e.pos),
               !.s.working = CASE e.kind = "agent_end" -> FALSE [] e.kind = "message_end" -> @
                               [] OTHER -> TRUE,
               !.s.fin = CASE e.kind = "start" -> FALSE [] e.kind = "message_end" -> TRUE [] OTHER -> @]
  IN IF e.kind = "agent_end" THEN DrainDeferredHistory(st) ELSE st

\* The next event is shown and the cursor moves past it.
Deliver(st, e) == Apply([st EXCEPT !.s.next = e.seq + 1], e)

\* The held event the cursor has come to, if there is one, is taken out and shown.
NextHeld(s) == {h \in s.held : h.seq = s.next}
DeliverHeld(st) ==
  IF NextHeld(st.s) = {} THEN st
  ELSE LET h == CHOOSE h \in NextHeld(st.s) : TRUE
       IN Deliver([st EXCEPT !.s.held = @ \ {h}], h)

\* accept, for the next event in order: show it and drain what it releases.  Each
\* round takes one held event, so there are at most as many as are held.
InOrder(st, e) ==
  LET first == Deliver(st, e)
      drained[k \in 0 .. Cardinality(first.s.held)] ==
        IF k = 0 THEN first ELSE DeliverHeld(drained[k - 1])
  IN drained[Cardinality(first.s.held)]

\* accept, for an event already passed: drop it.
Duplicate(st, e) ==
  [st EXCEPT !.lost = @ \union (IF st.s.synced THEN {e.pos} \ st.s.shown ELSE {})]

\* Mutant: off by one in the seq the replay is asked after.
BeyondGapOffByOne(st, e) ==
  [st EXCEPT !.s.held = @ \union {e}, !.out = Append(@, ReplayRequest(st.s.next - 2))]

\* Mutant: the gap is asked for only when it opens.
BeyondGapAsksOnce(st, e) ==
  [st EXCEPT !.s.held = @ \union {e},
             !.out = IF st.s.held = {} THEN Append(@, ReplayRequest(st.s.next - 1)) ELSE @]

\* accept, for an event beyond a gap: hold it and ask for the gap, or for
\* history when too many are held.
BeyondGap(st, e) ==
  LET held == {h \in st.s.held : h.seq # e.seq} \union {e}
      request == IF Cardinality(held) > MaxHeld THEN HistoryRequest(st.s.have)
                 ELSE ReplayRequest(st.s.next - 1)
  IN [st EXCEPT !.s.held = held, !.out = Append(@, request)]

\* Mutant: a gap is skipped instead of being held.
AcceptSkipsGap(st0, e) ==
  LET st == [st0 EXCEPT !.s = Tracked(@, e.epoch)]
  IN IF st.s.next # 0 /\ e.seq < st.s.next THEN Duplicate(st, e) ELSE InOrder(st, e)

\* Mutant: duplicates are recognised one seq too late.
AcceptOffByOne(st0, e) ==
  LET st == [st0 EXCEPT !.s = Tracked(@, e.epoch)]
  IN IF st.s.next = 0 THEN InOrder(st, e)
     ELSE IF e.seq <= st.s.next THEN Duplicate(st, e) ELSE BeyondGap(st, e)

\* session.event: track the stream, then accept.  The first event of a stream
\* nothing is known of starts it.
Accept(st0, e) ==
  LET st == [st0 EXCEPT !.s = Tracked(@, e.epoch)]
  IN IF st.s.next \in {0, e.seq} THEN InOrder(st, e)
     ELSE IF e.seq < st.s.next THEN Duplicate(st, e) ELSE BeyondGap(st, e)

\* session.replay: the replayed events are accepted one after the other.
AcceptAll(st, events) ==
  LET accepted[k \in 0 .. Len(events)] ==
        IF k = 0 THEN st ELSE Accept(accepted[k - 1], events[k])
  IN accepted[Len(events)]

\* session.history: deferred while a turn streams into the view, except the
\* first one after opening.
ReceiveHistory(st, f) ==
  IF st.s.working /\ ~st.s.fin /\ ~st.s.opening
  THEN [st EXCEPT !.s.deferred = {f}]
  ELSE ApplyHistory(st, f)

Reduce(st, f) ==
  CASE f.t = "event" -> Accept(st, f.event)
    [] f.t = "replay" /\ f.reset -> [st EXCEPT !.out = Append(@, HistoryRequest(st.s.have))]
    [] f.t = "replay" /\ ~f.reset -> AcceptAll(st, f.events)
    [] f.t = "history" -> ReceiveHistory(st, f)
    [] f.t = "state" -> [st EXCEPT !.s.working = f.busy]
    [] f.t = "closed" -> [st EXCEPT !.s.working = FALSE]
    [] f.t = "offline" -> [st EXCEPT !.s = Interrupted(@)]
    [] f.t = "online" -> IF st.s.online THEN st
                         ELSE [st EXCEPT !.s.online = TRUE, !.out = Append(@, HistoryRequest(st.s.have))]

Receive ==
  /\ down # <<>>
  /\ LET st == Reduce([s |-> c, out |-> <<>>, lost |-> unseen], Head(down))
     IN /\ c' = st.s /\ unseen' = st.lost
        /\ up' = Asked(st.out)
  /\ down' = Tail(down)
  /\ UNCHANGED <<nodeVars, linkVars>>

-----------------------------------------------------------------------------
\* The client has just opened the session of a running node.
Init ==
  /\ epoch = 1 /\ ring = NoRing /\ log = <<>> /\ kept = {} /\ ended = 0
  /\ made = 0 /\ pending = 0 /\ turn = FALSE
  /\ link = "up" /\ sock = TRUE /\ breaks = 0
  /\ down = <<>> /\ up = <<HistoryRequest(0)>>
  /\ c = [epoch |-> 0, next |-> 0, held |-> {}, shown |-> {}, bare |-> {}, have |-> 0, working |-> FALSE,
          fin |-> TRUE, deferred |-> {}, opening |-> TRUE, online |-> TRUE, synced |-> FALSE]
  /\ unseen = {} /\ untold = {}

Next ==
  \/ AgentUpdate \/ CoalescerFires \/ \E kind \in Kind : AgentEvent(kind)
  \/ ServeReplay \/ ServeHistory \/ Close \/ Detach \/ Restart
  \/ UplinkBreaks \/ PeerOffline \/ Redial \/ ClientDrops \/ ClientReturns
  \/ Receive

Spec == Init /\ [][Next]_vars

\* The daemon answers, timers fire, a turn ends, sockets are redialled and read.
Fairness ==
  /\ WF_vars(CoalescerFires) /\ WF_vars(ServeReplay) /\ WF_vars(ServeHistory)
  /\ WF_vars(PeerOffline) /\ WF_vars(Redial) /\ WF_vars(ClientReturns)
  /\ WF_vars(Receive) /\ WF_vars(AgentEvent("agent_end"))

FairSpec == Spec /\ Fairness

-----------------------------------------------------------------------------
(* Properties. *)

Frame ==
  [t : {"event"}, event : Event]
  \union [t : {"replay"}, reset : BOOLEAN, events : Seq(Event)]
  \union [t : {"history"}, base : Nat, count : Nat, kept : SUBSET Nat, len : Nat, head : Nat,
          epoch : Nat, busy : BOOLEAN]
  \union [t : {"state"}, busy : BOOLEAN] \union [t : {"closed", "offline", "online"}]
UpRequest == [t : {"history"}, have : Nat] \union [t : {"replay"}, after : Nat]
Store == [epoch : Nat, next : Nat, held : SUBSET Event, shown : SUBSET Nat, bare : SUBSET Nat,
          have : Nat, working : BOOLEAN, fin : BOOLEAN, deferred : SUBSET Frame,
          opening : BOOLEAN, online : BOOLEAN, synced : BOOLEAN]

\* The shape of every variable.
TypeOK ==
  /\ epoch \in Nat /\ ring.head \in Nat /\ ring.entries \in Seq(Event)
  /\ log \in Seq(Event) /\ kept \in SUBSET Nat /\ ended \in Nat
  /\ made \in Nat /\ pending \in Nat /\ turn \in BOOLEAN
  /\ link \in {"up", "broken", "gone"} /\ sock \in BOOLEAN /\ breaks \in Nat
  /\ down \in Seq(Frame) /\ up \in Seq(UpRequest)
  /\ c \in Store /\ unseen \in SUBSET Nat
  /\ untold \in SUBSET {"outage", "new stream"}

\* The ring holds, without a hole and up to head, the last events fanned out:
\* what lets a replay fill any gap it does not answer with reset.
RingContiguous ==
  LET n == Len(ring.entries)
  IN /\ ring.head > 0 => n > 0
     /\ \A k \in 1 .. n : /\ ring.entries[k].seq = ring.head - n + k
                          /\ ring.entries[k] = log[Len(log) - n + k]

\* A replay is complete: unless it is a reset, it holds every event the client
\* said it misses, each in its place.
ReplayComplete ==
  \A after \in 0 .. ring.head : ~Evicted(ring, after) =>
    LET tail == ReplayTail(ring, after)
    IN Len(tail) = ring.head - after /\ \A k \in 1 .. Len(tail) : tail[k].seq = after + k

\* Streamed text is never overtaken: events are fanned out in the order the
\* agent produced them, whatever the coalescer holds back.
FanOutOrdered == \A p, q \in DOMAIN log : p < q => log[p].made < log[q].made

Passed(p) == log[p].epoch = c.epoch /\ log[p].seq < c.next

\* Once it has a snapshot, the client shows every event before its cursor, unless
\* the snapshot was taken while the event's message was streamed: no loss, replay,
\* snapshot, reconnection or restart makes it step over an ended message, an ended
\* turn or anything after the snapshot.  (A close that restarts seq does: see
\* NoFreshDiscard.)
CursorExact ==
  c.synced /\ "new stream" \notin untold =>
    \A p \in DOMAIN log : Passed(p) =>
      p \in c.shown \/ (p \in c.bare /\ log[p].kind \notin Ends)

\* An end of a message or of a turn that a client with a snapshot of the stream
\* drops as a duplicate has been shown.
NoFreshDiscard == \A p \in unseen : log[p].kind \notin Ends

\* The same, unless a close restarted seq under the same epoch.
StreamNoFreshDiscard == "new stream" \notin untold => NoFreshDiscard

\* An ended message or turn on display is never taken back, in whole or in part: a
\* snapshot that replaces the transcript, however late it is applied, holds it too.
NothingErased ==
  [][\A p \in c.shown : log[p].kind \in Ends => log[p].from .. p \subseteq c'.shown]_vars

\* The agent comes to rest within MaxLog events; however often links broke or the
\* daemon restarted, the client then comes to show every ended message and turn.
CaughtUp == []<>(kept \subseteq c.shown)

\* The same, unless the node redialled before the relay noticed the outage.
ToldCaughtUp == []<>("outage" \in untold \/ kept \subseteq c.shown)

\* A gap that the client noticed is closed: what it holds behind one is shown in
\* the end.
GapHealed == []<>(c.held = {})
=============================================================================
