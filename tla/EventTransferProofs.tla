------------------------- MODULE EventTransferProofs -------------------------
(***************************************************************************)
(* Large events arrive in their place in the stream: the receiver          *)
(* implements OrderedDelivery, for any number of pages, retries, stored    *)
(* offers and queued events.  The inductive invariant says where in the    *)
(* stream each part of the state stands: what the client dealt with comes  *)
(* before the transfer it pulls, that before the queue, the queue before   *)
(* the frames on their way, and those before the next event.               *)
(***************************************************************************)
EXTENDS EventTransfer, TLAPS, SequenceTheorems, FiniteSetTheorems

Event == [t : {"event"}, n : 1 .. MaxEvents, kind : {"small", "large", "foreign", "notice"}]
Page == [t : {"part"}, n : Nat, page : Nat, try : Nat, found : BOOLEAN]
Frame == Event \union Page
Ask == [n : 1 .. MaxEvents, page : 0 .. Pages - 1, try : Nat]
Dealt == [n : 1 .. MaxEvents, how : {"small", "large", "foreign", "notice"}]
Transfer == [tid : 0 .. MaxEvents, pages : Seq(Nat), asking : BOOLEAN, retries : 0 .. Retries]

Shape ==
  /\ next \in 1 .. MaxEvents + 1 /\ entries \subseteq 1 .. next - 1
  /\ down \in Seq(Frame) /\ Len(down) <= MaxFrames
  /\ up \in Seq(Ask)
  /\ pending \in Transfer
  /\ queue \in Seq(Event) /\ Len(queue) <= MaxQueue
  /\ got \in Seq(Dealt)
  /\ generation \in Nat /\ opening \subseteq [tid : 1 .. MaxEvents, generation : Nat]
  /\ link \in {"open", "closing", "closed"} /\ redials \in 0 .. MaxRedials

\* A transfer under way has an event, and a page to ask for while it asks.
Pulls ==
  /\ pending.tid = 0 => pending = NoTransfer
  /\ pending.asking => Len(pending.pages) < Pages

\* Event numbers rise along a sequence, and from one sequence to the next.
IsEvent(f) == f.t = "event"
Rising(s) == \A i, j \in 1 .. Len(s) : i < j => s[i].n < s[j].n
RisingEvents(d) == \A i, j \in 1 .. Len(d) : i < j /\ IsEvent(d[i]) /\ IsEvent(d[j]) => d[i].n < d[j].n
Below(s, q) == \A i \in 1 .. Len(s), j \in 1 .. Len(q) : s[i].n < q[j].n
BelowEvents(s, d) == \A i \in 1 .. Len(s), j \in 1 .. Len(d) : IsEvent(d[j]) => s[i].n < d[j].n
BelowNext(s) == \A i \in 1 .. Len(s) : s[i].n < next

\* Where the pulled transfer stands.
TransferPlaced ==
  pending.tid # 0 =>
    /\ \A i \in 1 .. Len(got) : got[i].n < pending.tid
    /\ \A i \in 1 .. Len(queue) : pending.tid < queue[i].n
    /\ \A i \in 1 .. Len(down) : IsEvent(down[i]) => pending.tid < down[i].n
    /\ pending.tid < next

Order ==
  /\ Rising(got) /\ Rising(queue) /\ RisingEvents(down)
  /\ Below(got, queue) /\ BelowEvents(got, down) /\ BelowEvents(queue, down)
  /\ BelowNext(got) /\ BelowNext(queue)
  /\ \A i \in 1 .. Len(down) : IsEvent(down[i]) => down[i].n < next
  /\ TransferPlaced

IInv == Shape /\ Pulls /\ Order /\ PagesInOrder /\ StoreBounded /\ WaitsForSomething

-----------------------------------------------------------------------------
(* What the operators of the model preserve. *)

\* Handing events over to the next offer (drain, deliver) keeps the stream in
\* order, and deals with events of the queue only.
LEMMA DrainedEffect ==
  ASSUME NEW q \in Seq(Event), NEW sofar \in Seq(Dealt), up \in Seq(Ask),
         Rising(q), Rising(sofar), Below(sofar, q), Drained(q, sofar)
  PROVE  /\ got' \in Seq(Dealt) /\ Rising(got')
         /\ Len(sofar) <= Len(got') /\ \A i \in 1 .. Len(sofar) : got'[i] = sofar[i]
         /\ \A i \in Len(sofar) + 1 .. Len(got') : \E j \in 1 .. Len(q) : got'[i].n = q[j].n
         /\ queue' \in Seq(Event) /\ Rising(queue') /\ Len(queue') <= Len(q)
         /\ \A i \in 1 .. Len(queue') : \E j \in 1 .. Len(q) : queue'[i] = q[j]
         /\ Below(got', queue')
         /\ pending' \in Transfer /\ up' \in Seq(Ask)
         /\ pending' = NoTransfer => queue' = <<>>
         /\ pending'.tid = 0 => pending' = NoTransfer
         /\ pending'.pages = <<>>
         /\ pending' # NoTransfer => pending'.asking
         /\ pending'.tid # 0 =>
              /\ \E j \in 1 .. Len(q) : pending'.tid = q[j].n
              /\ \A i \in 1 .. Len(got') : got'[i].n < pending'.tid
              /\ \A i \in 1 .. Len(queue') : pending'.tid < queue'[i].n
  <1>1. PICK k \in 1 .. Len(q) + 1 :
          /\ got' = sofar \o [i \in 1 .. k - 1 |-> [n |-> q[i].n, how |-> q[i].kind]]
          /\ pending' = IF k <= Len(q) THEN Begin(q[k].n) ELSE NoTransfer
          /\ queue' = SubSeq(q, k + 1, Len(q))
          /\ up' = IF k <= Len(q) THEN Append(up, Request(Begin(q[k].n))) ELSE up
    BY DEF Drained
  <1> DEFINE h == [i \in 1 .. k - 1 |-> [n |-> q[i].n, how |-> q[i].kind]]
  <1>q. Len(q) \in Nat /\ k \in Nat /\ k >= 1 /\ \A i \in 1 .. Len(q) : q[i] \in Event
    BY LenProperties, ElementOfSeq
  <1>h. h \in Seq(Dealt) /\ Len(h) = k - 1 /\ \A i \in 1 .. k - 1 : h[i].n = q[i].n
    <2>1. \A i \in 1 .. k - 1 : i \in 1 .. Len(q) /\ [n |-> q[i].n, how |-> q[i].kind] \in Dealt
      BY <1>q DEF Event, Dealt
    <2>2. k - 1 \in Nat  BY <1>q
    <2>3. h \in [1 .. k - 1 -> Dealt]  BY <2>1
    <2>4. h \in Seq(Dealt)  BY <2>2, <2>3, IsASeq
    <2>5. DOMAIN h = 1 .. k - 1 /\ DOMAIN h = 1 .. Len(h) /\ Len(h) \in Nat  BY <2>3, <2>4, LenProperties
    <2>6. Len(h) = k - 1  BY <2>5, <2>2
    <2> QED  BY <2>4, <2>6
  <1>g. got' = sofar \o h  BY <1>1
  <1> HIDE DEF h
  <1>2. /\ got' \in Seq(Dealt) /\ Len(got') = Len(sofar) + (k - 1)
        /\ \A i \in 1 .. Len(sofar) : got'[i] = sofar[i]
        /\ \A i \in Len(sofar) + 1 .. Len(got') : got'[i].n = q[i - Len(sofar)].n
    <2>1. Len(sofar) \in Nat  BY LenProperties
    <2>2. /\ got' \in Seq(Dealt) /\ Len(got') = Len(sofar) + Len(h)
          /\ \A i \in 1 .. Len(sofar) + Len(h) :
               got'[i] = IF i <= Len(sofar) THEN sofar[i] ELSE h[i - Len(sofar)]
      BY <1>g, <1>h, ConcatProperties
    <2>3. ASSUME NEW i \in Len(sofar) + 1 .. Len(got')  PROVE got'[i].n = q[i - Len(sofar)].n
      <3>1. i \in 1 .. Len(sofar) + Len(h) /\ ~(i <= Len(sofar)) /\ i - Len(sofar) \in 1 .. k - 1
        BY <2>1, <2>2, <1>h, <1>q
      <3>2. got'[i] = h[i - Len(sofar)]  BY <2>2, <3>1
      <3> QED  BY <3>1, <3>2, <1>h
    <2>4. ASSUME NEW i \in 1 .. Len(sofar)  PROVE got'[i] = sofar[i]
      <3>1. i \in 1 .. Len(sofar) + Len(h) /\ i <= Len(sofar)  BY <2>1, <1>h, <1>q
      <3> QED  BY <2>2, <3>1
    <2> QED  BY <2>2, <2>3, <2>4, <1>h
  <1>s. Len(sofar) \in Nat  BY LenProperties
  <1>3. \A i \in Len(sofar) + 1 .. Len(got') : i - Len(sofar) \in 1 .. k - 1 /\ i - Len(sofar) \in 1 .. Len(q)
    BY <1>2, <1>q, <1>s
  <1>4. Rising(got')
    <2> SUFFICES ASSUME NEW i \in 1 .. Len(got'), NEW j \in 1 .. Len(got'), i < j
                 PROVE  got'[i].n < got'[j].n
      BY DEF Rising
    <2>1. CASE j <= Len(sofar)
      <3>1. i \in 1 .. Len(sofar) /\ j \in 1 .. Len(sofar)  BY <2>1, <1>s
      <3> QED  BY <3>1, <1>2 DEF Rising
    <2>2. CASE i <= Len(sofar) /\ Len(sofar) < j
      <3>1. i \in 1 .. Len(sofar) /\ j \in Len(sofar) + 1 .. Len(got')  BY <2>2, <1>s, <1>2, <1>q
      <3> QED  BY <3>1, <1>2, <1>3 DEF Below
    <2>3. CASE Len(sofar) < i
      <3>1. i \in Len(sofar) + 1 .. Len(got') /\ j \in Len(sofar) + 1 .. Len(got')
            /\ i - Len(sofar) < j - Len(sofar)
        BY <2>3, <1>s, <1>2, <1>q
      <3> QED  BY <3>1, <1>2, <1>3 DEF Rising
    <2> QED  BY <2>1, <2>2, <2>3, <1>s, <1>2, <1>q
  <1>5. /\ queue' \in Seq(Event)
        /\ Len(queue') = IF k + 1 <= Len(q) THEN Len(q) - k ELSE 0
        /\ \A i \in 1 .. Len(q) - k : queue'[i] = q[k + i]
    <2>1. \A i \in k + 1 .. Len(q) : q[i] \in Event  BY <1>q
    <2>2. /\ SubSeq(q, k + 1, Len(q)) \in Seq(Event)
          /\ Len(SubSeq(q, k + 1, Len(q))) = IF k + 1 <= Len(q) THEN Len(q) - (k + 1) + 1 ELSE 0
          /\ \A i \in 1 .. Len(q) - (k + 1) + 1 : SubSeq(q, k + 1, Len(q))[i] = q[(k + 1) + i - 1]
      BY <2>1, <1>q, SubSeqProperties
    <2>3. queue' = SubSeq(q, k + 1, Len(q))  BY <1>1
    <2>4. Len(q) - (k + 1) + 1 = Len(q) - k /\ \A i \in 1 .. Len(q) - k : (k + 1) + i - 1 = k + i
      BY <1>q
    <2>5. Len(queue') = IF k + 1 <= Len(q) THEN Len(q) - k ELSE 0  BY <2>2, <2>3, <2>4
    <2>6. \A i \in 1 .. Len(q) - k : queue'[i] = q[k + i]  BY <2>2, <2>3, <2>4
    <2> QED  BY <2>2, <2>3, <2>5, <2>6
  <1>6. \A i \in 1 .. Len(queue') : k + i \in 1 .. Len(q) /\ queue'[i] = q[k + i]
    BY <1>5, <1>q
  <1>7. Rising(queue')
    <2> SUFFICES ASSUME NEW i \in 1 .. Len(queue'), NEW j \in 1 .. Len(queue'), i < j
                 PROVE  queue'[i].n < queue'[j].n
      BY DEF Rising
    <2>1. k + i < k + j  BY <1>5, <1>q
    <2> QED  BY <2>1, <1>6 DEF Rising
  <1>8. Below(got', queue')
    <2> SUFFICES ASSUME NEW i \in 1 .. Len(got'), NEW j \in 1 .. Len(queue')
                 PROVE  got'[i].n < queue'[j].n
      BY DEF Below
    <2>1. CASE i <= Len(sofar)
      <3>1. i \in 1 .. Len(sofar)  BY <2>1, <1>s
      <3> QED  BY <3>1, <1>2, <1>6 DEF Below
    <2>2. CASE Len(sofar) < i
      <3>1. i \in Len(sofar) + 1 .. Len(got') /\ i - Len(sofar) < k + j
        BY <2>2, <1>s, <1>2, <1>q, <1>5
      <3> QED  BY <3>1, <1>2, <1>3, <1>6 DEF Rising
    <2> QED  BY <2>1, <2>2, <1>s, <1>2, <1>q
  <1>8a. /\ Len(sofar) <= Len(got') /\ Len(queue') <= Len(q)
         /\ \A i \in Len(sofar) + 1 .. Len(got') : \E j \in 1 .. Len(q) : got'[i].n = q[j].n
         /\ \A i \in 1 .. Len(queue') : \E j \in 1 .. Len(q) : queue'[i] = q[j]
    <2>1. Len(sofar) <= Len(got') /\ Len(queue') <= Len(q)  BY <1>2, <1>5, <1>q, <1>s
    <2>2. \A i \in Len(sofar) + 1 .. Len(got') : \E j \in 1 .. Len(q) : got'[i].n = q[j].n
      BY <1>2, <1>3
    <2>3. \A i \in 1 .. Len(queue') : \E j \in 1 .. Len(q) : queue'[i] = q[j]  BY <1>6
    <2> QED  BY <2>1, <2>2, <2>3
  <1>9. CASE k <= Len(q)
    <2>1. k \in 1 .. Len(q) /\ q[k] \in Event  BY <1>9, <1>q
    <2>2. q[k].n \in 1 .. MaxEvents  BY <2>1 DEF Event
    <2>3. pending' = Begin(q[k].n)  BY <1>1, <1>9
    <2>4. /\ pending'.tid = q[k].n /\ pending'.pages = <<>> /\ pending'.asking
          /\ pending' # NoTransfer /\ pending' \in Transfer
      BY <2>2, <2>3, TransferBounds, EmptySeq DEF Begin, NoTransfer, Transfer
    <2>5. Request(Begin(q[k].n)) \in Ask
      BY <2>2, TransferBounds, EmptySeq DEF Request, Begin, Ask
    <2>6. up' \in Seq(Ask)  BY <2>5, <1>1, <1>9, AppendProperties
    <2>7. ASSUME NEW i \in 1 .. Len(got')  PROVE got'[i].n < q[k].n
      <3>1. CASE i <= Len(sofar)
        <4>1. i \in 1 .. Len(sofar)  BY <3>1, <1>s
        <4> QED  BY <4>1, <1>2, <2>1 DEF Below
      <3>2. CASE Len(sofar) < i
        <4>1. i \in Len(sofar) + 1 .. Len(got') /\ i - Len(sofar) < k  BY <3>2, <1>s, <1>2, <1>q
        <4> QED  BY <4>1, <1>2, <1>3, <2>1 DEF Rising
      <3> QED  BY <3>1, <3>2, <1>s, <1>2, <1>q
    <2>8. ASSUME NEW i \in 1 .. Len(queue')  PROVE q[k].n < queue'[i].n
      <3>1. k < k + i  BY <1>q, <1>5
      <3> QED  BY <3>1, <1>6, <2>1 DEF Rising
    <2> QED  BY <1>2, <1>4, <1>5, <1>7, <1>8, <2>1, <2>2, <2>4, <2>6, <2>7, <2>8, <1>8a
  <1>10. CASE ~(k <= Len(q))
    <2>1. pending' = NoTransfer /\ up' = up  BY <1>1, <1>10
    <2>2. NoTransfer \in Transfer /\ NoTransfer.tid = 0 /\ NoTransfer.pages = <<>>
      BY TransferBounds, EmptySeq DEF NoTransfer, Transfer
    <2>3. queue' = <<>>  BY <1>5, <1>10, <1>q, EmptySeq
    <2> QED  BY <1>2, <1>4, <1>5, <1>7, <1>8, <2>1, <2>2, <2>3, <1>8a
  <1> QED  BY <1>9, <1>10

\* Frames that are not events do not carry one.
LEMMA FrameKinds ==
  /\ \A f \in Frame : IsEvent(f) => f \in Event
  /\ \A f \in Event : IsEvent(f) /\ f.n \in 1 .. MaxEvents
  /\ \A f \in Page : ~IsEvent(f)
  BY DEF Frame, Event, Page, IsEvent

\* A frame of the machine joins the end of what is on its way, or is lost.
LEMMA DownwardEffect ==
  ASSUME down \in Seq(Frame), Len(down) < MaxFrames, NEW f \in Frame, down' = Downward(f)
  PROVE  /\ down' \in Seq(Frame) /\ Len(down') <= MaxFrames
         /\ \/ down' = down
            \/ /\ Len(down') = Len(down) + 1 /\ down'[Len(down) + 1] = f
               /\ \A i \in 1 .. Len(down) : down'[i] = down[i]
  <1>1. Len(down) \in Nat  BY LenProperties
  <1>2. CASE link = "open"
    <2>1. down' = Append(down, f)  BY <1>2 DEF Downward
    <2>2. /\ Append(down, f) \in Seq(Frame) /\ Len(Append(down, f)) = Len(down) + 1
          /\ \A i \in 1 .. Len(down) : Append(down, f)[i] = down[i]
          /\ Append(down, f)[Len(down) + 1] = f
      BY AppendProperties
    <2> QED  BY <2>1, <2>2, <1>1, TransferBounds
  <1>3. CASE link # "open"
    BY <1>1, <1>3, TransferBounds DEF Downward
  <1> QED  BY <1>2, <1>3

\* The client reads the frame that was sent first.
LEMMA TailEffect ==
  ASSUME down \in Seq(Frame), down # <<>>
  PROVE  /\ Head(down) = down[1] /\ down[1] \in Frame /\ Len(down) \in Nat /\ 1 <= Len(down)
         /\ Tail(down) \in Seq(Frame) /\ Len(Tail(down)) = Len(down) - 1
         /\ \A i \in 1 .. Len(Tail(down)) : Tail(down)[i] = down[i + 1]
  <1>1. Len(down) \in Nat /\ Len(down) # 0  BY LenProperties, EmptySeq
  <1>2. Head(down) = down[1]  BY <1>1
  <1> QED  BY <1>1, <1>2, HeadTailProperties

\* Losing the first or the last frames keeps the order of the rest.
LEMMA OrderDrawn ==
  ASSUME Shape, Order, UNCHANGED <<next, queue, got>>, pending'.tid = pending.tid,
         NEW o \in Nat, down' \in Seq(Frame), Len(down') + o <= Len(down),
         \A i \in 1 .. Len(down') : down'[i] = down[i + o]
  PROVE  Order'
  <1>1. Len(down) \in Nat /\ Len(down') \in Nat  BY LenProperties DEF Shape
  <1>2. \A i \in 1 .. Len(down') : i + o \in 1 .. Len(down)  BY <1>1
  <1>3. RisingEvents(down')
    <2> SUFFICES ASSUME NEW i \in 1 .. Len(down'), NEW j \in 1 .. Len(down'), i < j,
                        IsEvent(down'[i]), IsEvent(down'[j])
                 PROVE  down'[i].n < down'[j].n
      BY DEF RisingEvents
    <2>1. i + o < j + o  BY <1>1
    <2> QED  BY <2>1, <1>2 DEF Order, RisingEvents
  <1>4. BelowEvents(got', down') /\ BelowEvents(queue', down')
    BY <1>2 DEF Order, BelowEvents
  <1>5. \A i \in 1 .. Len(down') : IsEvent(down'[i]) => down'[i].n < next'
    BY <1>2 DEF Order
  <1>6. TransferPlaced'  BY <1>2 DEF Order, TransferPlaced
  <1> QED  BY <1>3, <1>4, <1>5, <1>6 DEF Order, Rising, Below, BelowNext

\* A page joins the frames on their way without an event.
LEMMA OrderPage ==
  ASSUME Shape, Order, UNCHANGED <<next, pending, queue, got>>,
         Len(down) < MaxFrames, NEW f \in Page, down' = Downward(f)
  PROVE  Order'
  <1>1. f \in Frame /\ ~IsEvent(f)  BY FrameKinds DEF Frame
  <1>2. /\ down' \in Seq(Frame)
        /\ \/ down' = down
           \/ /\ Len(down') = Len(down) + 1 /\ down'[Len(down) + 1] = f
              /\ \A i \in 1 .. Len(down) : down'[i] = down[i]
    BY <1>1, DownwardEffect DEF Shape
  <1>3. Len(down) \in Nat  BY LenProperties DEF Shape
  <1>4. CASE down' = down
    BY <1>4 DEF Order, Rising, RisingEvents, Below, BelowEvents, BelowNext, TransferPlaced
  <1>5. CASE down' # down
    <2>1. \A i \in 1 .. Len(down') : IsEvent(down'[i]) => i \in 1 .. Len(down) /\ down'[i] = down[i]
      BY <1>1, <1>2, <1>3, <1>5
    <2>2. RisingEvents(down') /\ BelowEvents(got', down') /\ BelowEvents(queue', down')
      BY <2>1 DEF Order, RisingEvents, BelowEvents
    <2>3. \A i \in 1 .. Len(down') : IsEvent(down'[i]) => down'[i].n < next'
      BY <2>1 DEF Order
    <2>4. TransferPlaced'  BY <2>1 DEF Order, TransferPlaced
    <2> QED  BY <2>2, <2>3, <2>4 DEF Order, Rising, Below, BelowNext
  <1> QED  BY <1>4, <1>5

\* Giving up the stream leaves nothing behind what the client dealt with.
LEMMA OrderReset ==
  ASSUME Shape, Order, next' = next, down' = <<>>, queue' = <<>>, pending' = NoTransfer, got' = got
  PROVE  Order'
  BY DEF Order, Rising, RisingEvents, Below, BelowEvents, BelowNext, TransferPlaced, NoTransfer

\* An error in the place of the transfer given up (fail).
LEMMA OrderFail ==
  ASSUME IInv, Fail, pending.asking, next' = next
  PROVE  Order' /\ got' \in Seq(Dealt) /\ Len(got') = Len(got) + 1
         /\ (\A i \in 1 .. Len(got) : got'[i] = got[i])
         /\ got'[Len(got) + 1].n = pending.tid /\ pending.tid # 0
  <1>1. pending.tid # 0 /\ pending.tid \in 1 .. MaxEvents
    BY DEF IInv, Shape, Pulls, NoTransfer, Transfer
  <1> DEFINE e == [n |-> pending.tid, how |-> "notice"]
  <1>2. e \in Dealt /\ e.n = pending.tid  BY <1>1 DEF Dealt
  <1>3. got' = Append(got, e) /\ got \in Seq(Dealt)  BY DEF Fail, IInv, Shape
  <1> HIDE DEF e
  <1>4. /\ got' \in Seq(Dealt) /\ Len(got') = Len(got) + 1 /\ got'[Len(got) + 1] = e
        /\ \A i \in 1 .. Len(got) : got'[i] = got[i]
    BY <1>2, <1>3, AppendProperties
  <1>5. Len(got) \in Nat  BY <1>3, LenProperties
  <1>6. TransferPlaced /\ Rising(got) /\ BelowNext(got)  BY DEF IInv, Order
  <1>7. Rising(got')
    <2> SUFFICES ASSUME NEW i \in 1 .. Len(got'), NEW j \in 1 .. Len(got'), i < j
                 PROVE  got'[i].n < got'[j].n
      BY DEF Rising
    <2>1. i \in 1 .. Len(got)  BY <1>4, <1>5
    <2>2. CASE j = Len(got) + 1
      BY <2>1, <2>2, <1>1, <1>2, <1>4, <1>6 DEF TransferPlaced
    <2>3. CASE j # Len(got) + 1
      <3>1. j \in 1 .. Len(got)  BY <2>3, <1>4, <1>5
      <3> QED  BY <3>1, <2>1, <1>4, <1>6 DEF Rising
    <2> QED  BY <2>2, <2>3
  <1>8. \A i \in 1 .. Len(got') : got'[i].n < next'
    <2> TAKE i \in 1 .. Len(got')
    <2>1. CASE i = Len(got) + 1
      BY <2>1, <1>1, <1>2, <1>4, <1>6 DEF TransferPlaced
    <2>2. CASE i # Len(got) + 1
      <3>1. i \in 1 .. Len(got)  BY <2>2, <1>4, <1>5
      <3> QED  BY <3>1, <1>4, <1>6 DEF BelowNext
    <2> QED  BY <2>1, <2>2
  <1>9. down' = <<>> /\ queue' = <<>> /\ pending' = NoTransfer  BY DEF Fail, Reset, Fault
  <1>10. Order'
    BY <1>7, <1>8, <1>9 DEF Order, Rising, RisingEvents, Below, BelowEvents, BelowNext, TransferPlaced, NoTransfer
  <1> QED  BY <1>1, <1>2, <1>4, <1>10

\* A receiver that was reset holds nothing and waits for nothing.
LEMMA ResetEffect ==
  ASSUME pending' = NoTransfer, queue' = <<>>
  PROVE  /\ pending' \in Transfer /\ queue' \in Seq(Event) /\ Len(queue') = 0
         /\ Pulls' /\ PagesInOrder' /\ WaitsForSomething'
  <1>1. NoTransfer \in Transfer  BY TransferBounds, EmptySeq DEF NoTransfer, Transfer
  <1>2. <<>> \in Seq(Event) /\ Len(<<>>) = 0  BY EmptySeq
  <1>3. Pulls' /\ PagesInOrder' /\ WaitsForSomething'
    BY DEF NoTransfer, Pulls, PagesInOrder, WaitsForSomething
  <1> QED  BY <1>1, <1>2, <1>3
-----------------------------------------------------------------------------
(* Every action keeps the invariant. *)

\* What an action that leaves the client alone keeps of it.
LEMMA ClientIdle ==
  ASSUME IInv, UNCHANGED <<pending, queue, got, generation, opening, link, redials>>
  PROVE  Pulls' /\ PagesInOrder' /\ WaitsForSomething'
  BY DEF IInv, Pulls, PagesInOrder, WaitsForSomething

\* The machine keeps finitely many transfers.
LEMMA EntriesFinite ==
  ASSUME Shape
  PROVE  IsFiniteSet(entries) /\ Cardinality(entries) \in Nat
  <1>1. next \in Nat /\ entries \in SUBSET (1 .. next - 1)  BY TransferBounds DEF Shape
  <1>2. next - 1 \in Int  BY <1>1
  <1>3. IsFiniteSet(1 .. next - 1)  BY <1>2, FS_Interval
  <1>4. IsFiniteSet(entries)  BY <1>1, <1>3, FS_Subset
  <1> QED  BY <1>4, FS_CardinalityType

\* The events dealt with, waiting and pulled have numbers.
LEMMA EventNumbers ==
  ASSUME Shape
  PROVE  /\ \A i \in 1 .. Len(got) : got[i].n \in 1 .. MaxEvents
         /\ \A i \in 1 .. Len(queue) : queue[i] \in Event /\ queue[i].n \in 1 .. MaxEvents
         /\ \A i \in 1 .. Len(down) : down[i] \in Frame /\ (IsEvent(down[i]) => down[i].n \in 1 .. MaxEvents)
         /\ Len(got) \in Nat /\ Len(queue) \in Nat /\ Len(down) \in Nat
  <1>1. got \in Seq(Dealt) /\ queue \in Seq(Event) /\ down \in Seq(Frame)  BY DEF Shape
  <1>2. \A i \in 1 .. Len(got) : got[i] \in Dealt  BY <1>1, ElementOfSeq
  <1>3. \A i \in 1 .. Len(queue) : queue[i] \in Event  BY <1>1, ElementOfSeq
  <1>4. \A i \in 1 .. Len(down) : down[i] \in Frame  BY <1>1, ElementOfSeq
  <1>5. \A d \in Dealt : d.n \in 1 .. MaxEvents  BY DEF Dealt
  <1> QED  BY <1>1, <1>2, <1>3, <1>4, <1>5, FrameKinds, LenProperties

\* sendEvent numbers the event, and keeps it only while there is room.
LEMMA SendEventKeeps ==
  ASSUME IInv, NEW kind \in Kinds, SendEvent(kind)
  PROVE  IInv'
  <1> DEFINE k == Offered(kind)
             e == [t |-> "event", n |-> next, kind |-> k]
  <1>1. k \in {"small", "large", "foreign", "notice"}  BY DEF Offered, Kinds
  <1>2. next \in 1 .. MaxEvents /\ next' = next + 1  BY TransferBounds DEF SendEvent, IInv, Shape
  <1>3. e \in Event /\ e \in Frame /\ e.n = next  BY <1>1, <1>2 DEF Event, Frame
  <1>4. down' = Downward(e) /\ entries' = IF k \in {"large", "foreign"} THEN entries \union {next} ELSE entries
    BY DEF SendEvent
  <1>5. UNCHANGED <<up, pending, queue, got, generation, opening, link, redials>>
    BY DEF SendEvent, linkVars
  <1>s. Shape /\ Order /\ Len(down) < MaxFrames /\ down \in Seq(Frame) /\ Len(down) \in Nat
    BY LenProperties DEF SendEvent, IInv, Shape
  <1>k. k \in {"large", "foreign"} => Cardinality(entries) < MaxStored
    <2>2. IsFiniteSet(entries) /\ Cardinality(entries) \in Nat  BY <1>s, EntriesFinite
    <2> QED  BY <2>2, TransferBounds DEF Offered
  <1> HIDE DEF k, e
  <1>6. /\ down' \in Seq(Frame) /\ Len(down') <= MaxFrames
        /\ \/ down' = down
           \/ /\ Len(down') = Len(down) + 1 /\ down'[Len(down) + 1] = e
              /\ \A i \in 1 .. Len(down) : down'[i] = down[i]
    BY <1>3, <1>4, <1>s, DownwardEffect
  <1>7. Shape'
    <2>1. next' \in 1 .. MaxEvents + 1 /\ entries' \subseteq 1 .. next' - 1
      BY <1>2, <1>4, <1>s, TransferBounds DEF Shape
    <2> QED  BY <2>1, <1>5, <1>6, <1>s DEF Shape
  <1>8. StoreBounded'
    <2>2. IsFiniteSet(entries) /\ Cardinality(entries) \in Nat  BY <1>s, EntriesFinite
    <2>3. Cardinality(entries \union {next}) <= Cardinality(entries) + 1
      BY <2>2, FS_AddElement
    <2>4. Cardinality(entries) <= MaxStored  BY DEF IInv, StoreBounded
    <2>5. Cardinality(entries \union {next}) \in Nat
      BY <2>2, FS_AddElement, FS_CardinalityType
    <2> QED  BY <2>2, <2>3, <2>4, <2>5, <1>4, <1>k, TransferBounds DEF StoreBounded
  <1>9. Order'
    <2>1. \A i \in 1 .. Len(down') : IsEvent(down'[i]) =>
            \/ i \in 1 .. Len(down) /\ down'[i] = down[i]
            \/ i = Len(down) + 1 /\ down'[i].n = next
      BY <1>3, <1>6, <1>s
    <2>2. \A i \in 1 .. Len(down) : down[i] \in Frame /\ (IsEvent(down[i]) => down[i].n \in Nat /\ down[i].n < next)
      BY <1>s, ElementOfSeq, FrameKinds DEF Order
    <2>3. RisingEvents(down')
      <3> SUFFICES ASSUME NEW i \in 1 .. Len(down'), NEW j \in 1 .. Len(down'), i < j,
                          IsEvent(down'[i]), IsEvent(down'[j])
                   PROVE  down'[i].n < down'[j].n
        BY DEF RisingEvents
      <3>1. i \in 1 .. Len(down) /\ down'[i] = down[i]
        <4>1. i # Len(down) + 1  BY <2>1, <1>s
        <4> QED  BY <4>1, <2>1
      <3> QED  BY <3>1, <2>1, <2>2, <1>s DEF Order, RisingEvents
    <2>4. BelowEvents(got', down') /\ BelowEvents(queue', down')
      BY <2>1, <1>5, <1>s DEF Order, BelowEvents, BelowNext
    <2>n. \A m \in Nat : m < next => m < next'  BY <1>2
    <2>5. \A i \in 1 .. Len(down') : IsEvent(down'[i]) => down'[i].n < next'
      BY <2>1, <2>2, <1>2
    <2>6. TransferPlaced'
      <3>1. pending.tid \in Nat  BY <1>s DEF Shape, Transfer
      <3> QED  BY <3>1, <2>1, <1>5, <1>2, <1>s DEF Order, TransferPlaced
    <2>7. BelowNext(got)' /\ BelowNext(queue)'
      <3>1. \A i \in 1 .. Len(got) : got[i].n \in Nat  BY <1>s, EventNumbers
      <3>2. \A i \in 1 .. Len(queue) : queue[i].n \in Nat  BY <1>s, EventNumbers
      <3> QED  BY <3>1, <3>2, <1>5, <1>s, <2>n DEF Order, BelowNext
    <2> QED  BY <2>3, <2>4, <2>5, <2>6, <2>7, <1>5, <1>s DEF Order, Rising, Below
  <1> QED  BY <1>5, <1>7, <1>8, <1>9, ClientIdle DEF IInv

\* A page or the news that a transfer is gone, for this client or another.
LEMMA PartKeeps ==
  ASSUME IInv, Len(down) < MaxFrames, up' \in Seq(Ask),
         NEW r \in [n : Nat, page : Nat, try : Nat], down' = Downward(Part(r)),
         UNCHANGED <<next, entries, pending, queue, got, generation, opening, link, redials>>
  PROVE  IInv'
  <1>1. Part(r) \in Page /\ Part(r) \in Frame  BY DEF Part, Page, Frame
  <1>s. Shape /\ Order /\ down \in Seq(Frame)  BY DEF IInv, Shape
  <1>2. Order'  BY <1>1, <1>s, OrderPage
  <1>3. down' \in Seq(Frame) /\ Len(down') <= MaxFrames  BY <1>1, <1>s, DownwardEffect
  <1>4. Shape'  BY <1>3, <1>s DEF Shape
  <1>5. StoreBounded'  BY DEF IInv, StoreBounded
  <1> QED  BY <1>2, <1>4, <1>5, ClientIdle DEF IInv

\* The machine answers a request with a page.
LEMMA ReadKeeps ==
  ASSUME IInv, Read
  PROVE  IInv'
  <1>1. up \in Seq(Ask) /\ up # <<>>  BY DEF IInv, Shape, Read
  <1>2. Head(up) \in Ask /\ Tail(up) \in Seq(Ask)  BY <1>1, HeadTailProperties
  <1>3. Head(up) \in [n : Nat, page : Nat, try : Nat]  BY <1>2 DEF Ask
  <1>4. /\ Len(down) < MaxFrames /\ down' = Downward(Part(Head(up))) /\ up' = Tail(up)
        /\ UNCHANGED <<next, entries, pending, queue, got, generation, opening, link, redials>>
    BY DEF Read, linkVars
  <1> QED  BY <1>2, <1>3, <1>4, PartKeeps

\* Another client's pages reach this one too.
LEMMA OtherReadsKeeps ==
  ASSUME IInv, NEW t \in entries, NEW page \in 0 .. Pages - 1, OtherReads(t, page)
  PROVE  IInv'
  <1>1. t \in Nat  BY DEF IInv, Shape
  <1>2. [n |-> t, page |-> page, try |-> Other] \in [n : Nat, page : Nat, try : Nat]
    BY <1>1, TransferBounds DEF Other
  <1>3. /\ Len(down) < MaxFrames /\ down' = Downward(Part([n |-> t, page |-> page, try |-> Other]))
        /\ up' \in Seq(Ask)
        /\ UNCHANGED <<next, entries, pending, queue, got, generation, opening, link, redials>>
    BY DEF OtherReads, linkVars, IInv, Shape
  <1> QED  BY <1>2, <1>3, PartKeeps

\* Order, for an action that touches none of it.
LEMMA OrderIdle ==
  ASSUME Order, UNCHANGED <<next, pending, queue, got, down>>
  PROVE  Order'
  BY DEF Order, Rising, RisingEvents, Below, BelowEvents, BelowNext, TransferPlaced

\* An offer expires in the store.
LEMMA ExpireKeeps ==
  ASSUME IInv, NEW t \in entries, Expire(t)
  PROVE  IInv'
  <1>1. /\ entries' = entries \ {t}
        /\ UNCHANGED <<next, down, up, pending, queue, got, generation, opening, link, redials>>
    BY DEF Expire, linkVars
  <1>3. IsFiniteSet(entries) /\ Cardinality(entries) \in Nat  BY EntriesFinite DEF IInv
  <1>4. Cardinality(entries') <= Cardinality(entries)
    <2>1. Cardinality(entries \ {t}) = Cardinality(entries) - 1  BY <1>3, FS_RemoveElement
    <2> QED  BY <2>1, <1>1, <1>3
  <1>6. Cardinality(entries') \in Nat  BY <1>1, <1>3, FS_RemoveElement, FS_CardinalityType
  <1>5. StoreBounded'
    BY <1>3, <1>4, <1>6, TransferBounds DEF StoreBounded, IInv
  <1>7. Shape'  BY <1>1 DEF IInv, Shape
  <1> QED  BY <1>1, <1>5, <1>7, OrderIdle, ClientIdle DEF IInv

\* The machine's link drops: the last frames are lost.
LEMMA NodeLinkDropsKeeps ==
  ASSUME IInv, NodeLinkDrops
  PROVE  IInv'
  <1>1. PICK k \in 0 .. Len(down) : down' = SubSeq(down, 1, k)  BY DEF NodeLinkDrops
  <1>2. /\ up' = <<>>
        /\ UNCHANGED <<next, entries, pending, queue, got, generation, opening, link, redials>>
    BY DEF NodeLinkDrops, linkVars
  <1>s. Shape /\ Order /\ down \in Seq(Frame) /\ Len(down) \in Nat /\ k \in Nat
    BY LenProperties DEF IInv, Shape
  <1>3. \A i \in 1 .. k : down[i] \in Frame  BY <1>s, ElementOfSeq
  <1>4. /\ down' \in Seq(Frame) /\ Len(down') = k
        /\ \A i \in 1 .. k : down'[i] = down[i]
    BY <1>1, <1>3, <1>s, SubSeqProperties
  <1>5. Len(down') + 0 <= Len(down) /\ \A i \in 1 .. Len(down') : down'[i] = down[i + 0]
    BY <1>4, <1>s
  <1>6. Order'  BY <1>2, <1>4, <1>5, <1>s, OrderDrawn
  <1>7. up' \in Seq(Ask)  BY <1>2, EmptySeq
  <1>8. Len(down') <= MaxFrames  BY <1>4, <1>s, TransferBounds DEF Shape
  <1>9. Shape'  BY <1>2, <1>4, <1>7, <1>8, <1>s DEF Shape
  <1>10. StoreBounded'  BY <1>2 DEF IInv, StoreBounded
  <1> QED  BY <1>2, <1>6, <1>9, <1>10, ClientIdle DEF IInv

\* fail, after an error or the last timeout.
LEMMA FailKeeps ==
  ASSUME IInv, Fail, pending.asking, UNCHANGED <<next, entries>>
  PROVE  IInv'
  <1>1. Order' /\ got' \in Seq(Dealt)  BY OrderFail
  <1>2. /\ down' = <<>> /\ queue' = <<>> /\ pending' = NoTransfer /\ generation' = generation + 1
        /\ link' = "closing" /\ UNCHANGED <<up, opening, redials>>
    BY DEF Fail, Reset, Fault
  <1>3. /\ pending' \in Transfer /\ queue' \in Seq(Event) /\ Len(queue') = 0
        /\ Pulls' /\ PagesInOrder' /\ WaitsForSomething'
    BY <1>2, ResetEffect
  <1>4. down' \in Seq(Frame) /\ Len(down') <= MaxFrames  BY <1>2, EmptySeq, TransferBounds
  <1>5. Shape'  BY <1>1, <1>2, <1>3, <1>4, TransferBounds DEF IInv, Shape
  <1> QED  BY <1>1, <1>3, <1>5 DEF IInv, StoreBounded

\* The receiver is reset and its socket goes, with nothing handed over.
LEMMA DropKeeps ==
  ASSUME IInv, Reset, down' = <<>>, UNCHANGED <<next, entries, up, got, opening, redials>>,
         link' \in {"open", "closing", "closed"}
  PROVE  IInv'
  <1>2. queue' = <<>> /\ pending' = NoTransfer /\ generation' = generation + 1
    BY DEF Reset
  <1>1. Order'  BY <1>2, OrderReset DEF IInv
  <1>3. /\ pending' \in Transfer /\ queue' \in Seq(Event) /\ Len(queue') = 0
        /\ Pulls' /\ PagesInOrder' /\ WaitsForSomething'
    BY <1>2, ResetEffect
  <1>4. down' \in Seq(Frame) /\ Len(down') <= MaxFrames  BY EmptySeq, TransferBounds
  <1>5. Shape'  BY <1>1, <1>2, <1>3, <1>4, TransferBounds DEF IInv, Shape
  <1> QED  BY <1>1, <1>3, <1>5 DEF IInv, StoreBounded

\* The frame the client reads comes before the rest of the stream, and behind
\* everything it has.
LEMMA HeadPlaced ==
  ASSUME Shape, Order, down # <<>>, IsEvent(Head(down))
  PROVE  /\ Head(down) \in Event /\ Head(down).n < next
         /\ \A i \in 1 .. Len(got) : got[i].n < Head(down).n
         /\ \A i \in 1 .. Len(queue) : queue[i].n < Head(down).n
         /\ pending.tid # 0 => pending.tid < Head(down).n
         /\ \A i \in 1 .. Len(Tail(down)) : IsEvent(Tail(down)[i]) => Head(down).n < Tail(down)[i].n
  <1>1. /\ Head(down) = down[1] /\ down[1] \in Frame /\ Len(down) \in Nat /\ 1 <= Len(down)
        /\ Len(Tail(down)) = Len(down) - 1
        /\ \A i \in 1 .. Len(Tail(down)) : Tail(down)[i] = down[i + 1]
    BY TailEffect DEF Shape
  <1>2. 1 \in 1 .. Len(down)  BY <1>1
  <1>3. \A i \in 1 .. Len(Tail(down)) : i + 1 \in 1 .. Len(down) /\ 1 < i + 1  BY <1>1
  <1>4. Head(down) \in Event  BY <1>1, FrameKinds
  <1>5. \A i \in 1 .. Len(Tail(down)) : IsEvent(Tail(down)[i]) => Head(down).n < Tail(down)[i].n
    BY <1>1, <1>2, <1>3 DEF Order, RisingEvents
  <1>6. \A i \in 1 .. Len(got) : got[i].n < Head(down).n
    BY <1>1, <1>2 DEF Order, BelowEvents
  <1>7. \A i \in 1 .. Len(queue) : queue[i].n < Head(down).n
    BY <1>1, <1>2 DEF Order, BelowEvents
  <1>8. (pending.tid # 0 => pending.tid < Head(down).n) /\ Head(down).n < next
    BY <1>1, <1>2 DEF Order, TransferPlaced
  <1> QED  BY <1>4, <1>5, <1>6, <1>7, <1>8

\* An event that arrives while others wait goes to the end of the queue.
LEMMA OrderQueued ==
  ASSUME IInv, down # <<>>, IsEvent(Head(down)), queue' = Append(queue, Head(down)),
         down' = Tail(down), UNCHANGED <<next, pending, got>>
  PROVE  Order' /\ queue' \in Seq(Event) /\ Len(queue') = Len(queue) + 1
         /\ (\A i \in 1 .. Len(queue) : queue'[i] = queue[i]) /\ queue'[Len(queue) + 1] = Head(down)
  <1> DEFINE e == Head(down)
  <1>s. Shape /\ Order  BY DEF IInv
  <1>1. /\ e \in Event /\ e.n < next /\ e.n \in Nat
        /\ \A i \in 1 .. Len(got) : got[i].n < e.n
        /\ \A i \in 1 .. Len(queue) : queue[i].n < e.n
        /\ pending.tid # 0 => pending.tid < e.n
        /\ \A i \in 1 .. Len(Tail(down)) : IsEvent(Tail(down)[i]) => e.n < Tail(down)[i].n
    BY <1>s, HeadPlaced, FrameKinds
  <1>2. /\ Len(down) \in Nat /\ 1 <= Len(down) /\ Tail(down) \in Seq(Frame) /\ Len(Tail(down)) = Len(down) - 1
        /\ \A i \in 1 .. Len(Tail(down)) : Tail(down)[i] = down[i + 1]
    BY <1>s, TailEffect DEF Shape
  <1>3. queue' = Append(queue, e) /\ queue \in Seq(Event) /\ Len(queue) \in Nat
    BY <1>s, LenProperties DEF Shape
  <1> HIDE DEF e
  <1>4. /\ queue' \in Seq(Event) /\ Len(queue') = Len(queue) + 1 /\ queue'[Len(queue) + 1] = e
        /\ \A i \in 1 .. Len(queue) : queue'[i] = queue[i]
    BY <1>1, <1>3, AppendProperties
  <1>5. \A i \in 1 .. Len(queue') : \/ i \in 1 .. Len(queue) /\ queue'[i] = queue[i]
                                    \/ i = Len(queue) + 1 /\ queue'[i] = e
    BY <1>3, <1>4
  <1>6. Rising(queue')
    <2> SUFFICES ASSUME NEW i \in 1 .. Len(queue'), NEW j \in 1 .. Len(queue'), i < j
                 PROVE  queue'[i].n < queue'[j].n
      BY DEF Rising
    <2>1. i \in 1 .. Len(queue) /\ queue'[i] = queue[i]  BY <1>3, <1>4
    <2> QED  BY <2>1, <1>5, <1>1, <1>s DEF Order, Rising
  <1>7. Below(got', queue')  BY <1>5, <1>1, <1>s DEF Order, Below
  <1>8. \A i \in 1 .. Len(down') : i + 1 \in 1 .. Len(down) /\ down'[i] = down[i + 1]
    BY <1>2
  <1>9. BelowEvents(queue', down')
    BY <1>5, <1>8, <1>1, <1>s DEF Order, BelowEvents
  <1>10. BelowNext(queue)'
    BY <1>5, <1>1, <1>s DEF Order, BelowNext
  <1>11. RisingEvents(down')
    <2> SUFFICES ASSUME NEW i \in 1 .. Len(down'), NEW j \in 1 .. Len(down'), i < j,
                        IsEvent(down'[i]), IsEvent(down'[j])
                 PROVE  down'[i].n < down'[j].n
      BY DEF RisingEvents
    <2>1. i + 1 < j + 1  BY <1>2
    <2> QED  BY <2>1, <1>8, <1>s DEF Order, RisingEvents
  <1>12. BelowEvents(got', down')  BY <1>8, <1>s DEF Order, BelowEvents
  <1>13. \A i \in 1 .. Len(down') : IsEvent(down'[i]) => down'[i].n < next'
    BY <1>8, <1>s DEF Order
  <1>14. TransferPlaced'
    BY <1>5, <1>8, <1>1, <1>s DEF Order, TransferPlaced
  <1>15. Order'
    BY <1>6, <1>7, <1>9, <1>10, <1>11, <1>12, <1>13, <1>14, <1>s DEF Order, Rising, BelowNext
  <1> QED  BY <1>4, <1>15 DEF e

\* Draining keeps the whole stream in order: what is dealt with comes from the
\* queue, so it stands before the frames still on their way.
LEMMA DrainedKeeps ==
  ASSUME NEW q \in Seq(Event), NEW sofar \in Seq(Dealt), up \in Seq(Ask),
         Rising(q), Rising(sofar), Below(sofar, q), BelowNext(sofar), BelowNext(q), Drained(q, sofar),
         RisingEvents(down'), BelowEvents(sofar, down'), BelowEvents(q, down'),
         \A i \in 1 .. Len(down') : IsEvent(down'[i]) => down'[i].n < next,
         next' = next
  PROVE  Order' /\ Pulls' /\ PagesInOrder' /\ WaitsForSomething'
  <1>1. /\ got' \in Seq(Dealt) /\ Rising(got')
        /\ Len(sofar) <= Len(got') /\ \A i \in 1 .. Len(sofar) : got'[i] = sofar[i]
        /\ \A i \in Len(sofar) + 1 .. Len(got') : \E j \in 1 .. Len(q) : got'[i].n = q[j].n
        /\ queue' \in Seq(Event) /\ Rising(queue')
        /\ \A i \in 1 .. Len(queue') : \E j \in 1 .. Len(q) : queue'[i] = q[j]
        /\ Below(got', queue')
        /\ pending' = NoTransfer => queue' = <<>>
        /\ pending'.tid = 0 => pending' = NoTransfer
        /\ pending'.pages = <<>>
        /\ pending' # NoTransfer => pending'.asking
        /\ pending'.tid # 0 =>
             /\ \E j \in 1 .. Len(q) : pending'.tid = q[j].n
             /\ \A i \in 1 .. Len(got') : got'[i].n < pending'.tid
             /\ \A i \in 1 .. Len(queue') : pending'.tid < queue'[i].n
    BY DrainedEffect
  <1>l. Len(sofar) \in Nat /\ Len(got') \in Nat  BY <1>1, LenProperties
  <1>2. \A i \in 1 .. Len(got') : \/ i \in 1 .. Len(sofar) /\ got'[i] = sofar[i]
                                  \/ \E j \in 1 .. Len(q) : got'[i].n = q[j].n
    <2> TAKE i \in 1 .. Len(got')
    <2>1. i \in 1 .. Len(sofar) \/ i \in Len(sofar) + 1 .. Len(got')  BY <1>l
    <2> QED  BY <2>1, <1>1
  <1>3. BelowEvents(got', down')
    <2> SUFFICES ASSUME NEW i \in 1 .. Len(got'), NEW j \in 1 .. Len(down'), IsEvent(down'[j])
                 PROVE  got'[i].n < down'[j].n
      BY DEF BelowEvents
    <2> QED  BY <1>2 DEF BelowEvents
  <1>4. BelowEvents(queue', down')  BY <1>1 DEF BelowEvents
  <1>5. BelowNext(got)'  BY <1>2 DEF BelowNext
  <1>6. BelowNext(queue)'  BY <1>1 DEF BelowNext
  <1>7. TransferPlaced'
    <2> SUFFICES ASSUME pending'.tid # 0
                 PROVE  /\ \A i \in 1 .. Len(down') : IsEvent(down'[i]) => pending'.tid < down'[i].n
                        /\ pending'.tid < next
      BY <1>1 DEF TransferPlaced
    <2>1. PICK j \in 1 .. Len(q) : pending'.tid = q[j].n  BY <1>1
    <2> QED  BY <2>1 DEF BelowEvents, BelowNext
  <1>8. Order'  BY <1>1, <1>3, <1>4, <1>5, <1>6, <1>7 DEF Order, Rising, Below, BelowEvents, RisingEvents
  <1>9. Len(pending'.pages) = 0  BY <1>1, EmptySeq
  <1>10. Pulls'  BY <1>1, <1>9, TransferBounds DEF Pulls
  <1>11. PagesInOrder'  BY <1>9 DEF PagesInOrder
  <1>12. WaitsForSomething'  BY <1>1 DEF WaitsForSomething
  <1> QED  BY <1>8, <1>10, <1>11, <1>12

\* accept: an event that arrives is queued, dealt with at once, or too much.
LEMMA AcceptEventKeeps ==
  ASSUME IInv, AcceptEvent
  PROVE  IInv'
  <1> DEFINE e == Head(down)
             busy == pending # NoTransfer \/ queue # <<>>
  <1>s. Shape /\ Order /\ Rising(got) /\ up \in Seq(Ask)  BY DEF IInv, Order, Shape
  <1>e. down # <<>> /\ IsEvent(Head(down)) /\ link = "open"  BY DEF AcceptEvent, IsEvent
  <1>u. UNCHANGED <<next, entries, opening>>  BY DEF AcceptEvent
  <1>b. StoreBounded'  BY <1>u DEF IInv, StoreBounded
  <1>t. /\ Len(down) \in Nat /\ 1 <= Len(down) /\ Tail(down) \in Seq(Frame) /\ Len(Tail(down)) = Len(down) - 1
        /\ \A i \in 1 .. Len(Tail(down)) : Tail(down)[i] = down[i + 1]
    BY <1>s, <1>e, TailEffect DEF Shape
  <1>d. Len(Tail(down)) <= MaxFrames  BY <1>t, <1>s, TransferBounds DEF Shape
  <1>1. CASE /\ busy /\ Len(queue) >= MaxQueue
             /\ Reset /\ Fault /\ UNCHANGED <<up, got>>
    <2>1. down' = <<>> /\ link' = "closing" /\ UNCHANGED redials  BY <1>1 DEF Fault
    <2> QED  BY <2>1, <1>1, <1>u, DropKeeps
  <1>2. CASE /\ busy /\ Len(queue) < MaxQueue
             /\ queue' = Append(queue, e) /\ down' = Tail(down)
             /\ UNCHANGED <<up, pending, got, generation, linkVars>>
    <2>0. UNCHANGED <<up, pending, got, generation, link, redials>>  BY <1>2 DEF linkVars
    <2>1. Order' /\ queue' \in Seq(Event) /\ Len(queue') = Len(queue) + 1
      BY <1>2, <1>e, <1>u, OrderQueued
    <2>2. Len(queue) \in Nat  BY <1>s, EventNumbers
    <2>3. Len(queue') <= MaxQueue  BY <2>1, <2>2, <1>2, TransferBounds
    <2>4. Shape'  BY <2>0, <2>1, <2>3, <1>2, <1>t, <1>d, <1>u, <1>s DEF Shape
    <2>5. Pulls' /\ PagesInOrder'  BY <2>0 DEF IInv, Pulls, PagesInOrder
    <2>6. pending # NoTransfer  BY <1>2 DEF IInv, WaitsForSomething
    <2>7. WaitsForSomething'  BY <2>0, <2>6, <1>u DEF IInv, WaitsForSomething
    <2> QED  BY <2>1, <2>4, <2>5, <2>7, <1>b DEF IInv
  <1>3. CASE /\ ~busy /\ Drained(<<e>>, got) /\ down' = Tail(down)
             /\ UNCHANGED <<generation, linkVars>>
    <2>0. UNCHANGED <<generation, link, redials>>  BY <1>3 DEF linkVars
    <2>1. /\ e \in Event /\ e.n < next
          /\ \A i \in 1 .. Len(got) : got[i].n < e.n
          /\ \A i \in 1 .. Len(Tail(down)) : IsEvent(Tail(down)[i]) => e.n < Tail(down)[i].n
      BY <1>s, <1>e, HeadPlaced
    <2> HIDE DEF e
    <2>2. <<e>> \in Seq(Event) /\ Len(<<e>>) = 1 /\ <<e>>[1] = e  BY <2>1
    <2>3. got \in Seq(Dealt) /\ BelowNext(got)  BY <1>s DEF Shape, Order
    <2>4. Rising(<<e>>) /\ Below(got, <<e>>) /\ BelowNext(<<e>>)
      BY <2>1, <2>2 DEF Rising, Below, BelowNext
    <2>5. BelowEvents(<<e>>, down')  BY <2>1, <2>2, <1>3 DEF BelowEvents
    <2>6. \A i \in 1 .. Len(down') : i + 1 \in 1 .. Len(down) /\ down'[i] = down[i + 1]
      BY <1>t, <1>3
    <2>7. RisingEvents(down')
      <3> SUFFICES ASSUME NEW i \in 1 .. Len(down'), NEW j \in 1 .. Len(down'), i < j,
                          IsEvent(down'[i]), IsEvent(down'[j])
                   PROVE  down'[i].n < down'[j].n
        BY DEF RisingEvents
      <3>1. i + 1 < j + 1  BY <1>t, <1>3
      <3> QED  BY <3>1, <2>6, <1>s DEF Order, RisingEvents
    <2>8. BelowEvents(got, down')  BY <2>6, <1>s DEF Order, BelowEvents
    <2>9. \A i \in 1 .. Len(down') : IsEvent(down'[i]) => down'[i].n < next
      BY <2>6, <1>s DEF Order
    <2>10. Order' /\ Pulls' /\ PagesInOrder' /\ WaitsForSomething'
      BY <2>2, <2>3, <2>4, <2>5, <2>7, <2>8, <2>9, <1>s, <1>u, <1>3, DrainedKeeps
    <2>11. /\ got' \in Seq(Dealt) /\ queue' \in Seq(Event) /\ Len(queue') <= 1
           /\ pending' \in Transfer /\ up' \in Seq(Ask)
           /\ \A i \in 1 .. Len(queue') : \E j \in 1 .. Len(<<e>>) : queue'[i] = <<e>>[j]
           /\ pending' = NoTransfer => queue' = <<>>
           /\ pending'.tid # 0 =>
              /\ \E j \in 1 .. Len(<<e>>) : pending'.tid = <<e>>[j].n
              /\ \A i \in 1 .. Len(queue') : pending'.tid < queue'[i].n
           /\ pending'.tid = 0 => pending' = NoTransfer
      BY <2>2, <2>3, <2>4, <1>s, <1>3, DrainedEffect
    <2>12. Len(queue') = 0
      <3>1. Len(queue') \in Nat  BY <2>11, LenProperties
      <3>2. ASSUME Len(queue') # 0  PROVE FALSE
        <4>1. 1 \in 1 .. Len(queue')  BY <3>1, <3>2
        <4>2. queue'[1] = e  BY <4>1, <2>11, <2>2
        <4>3. pending'.tid # 0  BY <2>11, <3>2, EmptySeq
        <4>4. pending'.tid = e.n /\ pending'.tid < queue'[1].n  BY <4>1, <4>3, <2>11, <2>2
        <4>5. e.n \in Nat  BY <2>1, FrameKinds
        <4> QED  BY <4>2, <4>4, <4>5
      <3> QED  BY <3>2
    <2>13. Shape'
      BY <2>0, <2>11, <2>12, <1>3, <1>t, <1>d, <1>u, <1>s, TransferBounds DEF Shape
    <2> QED  BY <2>10, <2>13, <1>b DEF IInv
  <1> QED  BY <1>1, <1>2, <1>3 DEF AcceptEvent

\* part: the answer to the request in flight is the next page.
LEMMA AcceptPartKeeps ==
  ASSUME IInv, AcceptPart
  PROVE  IInv'
  <1> DEFINE f == Head(down)
             pages == Append(pending.pages, f.page)
             filled == [pending EXCEPT !.pages = Append(@, f.page), !.retries = 0]
  <1>s. Shape /\ Order /\ up \in Seq(Ask) /\ pending \in Transfer /\ generation \in Nat
    BY DEF IInv, Shape
  <1>e. down # <<>> /\ link = "open"  BY DEF AcceptPart
  <1>u. UNCHANGED <<next, entries>>  BY DEF AcceptPart
  <1>b. StoreBounded'  BY <1>u DEF IInv, StoreBounded
  <1>t. /\ Len(down) \in Nat /\ 1 <= Len(down) /\ Tail(down) \in Seq(Frame) /\ Len(Tail(down)) = Len(down) - 1
        /\ \A i \in 1 .. Len(Tail(down)) : Tail(down)[i] = down[i + 1]
    BY <1>s, <1>e, TailEffect DEF Shape
  <1>d. Len(Tail(down)) <= MaxFrames /\ Len(Tail(down)) + 1 <= Len(down)
    BY <1>t, <1>s, TransferBounds DEF Shape
  <1>p. pending.pages \in Seq(Nat) /\ Len(pending.pages) \in Nat /\ pending.retries \in 0 .. Retries
        /\ pending.asking \in BOOLEAN /\ pending.tid \in 0 .. MaxEvents
    BY <1>s, LenProperties DEF Transfer
  <1>f. ASSUME Answers(f)
        PROVE  /\ pending.asking /\ pending.tid \in 1 .. MaxEvents /\ f.n = pending.tid
               /\ filled = [tid |-> pending.tid, pages |-> pages, asking |-> pending.asking, retries |-> 0]
               /\ pages \in Seq(Nat) /\ Len(pages) = Len(pending.pages) + 1 /\ Len(pages) <= Pages
               /\ \A i \in 1 .. Len(pages) : i <= Pages /\ pages[i] = i - 1
    <2>1. pending.asking /\ f.n = pending.tid /\ f.page = Len(pending.pages)  BY <1>f DEF Answers
    <2>2. pending.tid # 0 /\ Len(pending.pages) < Pages
      BY <2>1 DEF IInv, Pulls, NoTransfer
    <2>3. /\ pages \in Seq(Nat) /\ Len(pages) = Len(pending.pages) + 1
          /\ \A i \in 1 .. Len(pending.pages) : pages[i] = pending.pages[i]
          /\ pages[Len(pending.pages) + 1] = f.page
      BY <2>1, <1>p, AppendProperties
    <2>4. \A i \in 1 .. Len(pending.pages) : i <= Pages /\ pending.pages[i] = i - 1
      BY DEF IInv, PagesInOrder
    <2>5. Len(pages) <= Pages  BY <2>2, <2>3, <1>p, TransferBounds
    <2>6. \A i \in 1 .. Len(pages) : i <= Pages /\ pages[i] = i - 1
      <3> HIDE DEF pages, f
      <3> TAKE i \in 1 .. Len(pages)
      <3>1. CASE i = Len(pending.pages) + 1
        BY <3>1, <2>1, <2>3, <2>5, <1>p
      <3>2. CASE i # Len(pending.pages) + 1
        <4>1. i \in 1 .. Len(pending.pages)  BY <3>2, <2>3, <1>p
        <4> QED  BY <4>1, <2>3, <2>4
      <3> QED  BY <3>1, <3>2
    <2>7. filled = [tid |-> pending.tid, pages |-> pages, asking |-> pending.asking, retries |-> 0]
      <3> DEFINE v == [pending EXCEPT !.pages = pages]
      <3>1. v = [tid |-> pending.tid, pages |-> pages, asking |-> pending.asking, retries |-> pending.retries]
        <4> HIDE DEF pages
        <4> QED  BY <1>s DEF Transfer
      <3>2. filled = [v EXCEPT !.retries = 0]  OBVIOUS
      <3> HIDE DEF v, pages, filled
      <3> QED  BY <3>1, <3>2
    <2> QED  BY <2>1, <2>2, <2>3, <2>5, <2>6, <2>7, <1>p
  <1>1. CASE /\ ~Answers(f) /\ down' = Tail(down)
             /\ UNCHANGED <<up, pending, queue, got, generation, opening, linkVars>>
    <2>0. UNCHANGED <<up, pending, queue, got, generation, opening, link, redials>>  BY <1>1 DEF linkVars
    <2>1. Order'  BY <2>0, <1>1, <1>u, <1>s, <1>t, <1>d, OrderDrawn
    <2>2. Shape'  BY <2>0, <1>1, <1>u, <1>s, <1>t, <1>d DEF Shape
    <2> QED  BY <2>0, <2>1, <2>2, <1>b, ClientIdle DEF IInv
  <1>2. CASE Answers(f) /\ ~f.found /\ Fail
    BY <1>2, <1>f, <1>u, FailKeeps
  <1> HIDE DEF pages, filled, f
  <1>3. CASE /\ Answers(f) /\ ~(Len(filled.pages) >= Pages)
             /\ pending' = filled /\ up' = Append(up, Request(filled)) /\ down' = Tail(down)
             /\ UNCHANGED <<queue, got, generation, opening, linkVars>>
    <2>0. UNCHANGED <<queue, got, generation, opening, link, redials>>  BY <1>3 DEF linkVars
    <2>1. /\ pending'.tid = pending.tid /\ pending'.pages = pages /\ pending'.asking
          /\ pending.tid \in 1 .. MaxEvents
          /\ pending' = [tid |-> pending.tid, pages |-> pages, asking |-> pending.asking, retries |-> 0]
      BY <1>3, <1>f
    <2>2. Len(pages) < Pages /\ Len(pages) \in 0 .. Pages - 1
      BY <2>1, <1>3, <1>f, <1>p, TransferBounds
    <2>3. pending' \in Transfer  BY <2>1, <1>f, <1>3, <1>p, TransferBounds DEF Transfer
    <2>4. Request(filled) \in Ask  BY <2>1, <2>2, <1>3 DEF Request, Ask
    <2>5. up' \in Seq(Ask)  BY <2>4, <1>3, <1>s, AppendProperties
    <2>6. Shape'  BY <2>0, <2>3, <2>5, <1>3, <1>u, <1>s, <1>t, <1>d DEF Shape
    <2>7. Pulls' /\ PagesInOrder'
      BY <2>1, <2>2, <1>3, <1>f DEF Pulls, PagesInOrder
    <2>8. pending # NoTransfer /\ pending' # NoTransfer  BY <2>1 DEF NoTransfer
    <2>9. WaitsForSomething'  BY <2>0, <2>1, <2>8 DEF WaitsForSomething
    <2>10. Order'  BY <2>0, <2>1, <1>3, <1>u, <1>s, <1>t, <1>d, OrderDrawn
    <2> QED  BY <2>6, <2>7, <2>9, <2>10, <1>b DEF IInv
  <1>4. CASE /\ Answers(f) /\ Len(filled.pages) >= Pages
             /\ pending' = [filled EXCEPT !.asking = FALSE] /\ down' = Tail(down)
             /\ opening' = opening \union {[tid |-> f.n, generation |-> generation]}
             /\ UNCHANGED <<up, queue, got, generation, linkVars>>
    <2>0. UNCHANGED <<up, queue, got, generation, link, redials>>  BY <1>4 DEF linkVars
    <2>1. /\ pending'.tid = pending.tid /\ pending'.pages = pages /\ ~pending'.asking
          /\ pending.tid \in 1 .. MaxEvents
          /\ pending' = [tid |-> pending.tid, pages |-> pages, asking |-> FALSE, retries |-> 0]
      <3>1. /\ filled = [tid |-> pending.tid, pages |-> pages, asking |-> pending.asking, retries |-> 0]
            /\ pending.tid \in 1 .. MaxEvents
        BY <1>4, <1>f
      <3> QED  BY <3>1, <1>4
    <2>2. pending' \in Transfer  BY <2>1, <1>f, <1>4, <1>p, TransferBounds DEF Transfer
    <2>3. [tid |-> f.n, generation |-> generation] \in [tid : 1 .. MaxEvents, generation : Nat]
      BY <2>1, <1>4, <1>f, <1>s
    <2>4. Shape'  BY <2>0, <2>2, <2>3, <1>4, <1>u, <1>s, <1>t, <1>d DEF Shape
    <2>5. Pulls' /\ PagesInOrder'  BY <2>1, <1>4, <1>f DEF Pulls, PagesInOrder
    <2>6. pending' # NoTransfer  BY <2>1 DEF NoTransfer
    <2>7. WaitsForSomething'  BY <2>0, <2>1, <2>6, <1>4, <1>f DEF WaitsForSomething
    <2>8. Order'  BY <2>0, <2>1, <1>4, <1>u, <1>s, <1>t, <1>d, OrderDrawn
    <2> QED  BY <2>4, <2>5, <2>7, <2>8, <1>b DEF IInv
  <1> QED  BY <1>1, <1>2, <1>3, <1>4 DEF AcceptPart, f, filled

\* The continuation of a decryption: the event takes its place before the
\* queue, or nothing happens because the receiver was reset.
LEMMA DecryptedKeeps ==
  ASSUME IInv, NEW d \in opening, Decrypted(d)
  PROVE  IInv'
  <1>s. Shape /\ Order /\ up \in Seq(Ask) /\ queue \in Seq(Event) /\ got \in Seq(Dealt)  BY DEF IInv, Shape
  <1>u. UNCHANGED <<next, entries, down, generation, link, redials>> /\ opening' = opening \ {d}
    BY DEF Decrypted, linkVars
  <1>b. StoreBounded'  BY <1>u DEF IInv, StoreBounded
  <1>1. CASE d.generation = generation /\ d.tid = pending.tid
    <2> DEFINE sofar == Append(got, [n |-> d.tid, how |-> "large"])
    <2>1. Drained(queue, sofar)  BY <1>1 DEF Decrypted
    <2>2. d.tid \in 1 .. MaxEvents /\ pending.tid # 0  BY <1>1, <1>s DEF Shape
    <2>3. [n |-> d.tid, how |-> "large"] \in Dealt  BY <2>2 DEF Dealt
    <2>4. /\ sofar \in Seq(Dealt) /\ Len(sofar) = Len(got) + 1
          /\ \A i \in 1 .. Len(got) : sofar[i] = got[i]
          /\ sofar[Len(got) + 1] = [n |-> d.tid, how |-> "large"]
      BY <2>3, <1>s, AppendProperties
    <2>5. sofar[Len(got) + 1].n = pending.tid  BY <2>4, <1>1
    <2> HIDE DEF sofar
    <2>6. Len(got) \in Nat  BY <1>s, EventNumbers
    <2>7. \A i \in 1 .. Len(sofar) : \/ i \in 1 .. Len(got) /\ sofar[i] = got[i]
                                     \/ i = Len(got) + 1 /\ sofar[i].n = pending.tid
      BY <2>4, <2>5, <2>6
    <2>p. TransferPlaced /\ pending.tid # 0  BY <2>2, <1>s DEF Order
    <2>8. Rising(sofar)
      <3> SUFFICES ASSUME NEW i \in 1 .. Len(sofar), NEW j \in 1 .. Len(sofar), i < j
                   PROVE  sofar[i].n < sofar[j].n
        BY DEF Rising
      <3>1. i \in 1 .. Len(got) /\ sofar[i] = got[i]  BY <2>4, <2>6
      <3> QED  BY <3>1, <2>7, <2>p, <1>s DEF Order, Rising, TransferPlaced
    <2>9. Below(sofar, queue)  BY <2>7, <2>p, <1>s DEF Order, Below, TransferPlaced
    <2>10. BelowNext(sofar)  BY <2>7, <2>p, <1>s DEF Order, BelowNext, TransferPlaced
    <2>11. BelowEvents(sofar, down')  BY <2>7, <2>p, <1>s, <1>u DEF Order, BelowEvents, TransferPlaced
    <2>12. /\ Rising(queue) /\ BelowNext(queue) /\ RisingEvents(down') /\ BelowEvents(queue, down')
           /\ \A i \in 1 .. Len(down') : IsEvent(down'[i]) => down'[i].n < next
      BY <1>s, <1>u DEF Order, RisingEvents, BelowEvents
    <2>13. Order' /\ Pulls' /\ PagesInOrder' /\ WaitsForSomething'
      BY <2>1, <2>4, <2>8, <2>9, <2>10, <2>11, <2>12, <1>s, <1>u, DrainedKeeps
    <2>14. /\ got' \in Seq(Dealt) /\ queue' \in Seq(Event) /\ Len(queue') <= Len(queue)
           /\ pending' \in Transfer /\ up' \in Seq(Ask)
      BY <2>1, <2>4, <2>8, <2>9, <2>12, <1>s, DrainedEffect
    <2>15. Len(queue') <= MaxQueue
      <3>1. Len(queue') \in Nat /\ Len(queue) \in Nat  BY <2>14, <1>s, LenProperties
      <3> QED  BY <3>1, <2>14, <1>s, TransferBounds DEF Shape
    <2>16. Shape'  BY <2>14, <2>15, <1>u, <1>s DEF Shape
    <2> QED  BY <2>13, <2>16, <1>b DEF IInv
  <1>2. CASE ~(d.generation = generation /\ d.tid = pending.tid)
    <2>1. UNCHANGED <<up, pending, queue, got>>  BY <1>2 DEF Decrypted
    <2>2. Shape'  BY <2>1, <1>u, <1>s DEF Shape
    <2>3. Order'  BY <2>1, <1>u, <1>s, OrderIdle
    <2>4. Pulls' /\ PagesInOrder'  BY <2>1 DEF IInv, Pulls, PagesInOrder
    <2>5. [tid |-> pending.tid, generation |-> generation] # d  BY <1>2
    <2>6. WaitsForSomething'  BY <2>1, <2>5, <1>u DEF IInv, WaitsForSomething
    <2> QED  BY <2>2, <2>3, <2>4, <2>6, <1>b DEF IInv
  <1> QED  BY <1>1, <1>2

\* The timer asks again for the same page, or gives up.
LEMMA TimeoutKeeps ==
  ASSUME IInv, Timeout
  PROVE  IInv'
  <1>s. Shape /\ Order /\ up \in Seq(Ask) /\ pending \in Transfer  BY DEF IInv, Shape
  <1>u. UNCHANGED <<next, entries>> /\ pending.asking  BY DEF Timeout
  <1>b. StoreBounded'  BY <1>u DEF IInv, StoreBounded
  <1>1. CASE /\ pending.retries < Retries /\ pending' = [pending EXCEPT !.retries = @ + 1]
             /\ up' = Append(up, Request(pending'))
             /\ UNCHANGED <<down, queue, got, generation, opening, linkVars>>
    <2>0. UNCHANGED <<down, queue, got, generation, opening, link, redials>>  BY <1>1 DEF linkVars
    <2>1. /\ pending'.tid = pending.tid /\ pending'.pages = pending.pages
          /\ pending'.asking /\ pending'.retries = pending.retries + 1
          /\ pending' \in Transfer
      <3>1. pending.retries + 1 \in 0 .. Retries  BY <1>1, <1>s, TransferBounds DEF Transfer
      <3>2. pending' = [pending EXCEPT !.retries = pending.retries + 1]  BY <1>1
      <3> QED  BY <1>s, <1>u, <3>1, <3>2 DEF Transfer
    <2>2. pending.tid \in 1 .. MaxEvents /\ Len(pending.pages) < Pages /\ Len(pending.pages) \in Nat
          /\ pending.retries \in Nat
      BY <1>s, <1>u, LenProperties DEF IInv, Pulls, NoTransfer, Transfer
    <2>3. Request(pending') \in Ask  BY <2>1, <2>2, TransferBounds DEF Request, Ask
    <2>4. up' \in Seq(Ask)  BY <2>3, <1>1, <1>s, AppendProperties
    <2>5. Shape'  BY <2>0, <2>1, <2>4, <1>u, <1>s DEF Shape
    <2>6. Pulls' /\ PagesInOrder'  BY <2>1, <2>2 DEF IInv, Pulls, PagesInOrder
    <2>7. pending # NoTransfer /\ pending' # NoTransfer  BY <2>1, <2>2 DEF NoTransfer
    <2>8. WaitsForSomething'  BY <2>0, <2>1, <2>7 DEF WaitsForSomething
    <2>9. down' \in Seq(Frame) /\ Len(down') + 0 <= Len(down) /\ \A i \in 1 .. Len(down') : down'[i] = down[i + 0]
      <3>1. down \in Seq(Frame) /\ Len(down) \in Nat  BY <1>s, LenProperties DEF Shape
      <3> QED  BY <3>1, <2>0
    <2>10. Order'  BY <2>0, <2>1, <2>9, <1>u, <1>s, OrderDrawn
    <2> QED  BY <2>5, <2>6, <2>8, <2>10, <1>b DEF IInv
  <1>2. CASE Fail  BY <1>2, <1>u, FailKeeps
  <1> QED  BY <1>1, <1>2 DEF Timeout

\* A request that cannot be sent ends the stream.
LEMMA SendRejectsKeeps ==
  ASSUME IInv, SendRejects
  PROVE  IInv'
  <1>1. UNCHANGED <<next, entries>> /\ pending.asking /\ Fail  BY DEF SendRejects
  <1>2. StoreBounded'  BY <1>1 DEF IInv, StoreBounded
  <1> QED  BY <1>1, <1>2, FailKeeps

\* A new link starts with nothing under way.
LEMMA RedialKeeps ==
  ASSUME IInv, Redial
  PROVE  IInv'
  <1>1. /\ UNCHANGED <<next, entries, down, up, pending, queue, got, generation, opening>>
        /\ link' = "open" /\ redials < MaxRedials /\ redials' = redials + 1
    BY DEF Redial
  <1>2. Shape'  BY <1>1, TransferBounds DEF IInv, Shape
  <1>3. Order'  BY <1>1, OrderIdle DEF IInv
  <1>4. Pulls' /\ PagesInOrder' /\ WaitsForSomething' /\ StoreBounded'
    BY <1>1 DEF IInv, Pulls, PagesInOrder, WaitsForSomething, StoreBounded
  <1> QED  BY <1>2, <1>3, <1>4 DEF IInv

\* The initial state has nothing sent, kept or queued.
LEMMA InitHolds == Init => IInv
  <1> SUFFICES ASSUME Init PROVE IInv  OBVIOUS
  <1>1. Pulls /\ PagesInOrder /\ WaitsForSomething
    BY DEF Init, NoTransfer, Pulls, PagesInOrder, WaitsForSomething
  <1>2. Order
    BY DEF Init, Order, Rising, RisingEvents, Below, BelowEvents, BelowNext, TransferPlaced, NoTransfer
  <1>3. StoreBounded  BY FS_EmptySet, TransferBounds DEF Init, StoreBounded
  <1>4. NoTransfer \in Transfer  BY TransferBounds, EmptySeq DEF NoTransfer, Transfer
  <1>5. Shape  BY <1>4, EmptySeq, TransferBounds DEF Init, Shape
  <1> QED  BY <1>1, <1>2, <1>3, <1>5 DEF IInv

\* Every step of the machine, the network and the client keeps the invariant.
THEOREM Invariance == Spec => []IInv
  <1>1. IInv /\ [Next]_vars => IInv'
    <2> SUFFICES ASSUME IInv, [Next]_vars PROVE IInv'  OBVIOUS
    <2>1. CASE \E kind \in Kinds : SendEvent(kind)  BY <2>1, SendEventKeeps
    <2>2. CASE Read  BY <2>2, ReadKeeps
    <2>3. CASE NodeLinkDrops  BY <2>3, NodeLinkDropsKeeps
    <2>4. CASE \E t \in entries : Expire(t) \/ \E page \in 0 .. Pages - 1 : OtherReads(t, page)
      BY <2>4, ExpireKeeps, OtherReadsKeeps
    <2>5. CASE AcceptEvent  BY <2>5, AcceptEventKeeps
    <2>6. CASE AcceptPart  BY <2>6, AcceptPartKeeps
    <2>7. CASE Timeout \/ SendRejects  BY <2>7, TimeoutKeeps, SendRejectsKeeps
    <2>8. CASE \E d \in opening : Decrypted(d)  BY <2>8, DecryptedKeeps
    <2>9. CASE LinkCloses
      <3>1. /\ Reset /\ down' = <<>> /\ UNCHANGED <<next, entries, up, got, opening, redials>>
            /\ link' \in {"open", "closing", "closed"}
        BY <2>9 DEF LinkCloses
      <3> QED  BY <3>1, DropKeeps
    <2>10. CASE Redial  BY <2>10, RedialKeeps
    <2>11. CASE UNCHANGED vars
      <3>1. UNCHANGED <<next, entries, down, up, pending, queue, got, generation, opening, link, redials>>
        BY <2>11 DEF vars
      <3>2. Shape' /\ StoreBounded'  BY <3>1 DEF IInv, Shape, StoreBounded
      <3>3. Order'  BY <3>1, OrderIdle DEF IInv
      <3> QED  BY <3>1, <3>2, <3>3, ClientIdle DEF IInv
    <2> QED  BY <2>1, <2>2, <2>3, <2>4, <2>5, <2>6, <2>7, <2>8, <2>9, <2>10, <2>11 DEF Next
  <1> QED  BY <1>1, InitHolds, PTL DEF Spec

\* Every variable keeps its shape: requests name pages that exist, retries and
\* queues stay within their bounds.
THEOREM TypeCorrect == Spec => []TypeOK
  <1>1. IInv => TypeOK
    <2> SUFFICES ASSUME IInv PROVE TypeOK  OBVIOUS
    <2>1. up \in Seq(Ask)  BY DEF IInv, Shape
    <2>2. DOMAIN up = 1 .. Len(up) /\ \A i \in 1 .. Len(up) : up[i] \in Ask
      BY <2>1, LenProperties, ElementOfSeq
    <2>3. \A i \in DOMAIN up : up[i].n \in 1 .. MaxEvents /\ up[i].page \in 0 .. Pages - 1
      BY <2>2 DEF Ask
    <2>4. pending.tid \in 0 .. MaxEvents /\ pending.retries \in 0 .. Retries
      BY DEF IInv, Shape, Transfer
    <2>5. next \in 1 .. MaxEvents + 1 /\ entries \subseteq 1 .. MaxEvents
      BY TransferBounds DEF IInv, Shape
    <2> QED  BY <2>3, <2>4, <2>5 DEF IInv, Shape, TypeOK
  <1> QED  BY <1>1, Invariance, PTL

\* The pages of a transfer are put together in order, each once (part).
THEOREM PagesStayInOrder == Spec => []PagesInOrder
  <1>1. IInv => PagesInOrder  BY DEF IInv
  <1> QED  BY <1>1, Invariance, PTL

\* The machine never keeps more than its limit of undelivered events (offer).
THEOREM StoreStaysBounded == Spec => []StoreBounded
  <1>1. IInv => StoreBounded  BY DEF IInv
  <1> QED  BY <1>1, Invariance, PTL

\* Whatever is queued waits for a transfer that asks or decrypts: a timer or a
\* continuation is there to end the wait (accept, drain).
THEOREM QueueWaitsForTransfer == Spec => []WaitsForSomething
  <1>1. IInv => WaitsForSomething  BY DEF IInv
  <1> QED  BY <1>1, Invariance, PTL
-----------------------------------------------------------------------------
(* The receiver implements OrderedDelivery. *)

\* What is on its way, element by element.
LEMMA InFlightElements ==
  ASSUME Shape
  PROVE  \A n : n \in InFlight <=>
           \/ n = pending.tid /\ n # 0
           \/ \E i \in 1 .. Len(queue) : n = queue[i].n
           \/ \E i \in 1 .. Len(down) : IsEvent(down[i]) /\ n = down[i].n
  <1>1. DOMAIN queue = 1 .. Len(queue) /\ DOMAIN down = 1 .. Len(down)
    BY LenProperties DEF Shape
  <1> QED  BY <1>1 DEF InFlight, IsEvent

\* The same, after a step.
LEMMA InFlightElementsNext ==
  ASSUME Shape'
  PROVE  \A n : n \in InFlight' <=>
           \/ n = pending'.tid /\ n # 0
           \/ \E i \in 1 .. Len(queue') : n = queue'[i].n
           \/ \E i \in 1 .. Len(down') : IsEvent(down'[i]) /\ n = down'[i].n
  <1>1. DOMAIN queue' = 1 .. Len(queue') /\ DOMAIN down' = 1 .. Len(down')
    <2>1. queue' \in Seq(Event) /\ down' \in Seq(Frame)  BY DEF Shape
    <2> QED  BY <2>1, LenProperties
  <1> QED  BY <1>1 DEF InFlight, IsEvent

\* The numbers of a sequence of records are a sequence of the same length.
LEMMA NumbersOf ==
  ASSUME NEW g \in Seq(Dealt)
  PROVE  /\ Len(Numbers(g)) = Len(g) /\ Len(g) \in Nat
         /\ \A i \in 1 .. Len(g) : Numbers(g)[i] = g[i].n
  <1>1. DOMAIN g = 1 .. Len(g) /\ Len(g) \in Nat  BY LenProperties
  <1>2. \A i \in 1 .. Len(g) : g[i].n \in Nat
    <2>1. \A i \in 1 .. Len(g) : g[i] \in Dealt  BY ElementOfSeq
    <2> QED  BY <2>1 DEF Dealt
  <1>3. Numbers(g) = [i \in 1 .. Len(g) |-> g[i].n]  BY <1>1 DEF Numbers
  <1>4. Numbers(g) \in [1 .. Len(g) -> Nat]  BY <1>2, <1>3
  <1>5. Numbers(g) \in Seq(Nat)  BY <1>1, <1>4
  <1>6. DOMAIN Numbers(g) = 1 .. Len(g) /\ DOMAIN Numbers(g) = 1 .. Len(Numbers(g))
        /\ Len(Numbers(g)) \in Nat
    BY <1>4, <1>5, LenProperties
  <1> QED  BY <1>1, <1>3, <1>6

\* A step that deals with events of the wire, keeping the order, and adds none
\* to it is a Receive.
LEMMA ReceiveSome ==
  ASSUME Shape, Shape', Order', next' = next,
         Len(got) <= Len(got'), \A i \in 1 .. Len(got) : got'[i] = got[i],
         \A i \in Len(got) + 1 .. Len(got') : got'[i].n \in InFlight,
         InFlight' \subseteq InFlight
  PROVE  Delivery!Receive
  <1>0. got \in Seq(Dealt) /\ got' \in Seq(Dealt)  BY DEF Shape
  <1> DEFINE a == Numbers(got)
             b == Numbers(got')
  <1>1. Len(a) = Len(got) /\ Len(got) \in Nat /\ \A i \in 1 .. Len(got) : a[i] = got[i].n
    BY <1>0, NumbersOf
  <1>2. Len(b) = Len(got') /\ Len(got') \in Nat /\ \A i \in 1 .. Len(got') : b[i] = got'[i].n
    BY <1>0, NumbersOf
  <1>p. Numbers(got)' = b  BY DEF Numbers
  <1> HIDE DEF a, b
  <1>3. \A i \in 1 .. Len(got) : i \in 1 .. Len(got')  BY <1>1, <1>2
  <1>4. Len(a) <= Len(b) /\ \A i \in 1 .. Len(a) : b[i] = a[i]  BY <1>1, <1>2, <1>3
  <1>5. \A i \in Len(a) + 1 .. Len(b) : i \in 1 .. Len(got') /\ i \in Len(got) + 1 .. Len(got') /\ b[i] = got'[i].n
    BY <1>1, <1>2
  <1>6. \A i \in Len(a) + 1 .. Len(b) : b[i] \in InFlight  BY <1>5
  <1>7. \A i, j \in Len(a) + 1 .. Len(b) : i < j => b[i] < b[j]
    BY <1>5 DEF Order, Rising
  <1>8. \A n \in InFlight', i \in 1 .. Len(got') : got'[i].n < n
    BY InFlightElementsNext DEF Order, Below, BelowEvents, TransferPlaced
  <1>9. \A n \in InFlight', i \in Len(a) + 1 .. Len(b) : b[i] < n  BY <1>5, <1>8
  <1> QED  BY <1>4, <1>6, <1>7, <1>9, <1>p DEF Delivery!Receive, a

\* A step that deals with nothing and adds nothing to the wire is a Receive.
LEMMA ReceiveNothing ==
  ASSUME Shape, Shape', Order', UNCHANGED <<next, got>>, InFlight' \subseteq InFlight
  PROVE  Delivery!Receive
  <1>1. Len(got) \in Nat  BY LenProperties DEF Shape
  <1> QED  BY <1>1, ReceiveSome

\* Nothing joins the wire when the receiver is left alone and no event is sent.
LEMMA WireShrinks ==
  ASSUME Shape, Shape',
         pending'.tid \in {0, pending.tid},
         \A i \in 1 .. Len(queue') : queue'[i].n \in InFlight,
         \A i \in 1 .. Len(down') : IsEvent(down'[i]) => \E j \in 1 .. Len(down) : down'[i] = down[j]
  PROVE  InFlight' \subseteq InFlight
  BY InFlightElements, InFlightElementsNext

\* The queued events are on their way.
LEMMA QueueInFlight ==
  ASSUME Shape
  PROVE  \A i \in 1 .. Len(queue) : queue[i].n \in InFlight
  BY InFlightElements

\* sendEvent is a Send.
LEMMA SendEventSends ==
  ASSUME IInv, IInv', NEW kind \in Kinds, SendEvent(kind)
  PROVE  Delivery!Send
  <1> DEFINE e == [t |-> "event", n |-> next, kind |-> Offered(kind)]
  <1>1. /\ down' = Downward(e) /\ next' = next + 1 /\ UNCHANGED <<pending, queue, got>>
        /\ Len(down) < MaxFrames
    BY DEF SendEvent
  <1>2. e.n = next /\ IsEvent(e)  BY DEF IsEvent
  <1>3. e \in Frame
    <2>1. next \in 1 .. MaxEvents  BY TransferBounds DEF SendEvent, IInv, Shape
    <2> QED  BY <2>1 DEF Frame, Event, Offered, Kinds
  <1>s. Shape /\ Shape' /\ down \in Seq(Frame) /\ Len(down) \in Nat  BY LenProperties DEF IInv, Shape
  <1> HIDE DEF e
  <1>4. \/ down' = down
        \/ /\ Len(down') = Len(down) + 1 /\ down'[Len(down) + 1] = e
           /\ \A i \in 1 .. Len(down) : down'[i] = down[i]
    BY <1>1, <1>3, <1>s, DownwardEffect
  <1>5. Numbers(got)' = Numbers(got)  BY <1>1 DEF Numbers
  <1>6. CASE down' = down
    <2>1. InFlight' = InFlight  BY <1>1, <1>6 DEF InFlight
    <2> QED  BY <2>1, <1>1, <1>5 DEF Delivery!Send
  <1>7. CASE down' # down
    <2>1. \A i \in 1 .. Len(down) : i \in 1 .. Len(down') /\ down'[i] = down[i]  BY <1>4, <1>7, <1>s
    <2>2. Len(down) + 1 \in 1 .. Len(down') /\ down'[Len(down) + 1] = e  BY <1>4, <1>7, <1>s
    <2>3. \A i \in 1 .. Len(down') : i \in 1 .. Len(down) \/ i = Len(down) + 1  BY <1>4, <1>7, <1>s
    <2>4. ASSUME NEW n  PROVE n \in InFlight' <=> n \in InFlight \union {next}
      BY <2>1, <2>2, <2>3, <1>1, <1>2, <1>s, InFlightElements, InFlightElementsNext
    <2>5. InFlight' = InFlight \union {next}  BY <2>4
    <2> QED  BY <2>5, <1>1, <1>5 DEF Delivery!Send
  <1> QED  BY <1>6, <1>7

\* What a drain deals with, starts to pull and leaves waiting was on its way
\* if the drained queue was.
LEMMA DrainReceives ==
  ASSUME Shape, Shape', Order', next' = next,
         NEW q \in Seq(Event), NEW sofar \in Seq(Dealt), Rising(q), Rising(sofar), Below(sofar, q),
         Drained(q, sofar), \A i \in 1 .. Len(q) : q[i].n \in InFlight,
         Len(got) <= Len(sofar), \A i \in 1 .. Len(got) : sofar[i] = got[i],
         \A i \in Len(got) + 1 .. Len(sofar) : sofar[i].n \in InFlight,
         \A i \in 1 .. Len(down') : IsEvent(down'[i]) => \E j \in 1 .. Len(down) : down'[i] = down[j]
  PROVE  Delivery!Receive
  <1>1. /\ Len(sofar) <= Len(got') /\ \A i \in 1 .. Len(sofar) : got'[i] = sofar[i]
        /\ \A i \in Len(sofar) + 1 .. Len(got') : \E j \in 1 .. Len(q) : got'[i].n = q[j].n
        /\ \A i \in 1 .. Len(queue') : \E j \in 1 .. Len(q) : queue'[i] = q[j]
        /\ pending'.tid # 0 => \E j \in 1 .. Len(q) : pending'.tid = q[j].n
    BY DrainedEffect DEF Shape
  <1>2. Len(got) \in Nat /\ Len(got') \in Nat /\ Len(sofar) \in Nat
    <2>1. got \in Seq(Dealt) /\ got' \in Seq(Dealt)  BY DEF Shape
    <2> QED  BY <2>1, LenProperties
  <1>3. Len(got) <= Len(got') /\ \A i \in 1 .. Len(got) : got'[i] = got[i]
    <2>1. \A i \in 1 .. Len(got) : i \in 1 .. Len(sofar)  BY <1>2
    <2> QED  BY <2>1, <1>1, <1>2
  <1>4. ASSUME NEW i \in Len(got) + 1 .. Len(got')  PROVE got'[i].n \in InFlight
    <2>1. CASE i <= Len(sofar)
      <3>1. i \in Len(got) + 1 .. Len(sofar) /\ i \in 1 .. Len(sofar)  BY <2>1, <1>2
      <3> QED  BY <3>1, <1>1
    <2>2. CASE ~(i <= Len(sofar))
      <3>1. i \in Len(sofar) + 1 .. Len(got')  BY <2>2, <1>2
      <3> QED  BY <3>1, <1>1
    <2> QED  BY <2>1, <2>2
  <1>5. InFlight' \subseteq InFlight
    <2> SUFFICES ASSUME NEW n \in InFlight' PROVE n \in InFlight  OBVIOUS
    <2>1. CASE n = pending'.tid /\ n # 0  BY <2>1, <1>1
    <2>2. CASE \E i \in 1 .. Len(queue') : n = queue'[i].n  BY <2>2, <1>1
    <2>3. CASE \E i \in 1 .. Len(down') : IsEvent(down'[i]) /\ n = down'[i].n
      BY <2>3, InFlightElements
    <2> QED  BY <2>1, <2>2, <2>3, InFlightElementsNext
  <1> QED  BY <1>3, <1>4, <1>5, ReceiveSome

\* What remains of the wire when its first frame is read.
LEMMA TailDrawn ==
  ASSUME Shape, down # <<>>, down' = Tail(down)
  PROVE  \A i \in 1 .. Len(down') : \E j \in 1 .. Len(down) : down'[i] = down[j]
  <1>1. /\ Len(down) \in Nat /\ Len(Tail(down)) = Len(down) - 1
        /\ \A i \in 1 .. Len(Tail(down)) : Tail(down)[i] = down[i + 1]
    BY TailEffect DEF Shape
  <1>2. \A i \in 1 .. Len(down') : i + 1 \in 1 .. Len(down)  BY <1>1
  <1> QED  BY <1>1, <1>2

\* A page adds no event to the wire.
LEMMA PageDrawn ==
  ASSUME Shape, Len(down) < MaxFrames, NEW f \in Page, down' = Downward(f)
  PROVE  \A i \in 1 .. Len(down') : IsEvent(down'[i]) => \E j \in 1 .. Len(down) : down'[i] = down[j]
  <1>1. f \in Frame /\ ~IsEvent(f)  BY FrameKinds DEF Frame
  <1>2. \/ down' = down
        \/ /\ Len(down') = Len(down) + 1 /\ down'[Len(down) + 1] = f
           /\ \A i \in 1 .. Len(down) : down'[i] = down[i]
    BY <1>1, DownwardEffect DEF Shape
  <1>3. Len(down) \in Nat  BY LenProperties DEF Shape
  <1>4. \A i \in 1 .. Len(down') : down' # down /\ IsEvent(down'[i]) => i \in 1 .. Len(down)
    BY <1>1, <1>2, <1>3
  <1> QED  BY <1>2, <1>4

\* The whole receiver given up: the wire is empty.
LEMMA ResetShrinks ==
  ASSUME Shape, Shape', pending' = NoTransfer, queue' = <<>>, down' = <<>>
  PROVE  InFlight' = {}
  <1>1. pending'.tid = 0 /\ Len(queue') = 0 /\ Len(down') = 0  BY EmptySeq DEF NoTransfer
  <1> QED  BY <1>1, InFlightElementsNext

\* fail deals with the transfer under way, by an error in its place.
LEMMA FailReceives ==
  ASSUME IInv, IInv', Fail, pending.asking, next' = next
  PROVE  Delivery!Receive
  <1>s. Shape /\ Shape' /\ Order'  BY DEF IInv
  <1>1. /\ Len(got') = Len(got) + 1 /\ (\A i \in 1 .. Len(got) : got'[i] = got[i])
        /\ got'[Len(got) + 1].n = pending.tid /\ pending.tid # 0
    BY OrderFail
  <1>2. Len(got) \in Nat  BY <1>s, EventNumbers
  <1>3. pending.tid \in InFlight  BY <1>1, <1>s, InFlightElements
  <1>4. InFlight' = {}  BY <1>s, ResetShrinks DEF Fail, Reset, Fault
  <1>5. \A i \in Len(got) + 1 .. Len(got') : i = Len(got) + 1  BY <1>1, <1>2
  <1>6. \A i \in Len(got) + 1 .. Len(got') : got'[i].n \in InFlight  BY <1>1, <1>3, <1>5
  <1>7. Len(got) <= Len(got')  BY <1>1, <1>2
  <1> QED  BY <1>1, <1>4, <1>6, <1>7, <1>s, ReceiveSome

\* Every step is a step of OrderedDelivery.
LEMMA StepDelivers ==
  ASSUME IInv, IInv', Next
  PROVE  Delivery!Send \/ Delivery!Receive
  <1>s. Shape /\ Shape' /\ Order /\ Order'  BY DEF IInv
  <1>q. \A i \in 1 .. Len(queue) : queue[i].n \in InFlight  BY <1>s, QueueInFlight
  <1>1. CASE \E kind \in Kinds : SendEvent(kind)  BY <1>1, SendEventSends
  <1>2. CASE Read
    <2>1. /\ UNCHANGED <<next, pending, queue, got>> /\ Len(down) < MaxFrames
          /\ down' = Downward(Part(Head(up))) /\ up # <<>>
      BY <1>2 DEF Read
    <2>2. Head(up) \in Ask  BY <2>1, <1>s, HeadTailProperties DEF Shape
    <2>3. Part(Head(up)) \in Page  BY <2>2 DEF Part, Page, Ask
    <2>4. \A i \in 1 .. Len(down') : IsEvent(down'[i]) => \E j \in 1 .. Len(down) : down'[i] = down[j]
      BY <2>1, <2>3, <1>s, PageDrawn
    <2>5. InFlight' \subseteq InFlight  BY <2>1, <2>4, <1>s, <1>q, WireShrinks
    <2> QED  BY <2>1, <2>5, <1>s, ReceiveNothing
  <1>3. CASE NodeLinkDrops
    <2>1. UNCHANGED <<next, pending, queue, got>>  BY <1>3 DEF NodeLinkDrops
    <2>2. PICK k \in 0 .. Len(down) : down' = SubSeq(down, 1, k)  BY <1>3 DEF NodeLinkDrops
    <2>3. down \in Seq(Frame) /\ Len(down) \in Nat /\ k \in Nat  BY <1>s, LenProperties DEF Shape
    <2>4. \A i \in 1 .. k : i \in 1 .. Len(down) /\ down[i] \in Frame  BY <2>3, ElementOfSeq
    <2>5. Len(down') = k /\ \A i \in 1 .. k : down'[i] = down[i]  BY <2>2, <2>3, <2>4, SubSeqProperties
    <2>6. \A i \in 1 .. Len(down') : \E j \in 1 .. Len(down) : down'[i] = down[j]  BY <2>4, <2>5
    <2>7. InFlight' \subseteq InFlight  BY <2>1, <2>6, <1>s, <1>q, WireShrinks
    <2> QED  BY <2>1, <2>7, <1>s, ReceiveNothing
  <1>4. CASE \E t \in entries : Expire(t)
    <2>1. UNCHANGED <<next, pending, queue, got, down>>  BY <1>4 DEF Expire
    <2>2. InFlight' = InFlight  BY <2>1 DEF InFlight
    <2> QED  BY <2>1, <2>2, <1>s, ReceiveNothing
  <1>5. CASE \E t \in entries : \E page \in 0 .. Pages - 1 : OtherReads(t, page)
    <2>0. PICK t \in entries, page \in 0 .. Pages - 1 : OtherReads(t, page)  BY <1>5
    <2>1. /\ UNCHANGED <<next, pending, queue, got>> /\ Len(down) < MaxFrames
          /\ down' = Downward(Part([n |-> t, page |-> page, try |-> Other]))
      BY <2>0 DEF OtherReads
    <2>2. t \in Nat  BY <1>s DEF Shape
    <2>3. Part([n |-> t, page |-> page, try |-> Other]) \in Page
      BY <2>2, TransferBounds DEF Part, Page, Other
    <2>4. \A i \in 1 .. Len(down') : IsEvent(down'[i]) => \E j \in 1 .. Len(down) : down'[i] = down[j]
      BY <2>1, <2>3, <1>s, PageDrawn
    <2>5. InFlight' \subseteq InFlight  BY <2>1, <2>4, <1>s, <1>q, WireShrinks
    <2> QED  BY <2>1, <2>5, <1>s, ReceiveNothing
  <1>6. CASE AcceptEvent
    <2>0. down # <<>> /\ IsEvent(Head(down)) /\ next' = next  BY <1>6 DEF AcceptEvent, IsEvent
    <2>h. Head(down) = down[1] /\ 1 \in 1 .. Len(down) /\ Head(down) \in Event
      BY <2>0, <1>s, TailEffect, HeadPlaced DEF Shape
    <2>i. Head(down).n \in InFlight  BY <2>0, <2>h, <1>s, InFlightElements
    <2>1. CASE Reset /\ Fault /\ UNCHANGED got
      <3>1. InFlight' = {}  BY <2>1, <1>s, ResetShrinks DEF Reset, Fault
      <3> QED  BY <2>0, <2>1, <3>1, <1>s, ReceiveNothing
    <2>2. CASE queue' = Append(queue, Head(down)) /\ down' = Tail(down) /\ UNCHANGED <<pending, got>>
      <3>1. /\ Len(queue') = Len(queue) + 1 /\ queue'[Len(queue) + 1] = Head(down)
            /\ \A i \in 1 .. Len(queue) : queue'[i] = queue[i]
        BY <2>0, <2>2, OrderQueued
      <3>2. Len(queue) \in Nat  BY <1>s, EventNumbers
      <3>3. \A i \in 1 .. Len(queue') : i \in 1 .. Len(queue) \/ i = Len(queue) + 1  BY <3>1, <3>2
      <3>4. \A i \in 1 .. Len(queue') : queue'[i].n \in InFlight  BY <3>1, <3>3, <1>q, <2>i
      <3>5. \A i \in 1 .. Len(down') : \E j \in 1 .. Len(down) : down'[i] = down[j]
        BY <2>0, <2>2, <1>s, TailDrawn
      <3>6. InFlight' \subseteq InFlight  BY <2>2, <3>4, <3>5, <1>s, WireShrinks
      <3> QED  BY <2>0, <2>2, <3>6, <1>s, ReceiveNothing
    <2>3. CASE Drained(<<Head(down)>>, got) /\ down' = Tail(down)
      <3> DEFINE e == Head(down)
      <3>1. /\ e \in Event /\ e.n \in InFlight /\ \A i \in 1 .. Len(got) : got[i].n < e.n
        BY <2>0, <2>h, <2>i, <1>s, HeadPlaced
      <3>d. Drained(<<e>>, got)  BY <2>3
      <3> HIDE DEF e
      <3>2. <<e>> \in Seq(Event) /\ Len(<<e>>) = 1 /\ <<e>>[1] = e  BY <3>1
      <3>3. got \in Seq(Dealt) /\ Rising(got) /\ Len(got) \in Nat  BY <1>s, LenProperties DEF Shape, Order
      <3>4. Rising(<<e>>) /\ Below(got, <<e>>) /\ \A i \in 1 .. Len(<<e>>) : <<e>>[i].n \in InFlight
        BY <3>1, <3>2 DEF Rising, Below
      <3>5. \A i \in 1 .. Len(down') : \E j \in 1 .. Len(down) : down'[i] = down[j]
        BY <2>0, <2>3, <1>s, TailDrawn
      <3>6. Len(got) <= Len(got) /\ \A i \in Len(got) + 1 .. Len(got) : got[i].n \in InFlight  BY <3>3
      <3> QED  BY <2>0, <3>d, <3>2, <3>3, <3>4, <3>5, <3>6, <1>s, DrainReceives
    <2> QED  BY <1>6, <2>1, <2>2, <2>3 DEF AcceptEvent
  <1>7. CASE AcceptPart
    <2>0. down # <<>> /\ next' = next  BY <1>7 DEF AcceptPart
    <2>1. CASE Fail /\ Answers(Head(down))
      BY <2>0, <2>1, FailReceives DEF Answers
    <2>2. CASE down' = Tail(down) /\ UNCHANGED <<queue, got>> /\ pending'.tid = pending.tid
      <3>1. \A i \in 1 .. Len(down') : \E j \in 1 .. Len(down) : down'[i] = down[j]
        BY <2>0, <2>2, <1>s, TailDrawn
      <3>2. InFlight' \subseteq InFlight  BY <2>2, <3>1, <1>s, <1>q, WireShrinks
      <3> QED  BY <2>0, <2>2, <3>2, <1>s, ReceiveNothing
    <2>3. pending \in Transfer  BY <1>s DEF Shape
    <2>4. (Fail /\ Answers(Head(down))) \/ (down' = Tail(down) /\ UNCHANGED <<queue, got>> /\ pending'.tid = pending.tid)
      BY <1>7, <2>3 DEF AcceptPart, Transfer
    <2> QED  BY <2>1, <2>2, <2>4
  <1>8. CASE Timeout
    <2>0. pending.asking /\ next' = next  BY <1>8 DEF Timeout
    <2>1. CASE Fail  BY <2>0, <2>1, FailReceives
    <2>2. CASE UNCHANGED <<down, queue, got>> /\ pending' = [pending EXCEPT !.retries = @ + 1]
      <3>1. pending'.tid = pending.tid  BY <2>2, <1>s DEF Shape, Transfer
      <3>2. InFlight' = InFlight  BY <2>2, <3>1 DEF InFlight
      <3> QED  BY <2>0, <2>2, <3>2, <1>s, ReceiveNothing
    <2> QED  BY <1>8, <2>1, <2>2 DEF Timeout
  <1>9. CASE \E d \in opening : Decrypted(d)
    <2>0. PICK d \in opening : Decrypted(d)  BY <1>9
    <2>1. UNCHANGED <<next, down>>  BY <2>0 DEF Decrypted
    <2>2. CASE d.generation = generation /\ d.tid = pending.tid
      <3> DEFINE sofar == Append(got, [n |-> d.tid, how |-> "large"])
      <3>1. Drained(queue, sofar)  BY <2>0, <2>2 DEF Decrypted
      <3>2. d.tid \in 1 .. MaxEvents /\ pending.tid # 0 /\ got \in Seq(Dealt) /\ queue \in Seq(Event)
        BY <2>2, <1>s DEF Shape
      <3>3. [n |-> d.tid, how |-> "large"] \in Dealt  BY <3>2 DEF Dealt
      <3>4. /\ sofar \in Seq(Dealt) /\ Len(sofar) = Len(got) + 1
            /\ \A i \in 1 .. Len(got) : sofar[i] = got[i]
            /\ sofar[Len(got) + 1] = [n |-> d.tid, how |-> "large"]
        BY <3>2, <3>3, AppendProperties
      <3>5. sofar[Len(got) + 1].n = pending.tid  BY <3>4, <2>2
      <3> HIDE DEF sofar
      <3>6. Len(got) \in Nat  BY <1>s, EventNumbers
      <3>7. \A i \in 1 .. Len(sofar) : \/ i \in 1 .. Len(got) /\ sofar[i] = got[i]
                                       \/ i = Len(got) + 1 /\ sofar[i].n = pending.tid
        BY <3>4, <3>5, <3>6
      <3>8. Rising(sofar)
        <4> SUFFICES ASSUME NEW i \in 1 .. Len(sofar), NEW j \in 1 .. Len(sofar), i < j
                     PROVE  sofar[i].n < sofar[j].n
          BY DEF Rising
        <4>1. i \in 1 .. Len(got) /\ sofar[i] = got[i]  BY <3>4, <3>6
        <4> QED  BY <4>1, <3>7, <3>2, <1>s DEF Order, Rising, TransferPlaced
      <3>9. Below(sofar, queue) /\ Rising(queue)
        BY <3>7, <3>2, <1>s DEF Order, Below, TransferPlaced
      <3>10. pending.tid \in InFlight  BY <3>2, <1>s, InFlightElements
      <3>11. \A i \in Len(got) + 1 .. Len(sofar) : i = Len(got) + 1  BY <3>4, <3>6
      <3>12. Len(got) <= Len(sofar) /\ \A i \in Len(got) + 1 .. Len(sofar) : sofar[i].n \in InFlight
        BY <3>4, <3>5, <3>6, <3>10, <3>11
      <3> QED  BY <2>1, <3>1, <3>2, <3>4, <3>8, <3>9, <3>12, <1>q, <1>s, DrainReceives
    <2>3. CASE ~(d.generation = generation /\ d.tid = pending.tid)
      <3>1. UNCHANGED <<pending, queue, got>>  BY <2>0, <2>3 DEF Decrypted
      <3>2. InFlight' = InFlight  BY <2>1, <3>1 DEF InFlight
      <3> QED  BY <2>1, <3>1, <3>2, <1>s, ReceiveNothing
    <2> QED  BY <2>2, <2>3
  <1>10. CASE LinkCloses
    <2>1. UNCHANGED <<next, got>> /\ down' = <<>> /\ pending' = NoTransfer /\ queue' = <<>>
      BY <1>10 DEF LinkCloses, Reset
    <2>2. InFlight' = {}  BY <2>1, <1>s, ResetShrinks
    <2> QED  BY <2>1, <2>2, <1>s, ReceiveNothing
  <1>11. CASE Redial
    <2>1. UNCHANGED <<next, pending, queue, got, down>>  BY <1>11 DEF Redial
    <2>2. InFlight' = InFlight  BY <2>1 DEF InFlight
    <2> QED  BY <2>1, <2>2, <1>s, ReceiveNothing
  <1>12. CASE SendRejects
    <2>1. pending.asking /\ next' = next /\ Fail  BY <1>12 DEF SendRejects
    <2> QED  BY <2>1, FailReceives
  <1> QED  BY <1>1, <1>2, <1>3, <1>4, <1>5, <1>6, <1>7, <1>8, <1>9, <1>10, <1>11, <1>12 DEF Next

\* The receiver implements ordered delivery, for every number of pages, retries
\* and events: a large event arrives in its place in the stream, and nothing of
\* an abandoned stream arrives later (EventTransferReceiver, EventTransferStore).
THEOREM OrderedRefinement == Spec => Ordered
  <1>1. Init => Delivery!Init
    <2> SUFFICES ASSUME Init PROVE Delivery!Init  OBVIOUS
    <2>1. InFlight = {}  BY DEF Init, InFlight, NoTransfer
    <2>2. Numbers(got) = <<>>  BY DEF Init, Numbers
    <2> QED  BY <2>1, <2>2 DEF Init, Delivery!Init
  <1>2. IInv /\ IInv' /\ [Next]_vars => [Delivery!Send \/ Delivery!Receive]_<<next, InFlight, Numbers(got)>>
    <2> SUFFICES ASSUME IInv, IInv', [Next]_vars
                 PROVE  [Delivery!Send \/ Delivery!Receive]_<<next, InFlight, Numbers(got)>>
      OBVIOUS
    <2>1. CASE Next  BY <2>1, StepDelivers
    <2>2. CASE UNCHANGED vars
      <3>1. UNCHANGED <<next, InFlight, Numbers(got)>>  BY <2>2 DEF vars, InFlight, Numbers
      <3> QED  BY <3>1
    <2> QED  BY <2>1, <2>2
  <1> QED  BY <1>1, <1>2, Invariance, PTL DEF Spec, Ordered, Delivery!Spec
=============================================================================
