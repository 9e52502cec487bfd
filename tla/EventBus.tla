------------------------------ MODULE EventBus ------------------------------
(***************************************************************************)
(* The event fan-out of internal/eventbus: goroutines that Publish, their  *)
(* subscribers with one bounded channel each, and contexts that end.       *)
(*                                                                         *)
(* Publish copies the subscribers under the read lock and then works on    *)
(* the copy without any lock, one non-blocking channel operation at a      *)
(* time; each of these operations is an action.  A send on a channel that  *)
(* an unsubscription closed meanwhile panics and ends the goroutine.       *)
(* Go's map has no order, so the copy is a set visited in any order.       *)
(***************************************************************************)
EXTENDS Integers, Sequences, FiniteSets

CONSTANTS
  Publishers,   \* goroutines that call Publish (engine, API)
  Subscribers,  \* subscription ids; each is used for one Subscribe
  Runs,         \* run ids an event may belong to
  None,         \* the empty filter; nothing in hand
  Filters,      \* filters a caller may ask for: run ids or None
  BufSize,      \* capacity of a subscriber's channel
  MaxEvents     \* bound: how many events each publisher publishes

ASSUME BusAssumption ==
  /\ IsFiniteSet(Publishers)
  /\ BufSize \in Nat \ {0}
  /\ MaxEvents \in [Publishers -> Nat]
  /\ None \notin Runs \cup Subscribers

VARIABLES
  subscribers,  \* b.subscribers: the registered ids
  channel,      \* channel of every id ever subscribed: filter, open, buffer
  dropped,      \* b.dropped
  pub,          \* per publisher: where it is in Publish and what it holds
  sent,         \* per publisher: how many events it has begun to publish
  received,     \* history: what each subscriber took from its channel
  lost,         \* history: <<s, event>> taken from or refused by s's channel
  owed          \* history: events each subscriber was registered for

vars == <<subscribers, channel, dropped, pub, sent, received, lost, owed>>

Event == [from: Publishers, n: Nat \ {0}, run: Runs]
Channel == [filter: Filters, open: BOOLEAN, buf: Seq(Event)]
Publishing == [step: {"idle", "send", "drop", "resend", "dead"},
               ev: Event \cup {None}, todo: SUBSET Subscribers,
               to: Subscribers \cup {None}]

TypeOK ==
  /\ subscribers \subseteq DOMAIN channel
  /\ DOMAIN channel \subseteq Subscribers
  /\ channel \in [DOMAIN channel -> Channel]
  /\ \A s \in DOMAIN channel : Len(channel[s].buf) <= BufSize
  /\ dropped \in Nat
  /\ pub \in [Publishers -> Publishing]
  /\ sent \in [Publishers -> Nat]
  /\ received \in [Subscribers -> Seq(Event)]
  /\ lost \subseteq Subscribers \X Event
  /\ owed \in [Subscribers -> SUBSET Event]

Elements(q) == {q[i] : i \in DOMAIN q}
Idle == [step |-> "idle", ev |-> None, todo |-> {}, to |-> None]

Match(filter, ev) == filter = None \/ ev.run = filter
FullOffByOne(s) == Len(channel[s].buf) > BufSize          \* mutant
Full(s) == Len(channel[s].buf) = BufSize

Init ==
  /\ subscribers = {}
  /\ channel = [s \in {} |-> None]
  /\ dropped = 0
  /\ pub = [p \in Publishers |-> Idle]
  /\ sent = [p \in Publishers |-> 0]
  /\ received = [s \in Subscribers |-> <<>>]
  /\ lost = {}
  /\ owed = [s \in Subscribers |-> {}]

-----------------------------------------------------------------------------
(* Subscriptions.                                                          *)

Subscribe(s, filter) ==
  /\ s \notin DOMAIN channel
  /\ subscribers' = subscribers \cup {s}
  /\ channel' = [x \in DOMAIN channel \cup {s} |->
                   IF x = s THEN [filter |-> filter, open |-> TRUE, buf |-> <<>>]
                   ELSE channel[x]]
  /\ UNCHANGED <<dropped, pub, sent, received, lost, owed>>

\* The context ends: the goroutine of Subscribe removes the entry and closes
\* the channel, both under the lock.
Unsubscribe(s) ==
  /\ s \in subscribers
  /\ subscribers' = subscribers \ {s}
  /\ channel' = [channel EXCEPT ![s].open = FALSE]
  /\ UNCHANGED <<dropped, pub, sent, received, lost, owed>>

\* A closed channel still hands out what it holds.
Receive(s) ==
  /\ s \in DOMAIN channel /\ channel[s].buf # <<>>
  /\ received' = [received EXCEPT ![s] = Append(@, Head(channel[s].buf))]
  /\ channel' = [channel EXCEPT ![s].buf = Tail(@)]
  /\ UNCHANGED <<subscribers, dropped, pub, sent, lost, owed>>

-----------------------------------------------------------------------------
(* Publish.                                                                *)

AdvanceEndsRound(p, s) == pub' = [pub EXCEPT ![p] = Idle]    \* mutant

\* The publisher is through with s: on to the next subscriber, or return.
Advance(p, s) ==
  LET rest == pub[p].todo \ {s}
  IN pub' = [pub EXCEPT ![p] =
               IF rest = {} THEN Idle
               ELSE [step |-> "send", ev |-> pub[p].ev, todo |-> rest, to |-> None]]

Panic(p) == pub' = [pub EXCEPT ![p].step = "dead"]
CountNothing == UNCHANGED dropped                            \* mutant
Count == dropped' = dropped + 1
Put(p, s) == channel' = [channel EXCEPT ![s].buf = Append(@, pub[p].ev)]

Begin(p, run) ==
  /\ pub[p].step = "idle"
  /\ sent[p] < MaxEvents[p]
  /\ LET ev == [from |-> p, n |-> sent[p] + 1, run |-> run]
         todo == {s \in subscribers : Match(channel[s].filter, ev)}
     IN /\ pub' = [pub EXCEPT ![p] =
                     IF todo = {} THEN Idle
                     ELSE [step |-> "send", ev |-> ev, todo |-> todo, to |-> None]]
        /\ owed' = [s \in Subscribers |->
                      IF s \in todo THEN owed[s] \cup {ev} ELSE owed[s]]
  /\ sent' = [sent EXCEPT ![p] = @ + 1]
  /\ UNCHANGED <<subscribers, channel, dropped, received, lost>>

SendBlocks(p, s) ==                                         \* mutant
  /\ pub[p].step = "send" /\ s \in pub[p].todo
  /\ channel[s].open /\ ~Full(s)
  /\ Put(p, s) /\ Advance(p, s)
  /\ UNCHANGED <<subscribers, dropped, sent, received, lost, owed>>

\* The first select: send if there is room, panic if the channel is closed.
Send(p, s) ==
  /\ pub[p].step = "send" /\ s \in pub[p].todo
  /\ \/ /\ ~channel[s].open
        /\ Panic(p)
        /\ UNCHANGED channel
     \/ /\ channel[s].open /\ ~Full(s)
        /\ Put(p, s) /\ Advance(p, s)
     \/ /\ channel[s].open /\ Full(s)
        /\ pub' = [pub EXCEPT ![p].step = "drop", ![p].to = s]
        /\ UNCHANGED channel
  /\ UNCHANGED <<subscribers, dropped, sent, received, lost, owed>>

ResendingShadowed(p) ==                                     \* mutant
  pub' = [pub EXCEPT ![p].step = "resend",
                     ![p].ev = IF channel[pub[p].to].buf = <<>> THEN @
                               ELSE Head(channel[pub[p].to].buf)]
Resending(p) == pub' = [pub EXCEPT ![p].step = "resend"]

DropNothing(p) ==                                           \* mutant
  /\ pub[p].step = "drop"
  /\ Resending(p)
  /\ UNCHANGED <<subscribers, channel, dropped, sent, received, lost, owed>>

\* The second select takes the oldest event, if somebody has not taken it
\* first.  From a closed and empty channel it takes the zero value and counts
\* it, although nothing was in it.
Drop(p) ==
  LET s == pub[p].to IN
  /\ pub[p].step = "drop"
  /\ Resending(p)
  /\ \/ /\ channel[s].buf # <<>>
        /\ lost' = lost \cup {<<s, Head(channel[s].buf)>>}
        /\ channel' = [channel EXCEPT ![s].buf = Tail(@)]
        /\ Count
     \/ /\ channel[s].buf = <<>> /\ ~channel[s].open
        /\ Count
        /\ UNCHANGED <<channel, lost>>
     \/ /\ channel[s].buf = <<>> /\ channel[s].open
        /\ UNCHANGED <<channel, dropped, lost>>
  /\ UNCHANGED <<subscribers, sent, received, owed>>

\* The third select: another publisher may have filled the place.
Resend(p) ==
  LET s == pub[p].to IN
  /\ pub[p].step = "resend"
  /\ \/ /\ ~channel[s].open
        /\ Panic(p)
        /\ UNCHANGED <<channel, dropped, lost>>
     \/ /\ channel[s].open /\ ~Full(s)
        /\ Put(p, s) /\ Advance(p, s)
        /\ UNCHANGED <<dropped, lost>>
     \/ /\ channel[s].open /\ Full(s)
        /\ Advance(p, s)
        /\ Count
        /\ lost' = lost \cup {<<s, pub[p].ev>>}
        /\ UNCHANGED channel
  /\ UNCHANGED <<subscribers, sent, received, owed>>

PublishStep(p) == (\E s \in Subscribers : Send(p, s)) \/ Drop(p) \/ Resend(p)

Next ==
  \/ \E s \in Subscribers, filter \in Filters : Subscribe(s, filter)
  \/ \E s \in Subscribers : Unsubscribe(s) \/ Receive(s)
  \/ \E p \in Publishers, run \in Runs : Begin(p, run)
  \/ \E p \in Publishers : PublishStep(p)

Spec == Init /\ [][Next]_vars

\* A goroutine inside Publish is runnable, and Go runs it.
FairSpec == Spec /\ \A p \in Publishers : WF_vars(PublishStep(p))

-----------------------------------------------------------------------------
(* Properties.                                                             *)

\* What came and still comes out of a subscriber's channel, oldest first.
Stream(s) ==
  received[s] \o (IF s \in DOMAIN channel THEN channel[s].buf ELSE <<>>)

LostTo(s) == {l[2] : l \in {x \in lost : x[1] = s}}
InHand(s) == {pub[p].ev : p \in {x \in Publishers : s \in pub[x].todo}}

\* Every event a subscriber was registered for is in exactly one place: in its
\* stream, recorded as lost, or in the hands of the publisher that still has
\* to deal with this subscriber.  Nothing else ever reaches the subscriber.
EachOnce ==
  \A s \in Subscribers :
    /\ owed[s] = Elements(Stream(s)) \cup LostTo(s) \cup InHand(s)
    /\ Elements(Stream(s)) \cap LostTo(s) = {}
    /\ InHand(s) \cap (Elements(Stream(s)) \cup LostTo(s)) = {}

\* Each publisher's events stand in the order it published them, each once.
Ordered(q) ==
  \A i, j \in DOMAIN q : (i < j /\ q[i].from = q[j].from) => q[i].n < q[j].n

\* A subscriber sees the events of one publisher in the order they were
\* published and none twice, through any overflow and any interleaving with
\* the other publishers.
PublisherOrder == \A s \in Subscribers : Ordered(Stream(s))

\* Publishers that have met, or are about to meet, a closed channel.
Doomed ==
  {p \in Publishers : \/ pub[p].step = "dead"
                      \/ pub[p].step = "resend" /\ ~channel[pub[p].to].open}

\* Dropped() is what health checks read: it counts every lost event, and
\* overstates the loss at most once per publisher that runs into a closed
\* channel.
DroppedCounts ==
  /\ Cardinality(lost) <= dropped
  /\ dropped <= Cardinality(lost) + Cardinality(Doomed)

\* "Drop oldest, deliver newest": an event is lost as the oldest of its
\* channel, or else refused in favour of an event that another publisher sent
\* in the meantime; never because of the publisher's own backlog.
NewestYields ==
  [][\A l \in lost' \ lost :
       LET buf == channel[l[1]].buf
       IN buf # <<>> /\ \/ l[2] = Head(buf)
                        \/ l[2].from # buf[Len(buf)].from]_vars

\* Publish returns (or panics) although nobody reads: a slow subscriber never
\* blocks a publisher.
PublishReturns ==
  \A p \in Publishers :
    pub[p].step = "send" ~> pub[p].step \in {"idle", "dead"}
=============================================================================
