--------------------------- MODULE EventBusProofs ---------------------------
(***************************************************************************)
(* Theorems about EventBus for every set of publishers, subscribers and    *)
(* runs and every buffer size.                                             *)
(***************************************************************************)
EXTENDS EventBus, FiniteSetTheorems, TLAPS

(***************************************************************************)
(* Sequences                                                               *)
(***************************************************************************)
\* Appending adds one element.
LEMMA AppendElements ==
  ASSUME NEW S, NEW q \in Seq(S), NEW e \in S
  PROVE  /\ Append(q, e) \in Seq(S)
         /\ Elements(Append(q, e)) = Elements(q) \cup {e}
<1>1. Len(Append(q, e)) = Len(q) + 1 /\ Append(q, e) \in Seq(S)
  OBVIOUS
<1>2. \A i \in 1..Len(q) : Append(q, e)[i] = q[i]
  OBVIOUS
<1>3. Append(q, e)[Len(q) + 1] = e
  OBVIOUS
<1>4. DOMAIN Append(q, e) = DOMAIN q \cup {Len(q) + 1} /\ DOMAIN q = 1..Len(q)
  BY <1>1
<1> QED BY <1>1, <1>2, <1>3, <1>4 DEF Elements

\* The head and the elements of the tail are the elements.
LEMMA TailElements ==
  ASSUME NEW S, NEW q \in Seq(S), q # <<>>
  PROVE  /\ Head(q) \in S
         /\ Tail(q) \in Seq(S)
         /\ Len(Tail(q)) = Len(q) - 1
         /\ Elements(q) = {Head(q)} \cup Elements(Tail(q))
<1>1. Tail(q) \in Seq(S) /\ Len(Tail(q)) = Len(q) - 1 /\ Head(q) = q[1] /\ Len(q) >= 1
  OBVIOUS
<1>2. \A i \in 1..Len(q) - 1 : Tail(q)[i] = q[i + 1]
  OBVIOUS
<1>3. DOMAIN q = 1..Len(q) /\ DOMAIN Tail(q) = 1..Len(q) - 1
  BY <1>1
<1>4. Elements(Tail(q)) \subseteq Elements(q)
  BY <1>1, <1>2, <1>3 DEF Elements
<1>5. ASSUME NEW i \in DOMAIN q, i # 1 PROVE q[i] \in Elements(Tail(q))
  <2>1. i - 1 \in DOMAIN Tail(q) /\ q[i] = Tail(q)[i - 1]
    BY <1>1, <1>2, <1>3, <1>5
  <2> QED BY <2>1 DEF Elements
<1>6. q[1] \in Elements(q)
  BY <1>1, <1>3 DEF Elements
<1>7. Head(q) \in S
  BY <1>1
<1> QED BY <1>1, <1>4, <1>5, <1>6, <1>7 DEF Elements

\* Moving the head of b to the end of r does not change r followed by b.
LEMMA MoveHead ==
  ASSUME NEW S, NEW r \in Seq(S), NEW b \in Seq(S), b # <<>>
  PROVE  Append(r, Head(b)) \o Tail(b) = r \o b
<1> DEFINE x == Append(r, Head(b)) \o Tail(b)
           y == r \o b
<1>1. /\ Tail(b) \in Seq(S) /\ Head(b) \in S /\ Head(b) = b[1] /\ Len(b) >= 1
      /\ Len(Tail(b)) = Len(b) - 1
  OBVIOUS
<1>2. Append(r, Head(b)) \in Seq(S) /\ Len(Append(r, Head(b))) = Len(r) + 1
  BY <1>1
<1>3. x \in Seq(S) /\ y \in Seq(S) /\ Len(x) = Len(r) + Len(b) /\ Len(y) = Len(r) + Len(b)
  BY <1>1, <1>2
<1>4. ASSUME NEW i \in 1..Len(r) + Len(b) PROVE x[i] = y[i]
  <2>1. CASE i \in 1..Len(r)
    BY <1>1, <1>2, <2>1
  <2>2. CASE i = Len(r) + 1
    BY <1>1, <1>2, <2>2
  <2>3. CASE i > Len(r) + 1
    <3>1. x[i] = Tail(b)[i - (Len(r) + 1)]
      BY <1>1, <1>2, <1>4, <2>3
    <3>2. Tail(b)[i - (Len(r) + 1)] = b[i - Len(r)]
      BY <1>1, <1>4, <2>3
    <3>3. y[i] = b[i - Len(r)]
      BY <1>1, <1>4, <2>3
    <3> QED BY <3>1, <3>2, <3>3
  <2> QED BY <2>1, <2>2, <2>3
<1> QED BY <1>3, <1>4

LEMMA AppendConcat ==
  ASSUME NEW S, NEW r \in Seq(S), NEW b \in Seq(S), NEW e \in S
  PROVE  r \o Append(b, e) = Append(r \o b, e)
OBVIOUS

\* A newer event at the end keeps the order.
LEMMA OrderedAppend ==
  ASSUME NEW q \in Seq(Event), NEW e \in Event, Ordered(q),
         \A x \in Elements(q) : x.from = e.from => x.n < e.n
  PROVE  Ordered(Append(q, e))
<1>1. /\ Len(Append(q, e)) = Len(q) + 1
      /\ \A i \in 1..Len(q) : Append(q, e)[i] = q[i]
      /\ Append(q, e)[Len(q) + 1] = e
      /\ DOMAIN Append(q, e) = 1..Len(q) + 1 /\ DOMAIN q = 1..Len(q)
  OBVIOUS
<1> SUFFICES ASSUME NEW i \in 1..Len(q) + 1, NEW j \in 1..Len(q) + 1, i < j,
                    Append(q, e)[i].from = Append(q, e)[j].from
             PROVE  Append(q, e)[i].n < Append(q, e)[j].n
  BY <1>1 DEF Ordered
<1>2. i \in 1..Len(q)
  OBVIOUS
<1>3. CASE j \in 1..Len(q)
  BY <1>1, <1>2, <1>3 DEF Ordered
<1>4. CASE j = Len(q) + 1
  BY <1>1, <1>2, <1>4 DEF Elements
<1> QED BY <1>3, <1>4

\* Without the oldest event of b the order stands, and that event is gone.
LEMMA OrderedDrop ==
  ASSUME NEW r \in Seq(Event), NEW b \in Seq(Event), b # <<>>, Ordered(r \o b)
  PROVE  /\ Ordered(r \o Tail(b))
         /\ Head(b) \notin Elements(r \o Tail(b))
         /\ Elements(r \o b) = Elements(r \o Tail(b)) \cup {Head(b)}
<1> DEFINE x == r \o Tail(b)
           y == r \o b
           up(i) == IF i <= Len(r) THEN i ELSE i + 1
<1>1. /\ Tail(b) \in Seq(Event) /\ Head(b) = b[1] /\ Len(b) \in Nat \ {0}
      /\ Len(Tail(b)) = Len(b) - 1 /\ Len(r) \in Nat /\ Head(b) \in Event
      /\ \A i \in 1..Len(b) - 1 : Tail(b)[i] = b[i + 1]
  OBVIOUS
<1>2. /\ DOMAIN x = 1..Len(r) + Len(b) - 1
      /\ DOMAIN y = 1..Len(r) + Len(b)
  BY <1>1
<1>3. \A i \in DOMAIN x : up(i) \in DOMAIN y /\ up(i) # Len(r) + 1 /\ x[i] = y[up(i)]
  <2> SUFFICES ASSUME NEW i \in 1..Len(r) + Len(b) - 1
               PROVE  up(i) \in DOMAIN y /\ up(i) # Len(r) + 1 /\ x[i] = y[up(i)]
    BY <1>2
  <2>1. CASE i <= Len(r)
    BY <1>1, <1>2, <2>1
  <2>2. CASE i > Len(r)
    <3>1. x[i] = Tail(b)[i - Len(r)]
      BY <1>1, <2>2
    <3>2. y[i + 1] = b[i + 1 - Len(r)]
      BY <1>1, <2>2
    <3>3. i - Len(r) \in 1..Len(b) - 1
      BY <1>1, <2>2
    <3> QED BY <1>1, <1>2, <2>2, <3>1, <3>2, <3>3
  <2> QED BY <1>1, <2>1, <2>2
<1>4. y[Len(r) + 1] = Head(b) /\ Len(r) + 1 \in DOMAIN y
  BY <1>1, <1>2
<1>5. \A i \in DOMAIN y : y[i] \in Event
  BY <1>1
<1>6. \A i, j \in DOMAIN x : i < j => up(i) < up(j)
  BY <1>1, <1>2
<1>7. \A j \in DOMAIN y \ {Len(r) + 1} : \E i \in DOMAIN x : up(i) = j
  <2> SUFFICES ASSUME NEW j \in 1..Len(r) + Len(b), j # Len(r) + 1
               PROVE  \E i \in 1..Len(r) + Len(b) - 1 : up(i) = j
    BY <1>2
  <2>1. CASE j <= Len(r)
    BY <1>1, <2>1
  <2>2. CASE j > Len(r) + 1
    <3>1. j - 1 \in 1..Len(r) + Len(b) - 1 /\ up(j - 1) = j
      BY <1>1, <2>2
    <3> QED BY <3>1
  <2> QED BY <1>1, <2>1, <2>2
<1> HIDE DEF x, y, up
<1>8. Ordered(x)
  BY <1>3, <1>6 DEF Ordered, y
<1>9. Head(b) \notin Elements(x)
  <2> SUFFICES ASSUME NEW i \in DOMAIN x, x[i] = Head(b) PROVE FALSE
    BY DEF Elements
  <2>1. up(i) \in DOMAIN y /\ up(i) # Len(r) + 1 /\ y[up(i)] = y[Len(r) + 1]
    BY <1>3, <1>4
  <2>2. up(i) \in Int /\ Len(r) + 1 \in Int
    BY <1>1, <1>2, <2>1
  <2>3. y[Len(r) + 1].n \in Int
    BY <1>4, <1>5 DEF Event
  <2>4. Ordered(y)
    BY DEF y
  <2>5. up(i) < Len(r) + 1 \/ Len(r) + 1 < up(i)
    BY <2>1, <2>2
  <2>6. y[up(i)].n < y[Len(r) + 1].n \/ y[Len(r) + 1].n < y[up(i)].n
    BY <1>4, <2>1, <2>4, <2>5 DEF Ordered
  <2> QED BY <2>1, <2>3, <2>6
<1>10. Elements(y) = Elements(x) \cup {Head(b)}
  BY <1>3, <1>4, <1>7 DEF Elements
<1> QED BY <1>8, <1>9, <1>10 DEF x, y

(***************************************************************************)
(* Types, and what a publisher holds                                       *)
(***************************************************************************)
\* An idle publisher has nobody left to serve; one inside Publish holds the
\* last event it began, and the subscriber it is dropping for is still due.
Hand(p) ==
  /\ pub[p].step = "idle" => pub[p].todo = {}
  /\ pub[p].step # "idle" => /\ pub[p].ev \in Event
                             /\ pub[p].ev.from = p
                             /\ pub[p].ev.n = sent[p]
  /\ pub[p].todo \subseteq DOMAIN channel
  /\ pub[p].step \in {"drop", "resend"} => pub[p].to \in pub[p].todo
Hands == \A p \in Publishers : Hand(p)

TypeInv == TypeOK /\ Hands

LEMMA TypeInit == Init => TypeInv
<1> SUFFICES ASSUME Init PROVE TypeInv
  OBVIOUS
<1>1. Idle \in Publishing /\ Idle.step = "idle" /\ Idle.todo = {}
  BY DEF Idle, Publishing
<1>2. \A p \in Publishers : pub[p] = Idle
  BY DEF Init
<1>3. Hands
  BY <1>1, <1>2 DEF Hands, Hand
<1>4. subscribers = {} /\ DOMAIN channel = {} /\ channel \in [DOMAIN channel -> Channel]
  BY DEF Init
<1>5. /\ pub \in [Publishers -> Publishing]
      /\ sent \in [Publishers -> Nat]
      /\ received \in [Subscribers -> Seq(Event)]
      /\ owed \in [Subscribers -> SUBSET Event]
  BY <1>1 DEF Init
<1>6. dropped \in Nat /\ lost = {}
  BY DEF Init
<1> QED BY <1>3, <1>4, <1>5, <1>6 DEF TypeInv, TypeOK

\* p is through with s: what is left of its round.
LEMMA AdvanceType ==
  ASSUME TypeInv, NEW p \in Publishers, NEW s \in pub[p].todo, Advance(p, s),
         pub[p].step # "idle"
  PROVE  /\ pub' \in [Publishers -> Publishing]
         /\ \A q \in Publishers \ {p} : pub'[q] = pub[q]
         /\ pub'[p].todo = pub[p].todo \ {s}
         /\ \/ pub'[p] = Idle
            \/ pub'[p].step = "send" /\ pub'[p].ev = pub[p].ev
<1> DEFINE rest == pub[p].todo \ {s}
           x == [step |-> "send", ev |-> pub[p].ev, todo |-> rest, to |-> None]
<1>0. pub' = [pub EXCEPT ![p] = IF rest = {} THEN Idle ELSE x]
  BY DEF Advance
<1>1. pub[p] \in Publishing /\ pub \in [Publishers -> Publishing]
  BY DEF TypeInv, TypeOK
<1>2. Idle \in Publishing
  BY DEF Idle, Publishing
<1>3. CASE rest = {}
  <2>1. pub' = [pub EXCEPT ![p] = Idle]
    BY <1>0, <1>3
  <2>2. pub'[p] = Idle
    BY <1>1, <2>1
  <2>3. Idle.todo = {}
    BY DEF Idle
  <2> QED BY <1>1, <1>2, <1>3, <2>1, <2>2, <2>3
<1>4. CASE rest # {}
  <2>1. x \in Publishing /\ x.step = "send" /\ x.ev = pub[p].ev /\ x.todo = pub[p].todo \ {s}
    BY <1>1 DEF Publishing
  <2>2. pub' = [pub EXCEPT ![p] = x]
    BY <1>0, <1>4
  <2> HIDE DEF x
  <2> QED BY <1>1, <2>1, <2>2
<1> QED BY <1>3, <1>4

\* p puts its event into the channel of s.
LEMMA PutType ==
  ASSUME TypeInv, NEW p \in Publishers, NEW s \in pub[p].todo, Put(p, s),
         pub[p].step # "idle", ~Full(s)
  PROVE  /\ DOMAIN channel' = DOMAIN channel
         /\ channel' \in [DOMAIN channel' -> Channel]
         /\ channel'[s].buf = Append(channel[s].buf, pub[p].ev)
         /\ channel'[s].open = channel[s].open
         /\ \A x \in DOMAIN channel \ {s} : channel'[x] = channel[x]
         /\ \A x \in DOMAIN channel' : Len(channel'[x].buf) <= BufSize
<1>1. s \in DOMAIN channel /\ pub[p].ev \in Event
  BY DEF TypeInv, Hands, Hand
<1>2. channel[s] \in Channel /\ channel[s].buf \in Seq(Event) /\ Len(channel[s].buf) <= BufSize
  BY <1>1 DEF TypeInv, TypeOK, Channel
<1>3. Len(channel[s].buf) + 1 <= BufSize
  BY <1>2, BusAssumption DEF Full
<1>4. /\ Append(channel[s].buf, pub[p].ev) \in Seq(Event)
      /\ Len(Append(channel[s].buf, pub[p].ev)) = Len(channel[s].buf) + 1
  BY <1>1, <1>2
<1>5. [channel[s] EXCEPT !.buf = Append(@, pub[p].ev)] \in Channel
  BY <1>2, <1>4 DEF Channel
<1>6. /\ channel' = [channel EXCEPT ![s] = [channel[s] EXCEPT !.buf = Append(@, pub[p].ev)]]
      /\ channel \in [DOMAIN channel -> Channel]
      /\ \A x \in DOMAIN channel : Len(channel[x].buf) <= BufSize
  BY DEF Put, TypeInv, TypeOK
<1>7. channel'[s] = [channel[s] EXCEPT !.buf = Append(@, pub[p].ev)]
  BY <1>1, <1>6
<1>8. /\ channel'[s].buf = Append(channel[s].buf, pub[p].ev)
      /\ channel'[s].open = channel[s].open
  BY <1>2, <1>7 DEF Channel
<1>9. \A x \in DOMAIN channel \ {s} : channel'[x] = channel[x]
  BY <1>6
<1>10. DOMAIN channel' = DOMAIN channel /\ channel' \in [DOMAIN channel' -> Channel]
  BY <1>5, <1>6
<1>11. \A x \in DOMAIN channel' : Len(channel'[x].buf) <= BufSize
  <2>1. Len(channel'[s].buf) <= BufSize
    BY <1>3, <1>4, <1>8
  <2> QED BY <2>1, <1>6, <1>9, <1>10
<1> QED BY <1>8, <1>9, <1>10, <1>11

\* The oldest event of s leaves its channel.
LEMMA TakeType ==
  ASSUME TypeInv, NEW s \in DOMAIN channel, channel[s].buf # <<>>,
         channel' = [channel EXCEPT ![s].buf = Tail(@)]
  PROVE  /\ DOMAIN channel' = DOMAIN channel
         /\ channel' \in [DOMAIN channel' -> Channel]
         /\ channel[s].buf \in Seq(Event)
         /\ Head(channel[s].buf) \in Event
         /\ channel'[s].buf = Tail(channel[s].buf)
         /\ Len(channel'[s].buf) < BufSize
         /\ channel'[s].open = channel[s].open
         /\ \A x \in DOMAIN channel \ {s} : channel'[x] = channel[x]
         /\ \A x \in DOMAIN channel' : Len(channel'[x].buf) <= BufSize
<1>1. channel[s] \in Channel /\ channel[s].buf \in Seq(Event) /\ Len(channel[s].buf) <= BufSize
  BY DEF TypeInv, TypeOK, Channel
<1>2. /\ Tail(channel[s].buf) \in Seq(Event) /\ Head(channel[s].buf) \in Event
      /\ Len(Tail(channel[s].buf)) = Len(channel[s].buf) - 1
  BY <1>1, TailElements
<1>3. Len(channel[s].buf) \in Nat /\ BufSize \in Nat
  BY <1>1, BusAssumption
<1>4. [channel[s] EXCEPT !.buf = Tail(@)] \in Channel
  BY <1>1, <1>2 DEF Channel
<1>5. /\ channel' = [channel EXCEPT ![s] = [channel[s] EXCEPT !.buf = Tail(@)]]
      /\ channel \in [DOMAIN channel -> Channel]
      /\ \A x \in DOMAIN channel : Len(channel[x].buf) <= BufSize
  BY DEF TypeInv, TypeOK
<1>6. channel'[s] = [channel[s] EXCEPT !.buf = Tail(@)]
  BY <1>5
<1>7. channel'[s].buf = Tail(channel[s].buf) /\ channel'[s].open = channel[s].open
  BY <1>1, <1>6 DEF Channel
<1>8. \A x \in DOMAIN channel \ {s} : channel'[x] = channel[x]
  BY <1>5
<1>9. DOMAIN channel' = DOMAIN channel /\ channel' \in [DOMAIN channel' -> Channel]
  BY <1>4, <1>5
<1>10. Len(channel'[s].buf) < BufSize
  <2>1. Len(channel'[s].buf) = Len(channel[s].buf) - 1
    BY <1>2, <1>7
  <2> QED BY <2>1, <1>1, <1>3
<1>11. \A x \in DOMAIN channel' : Len(channel'[x].buf) <= BufSize
  BY <1>3, <1>2, <1>5, <1>7, <1>8, <1>9, <1>10
<1> QED BY <1>1, <1>2, <1>7, <1>8, <1>9, <1>10, <1>11

\* The publishers a step does not move keep what they hold.
LEMMA HandsKept ==
  ASSUME Hands, NEW Q \in SUBSET Publishers,
         \A q \in Q : pub'[q] = pub[q] /\ sent'[q] = sent[q],
         DOMAIN channel \subseteq DOMAIN channel'
  PROVE  \A q \in Q : Hand(q)'
BY DEF Hands, Hand

LEMMA TypeSubscribe ==
  ASSUME TypeInv, NEW s \in Subscribers, NEW filter \in Filters, Subscribe(s, filter)
  PROVE  TypeInv'
<1> DEFINE new == [filter |-> filter, open |-> TRUE, buf |-> <<>>]
<1>1. new \in Channel /\ Len(new.buf) = 0
  BY DEF Channel
<1>2. /\ channel' = [x \in DOMAIN channel \cup {s} |-> IF x = s THEN new ELSE channel[x]]
      /\ subscribers' = subscribers \cup {s}
  BY DEF Subscribe
<1>3. channel \in [DOMAIN channel -> Channel] /\ \A x \in DOMAIN channel : Len(channel[x].buf) <= BufSize
  BY DEF TypeInv, TypeOK
<1> HIDE DEF new
<1>4. DOMAIN channel' = DOMAIN channel \cup {s} /\ channel' \in [DOMAIN channel' -> Channel]
  BY <1>1, <1>2, <1>3
<1>5. \A x \in DOMAIN channel' : Len(channel'[x].buf) <= BufSize
  BY <1>1, <1>2, <1>3, BusAssumption
<1>6. UNCHANGED <<dropped, pub, sent, received, lost, owed>>
  BY DEF Subscribe
<1>7. Hands'
  BY <1>4, <1>6, HandsKept DEF TypeInv, Hands
<1> QED BY <1>2, <1>4, <1>5, <1>6, <1>7 DEF TypeInv, TypeOK

LEMMA TypeUnsubscribe ==
  ASSUME TypeInv, NEW s \in Subscribers, Unsubscribe(s)
  PROVE  TypeInv'
<1>1. s \in DOMAIN channel /\ channel[s] \in Channel
  BY DEF TypeInv, TypeOK, Unsubscribe
<1>2. /\ [channel[s] EXCEPT !.open = FALSE] \in Channel
      /\ [channel[s] EXCEPT !.open = FALSE].buf = channel[s].buf
  BY <1>1 DEF Channel
<1>3. /\ channel' = [channel EXCEPT ![s] = [channel[s] EXCEPT !.open = FALSE]]
      /\ subscribers' = subscribers \ {s}
      /\ UNCHANGED <<dropped, pub, sent, received, lost, owed>>
  BY DEF Unsubscribe
<1>4. channel \in [DOMAIN channel -> Channel] /\ \A x \in DOMAIN channel : Len(channel[x].buf) <= BufSize
  BY DEF TypeInv, TypeOK
<1>5. DOMAIN channel' = DOMAIN channel /\ channel' \in [DOMAIN channel' -> Channel]
  BY <1>2, <1>3, <1>4
<1>6. \A x \in DOMAIN channel' : channel'[x].buf = channel[x].buf
  BY <1>2, <1>3, <1>5
<1>7. Hands'
  BY <1>3, <1>5, HandsKept DEF TypeInv, Hands
<1> QED BY <1>3, <1>4, <1>5, <1>6, <1>7 DEF TypeInv, TypeOK

LEMMA TypeReceive ==
  ASSUME TypeInv, NEW s \in Subscribers, Receive(s)
  PROVE  TypeInv'
<1>1. /\ s \in DOMAIN channel /\ channel[s].buf # <<>>
      /\ channel' = [channel EXCEPT ![s].buf = Tail(@)]
      /\ UNCHANGED <<subscribers, dropped, pub, sent, lost, owed>>
      /\ received' = [received EXCEPT ![s] = Append(@, Head(channel[s].buf))]
  BY DEF Receive
<1>2. /\ DOMAIN channel' = DOMAIN channel
      /\ channel' \in [DOMAIN channel' -> Channel]
      /\ Head(channel[s].buf) \in Event
      /\ \A x \in DOMAIN channel' : Len(channel'[x].buf) <= BufSize
  BY <1>1, TakeType
<1>3. received \in [Subscribers -> Seq(Event)]
  BY DEF TypeInv, TypeOK
<1>4. received' \in [Subscribers -> Seq(Event)]
  BY <1>1, <1>2, <1>3, AppendElements
<1>5. Hands'
  BY <1>1, <1>2, HandsKept DEF TypeInv, Hands
<1> QED BY <1>1, <1>2, <1>4, <1>5 DEF TypeInv, TypeOK

LEMMA TypeBegin ==
  ASSUME TypeInv, NEW p \in Publishers, NEW run \in Runs, Begin(p, run)
  PROVE  TypeInv'
<1> DEFINE ev == [from |-> p, n |-> sent[p] + 1, run |-> run]
           todo == {s \in subscribers : Match(channel[s].filter, ev)}
           busy == [step |-> "send", ev |-> ev, todo |-> todo, to |-> None]
<1>1. /\ pub' = [pub EXCEPT ![p] = IF todo = {} THEN Idle ELSE busy]
      /\ owed' = [s \in Subscribers |-> IF s \in todo THEN owed[s] \cup {ev} ELSE owed[s]]
      /\ sent' = [sent EXCEPT ![p] = @ + 1]
      /\ UNCHANGED <<subscribers, channel, dropped, received, lost>>
  BY DEF Begin
<1>2. sent \in [Publishers -> Nat] /\ sent[p] \in Nat
  BY DEF TypeInv, TypeOK
<1>3. ev \in Event /\ ev.from = p /\ ev.n = sent[p] + 1
  BY <1>2 DEF Event
<1>4. todo \subseteq DOMAIN channel /\ todo \subseteq Subscribers
  BY DEF TypeInv, TypeOK
<1> HIDE DEF ev, todo
<1>5. /\ busy \in Publishing /\ busy.step = "send" /\ busy.ev = ev /\ busy.todo = todo
      /\ Idle \in Publishing /\ Idle.step = "idle" /\ Idle.todo = {}
  BY <1>3, <1>4 DEF Publishing, Idle
<1> HIDE DEF busy
<1>6. pub \in [Publishers -> Publishing] /\ owed \in [Subscribers -> SUBSET Event]
  BY DEF TypeInv, TypeOK
<1>7. pub' \in [Publishers -> Publishing]
  BY <1>1, <1>5, <1>6
<1>8. owed' \in [Subscribers -> SUBSET Event] /\ sent' \in [Publishers -> Nat]
  BY <1>1, <1>2, <1>3, <1>6
<1>9. \A q \in Publishers \ {p} : Hand(q)'
  <2>1. \A q \in Publishers \ {p} : pub'[q] = pub[q] /\ sent'[q] = sent[q]
    BY <1>1, <1>2, <1>6
  <2> QED BY <1>1, <2>1, HandsKept DEF TypeInv
<1>10. Hand(p)'
  <2>1. sent'[p] = sent[p] + 1 /\ channel' = channel
    BY <1>1, <1>2
  <2>2. pub'[p] = (IF todo = {} THEN Idle ELSE busy)
    BY <1>1, <1>6
  <2> QED BY <1>3, <1>4, <1>5, <2>1, <2>2 DEF Hand
<1>11. Hands'
  BY <1>9, <1>10 DEF Hands
<1>12. TypeOK'
  BY <1>1, <1>7, <1>8 DEF TypeInv, TypeOK
<1> QED BY <1>11, <1>12 DEF TypeInv

\* p stays in its round and only moves to another place of it.
LEMMA MoveType ==
  ASSUME TypeInv, NEW p \in Publishers, pub[p].step # "idle",
         NEW step \in {"send", "drop", "resend", "dead"},
         NEW to \in Subscribers \cup {None},
         step \in {"drop", "resend"} => to \in pub[p].todo,
         pub' = [pub EXCEPT ![p] = [@ EXCEPT !.step = step, !.to = to]],
         sent' = sent, DOMAIN channel' = DOMAIN channel
  PROVE  /\ pub' \in [Publishers -> Publishing]
         /\ pub'[p].todo = pub[p].todo
         /\ pub'[p].ev = pub[p].ev
         /\ pub'[p].step = step
         /\ pub'[p].to = to
         /\ \A q \in Publishers \ {p} : pub'[q] = pub[q]
         /\ Hands'
<1> DEFINE x == [pub[p] EXCEPT !.step = step, !.to = to]
<1>1. pub[p] \in Publishing /\ pub \in [Publishers -> Publishing]
  BY DEF TypeInv, TypeOK
<1>2. /\ x \in Publishing /\ x.step = step /\ x.to = to
      /\ x.ev = pub[p].ev /\ x.todo = pub[p].todo
  BY <1>1 DEF Publishing
<1>3. pub' = [pub EXCEPT ![p] = x]
  OBVIOUS
<1> HIDE DEF x
<1>4. pub' \in [Publishers -> Publishing] /\ pub'[p] = x
  BY <1>1, <1>2, <1>3
<1>5. \A q \in Publishers \ {p} : pub'[q] = pub[q]
  BY <1>1, <1>3
<1>6. \A q \in Publishers \ {p} : Hand(q)'
  BY <1>5, HandsKept DEF TypeInv
<1>7. Hand(p)'
  BY <1>2, <1>4 DEF TypeInv, Hands, Hand
<1> QED BY <1>2, <1>4, <1>5, <1>6, <1>7 DEF Hands

\* p is through with s and keeps its hands in order.
LEMMA AdvanceHands ==
  ASSUME TypeInv, NEW p \in Publishers, NEW s \in pub[p].todo, Advance(p, s),
         pub[p].step # "idle", sent' = sent, DOMAIN channel' = DOMAIN channel
  PROVE  Hands'
<1>1. /\ \A q \in Publishers \ {p} : pub'[q] = pub[q]
      /\ pub'[p].todo = pub[p].todo \ {s}
      /\ \/ pub'[p] = Idle
         \/ pub'[p].step = "send" /\ pub'[p].ev = pub[p].ev
  BY AdvanceType
<1>2. \A q \in Publishers \ {p} : Hand(q)'
  BY <1>1, HandsKept DEF TypeInv
<1>3. Hand(p)'
  BY <1>1 DEF TypeInv, Hands, Hand, Idle
<1> QED BY <1>2, <1>3 DEF Hands

LEMMA PanicMoves ==
  ASSUME TypeInv, NEW p \in Publishers, Panic(p)
  PROVE  /\ pub' = [pub EXCEPT ![p] = [@ EXCEPT !.step = "dead", !.to = pub[p].to]]
         /\ pub[p].to \in Subscribers \cup {None}
BY DEF TypeInv, TypeOK, Panic, Publishing

LEMMA ResendingMoves ==
  ASSUME TypeInv, NEW p \in Publishers, Resending(p)
  PROVE  /\ pub' = [pub EXCEPT ![p] = [@ EXCEPT !.step = "resend", !.to = pub[p].to]]
         /\ pub[p].to \in Subscribers \cup {None}
BY DEF TypeInv, TypeOK, Resending, Publishing

(***************************************************************************)
(* What a step does to the accounts                                        *)
(***************************************************************************)
\* The four things a step of a publisher can do, in terms of the streams, the
\* lost events and the subscribers it still has to serve.
Elsewhere(s) == \A x \in Subscribers \ {s} : Stream(x)' = Stream(x)
SameStreams == \A x \in Subscribers : Stream(x)' = Stream(x)
Keeps(q) == pub'[q].todo = pub[q].todo /\ pub'[q].ev = pub[q].ev
Sheds(p, s) ==
  /\ s \in pub[p].todo
  /\ pub'[p].todo = pub[p].todo \ {s}
  /\ pub'[p].todo # {} => pub'[p].ev = pub[p].ev
  /\ \A q \in Publishers \ {p} : Keeps(q)

Quiet ==
  /\ SameStreams
  /\ \A q \in Publishers : Keeps(q)
  /\ UNCHANGED <<sent, lost, owed>>

Delivers(p, s) ==
  /\ Stream(s) \in Seq(Event) /\ Stream(s)' = Append(Stream(s), pub[p].ev)
  /\ Elsewhere(s)
  /\ Sheds(p, s)
  /\ UNCHANGED <<sent, lost, owed>>

Refuses(p, s) ==
  /\ SameStreams
  /\ Sheds(p, s)
  /\ lost' = lost \cup {<<s, pub[p].ev>>}
  /\ UNCHANGED <<sent, owed>>

Displaces(s) ==
  \E r, b \in Seq(Event) :
    /\ b # <<>>
    /\ Stream(s) = r \o b /\ Stream(s)' = r \o Tail(b)
    /\ Elsewhere(s)
    /\ \A q \in Publishers : Keeps(q)
    /\ lost' = lost \cup {<<s, Head(b)>>}
    /\ UNCHANGED <<sent, owed>>

Begins(p, run) ==
  LET ev == [from |-> p, n |-> sent[p] + 1, run |-> run]
  IN /\ SameStreams
     /\ pub[p].todo = {}
     /\ pub'[p].todo # {} => pub'[p].ev = ev
     /\ \A q \in Publishers \ {p} : Keeps(q)
     /\ \A s \in Subscribers :
          owed'[s] = IF s \in pub'[p].todo THEN owed[s] \cup {ev} ELSE owed[s]
     /\ sent' = [sent EXCEPT ![p] = @ + 1]
     /\ lost' = lost

\* What is in a stream only depends on what was received and what waits.
LEMMA StreamIs ==
  ASSUME TypeOK, NEW s \in DOMAIN channel
  PROVE  /\ Stream(s) = received[s] \o channel[s].buf
         /\ s \in Subscribers
         /\ received[s] \in Seq(Event)
         /\ channel[s].buf \in Seq(Event)
         /\ Stream(s) \in Seq(Event)
<1>1. s \in Subscribers /\ channel[s] \in Channel /\ received[s] \in Seq(Event)
  BY DEF TypeOK
<1> QED BY <1>1 DEF Stream, Channel

LEMMA SameStream ==
  ASSUME NEW s \in Subscribers, received'[s] = received[s],
         s \in DOMAIN channel <=> s \in DOMAIN channel',
         s \in DOMAIN channel => channel'[s].buf = channel[s].buf
  PROVE  Stream(s)' = Stream(s)
BY DEF Stream

LEMMA DeliverStep ==
  ASSUME TypeInv, NEW p \in Publishers, NEW s \in pub[p].todo,
         pub[p].step # "idle", ~Full(s), Put(p, s), Advance(p, s),
         UNCHANGED <<subscribers, dropped, sent, received, lost, owed>>
  PROVE  TypeInv' /\ Delivers(p, s)
<1>1. /\ DOMAIN channel' = DOMAIN channel
      /\ channel' \in [DOMAIN channel' -> Channel]
      /\ channel'[s].buf = Append(channel[s].buf, pub[p].ev)
      /\ \A x \in DOMAIN channel \ {s} : channel'[x] = channel[x]
      /\ \A x \in DOMAIN channel' : Len(channel'[x].buf) <= BufSize
  BY PutType
<1>2. /\ pub' \in [Publishers -> Publishing]
      /\ \A q \in Publishers \ {p} : pub'[q] = pub[q]
      /\ pub'[p].todo = pub[p].todo \ {s}
      /\ \/ pub'[p] = Idle
         \/ pub'[p].step = "send" /\ pub'[p].ev = pub[p].ev
  BY AdvanceType
<1>3. Hands'
  BY <1>1, AdvanceHands
<1>4. TypeOK'
  BY <1>1, <1>2 DEF TypeInv, TypeOK
<1>5. s \in DOMAIN channel /\ pub[p].ev \in Event
  BY DEF TypeInv, Hands, Hand
<1>6. Sheds(p, s)
  BY <1>2 DEF Sheds, Keeps, Idle
<1>7. Elsewhere(s)
  BY <1>1, SameStream DEF Elsewhere
<1>8. /\ Stream(s) = received[s] \o channel[s].buf /\ Stream(s) \in Seq(Event)
      /\ received[s] \in Seq(Event) /\ channel[s].buf \in Seq(Event)
      /\ s \in Subscribers
  BY <1>5, StreamIs DEF TypeInv
<1>9. Stream(s)' = received[s] \o Append(channel[s].buf, pub[p].ev)
  BY <1>1, <1>5 DEF Stream
<1>10. received[s] \o Append(channel[s].buf, pub[p].ev)
         = Append(received[s] \o channel[s].buf, pub[p].ev)
  <2>1. \A r, b \in Seq(Event), e \in Event : r \o Append(b, e) = Append(r \o b, e)
    BY AppendConcat
  <2> QED BY <1>5, <1>8, <2>1, Zenon
<1>11. Stream(s)' = Append(Stream(s), pub[p].ev)
  BY <1>8, <1>9, <1>10
<1> QED BY <1>3, <1>4, <1>6, <1>7, <1>8, <1>11 DEF TypeInv, Delivers

\* Nothing but p's place changes.
LEMMA MoveStep ==
  ASSUME TypeInv, NEW p \in Publishers, pub[p].step # "idle",
         NEW step \in {"send", "drop", "resend", "dead"},
         NEW to \in Subscribers \cup {None},
         step \in {"drop", "resend"} => to \in pub[p].todo,
         pub' = [pub EXCEPT ![p] = [@ EXCEPT !.step = step, !.to = to]],
         dropped' \in Nat,
         UNCHANGED <<subscribers, channel, sent, received, lost, owed>>
  PROVE  TypeInv' /\ Quiet
<1>1. /\ pub' \in [Publishers -> Publishing]
      /\ pub'[p].todo = pub[p].todo
      /\ pub'[p].ev = pub[p].ev
      /\ \A q \in Publishers \ {p} : pub'[q] = pub[q]
      /\ Hands'
  BY MoveType
<1>2. TypeOK'
  BY <1>1 DEF TypeInv, TypeOK
<1>3. SameStreams
  BY SameStream DEF SameStreams
<1> QED BY <1>1, <1>2, <1>3 DEF TypeInv, Quiet, Keeps

LEMMA SendStep ==
  ASSUME TypeInv, NEW p \in Publishers, NEW s \in Subscribers, Send(p, s)
  PROVE  TypeInv' /\ (Quiet \/ Delivers(p, s))
<1>1. /\ pub[p].step = "send" /\ s \in pub[p].todo
      /\ UNCHANGED <<subscribers, dropped, sent, received, lost, owed>>
  BY DEF Send
<1>2. dropped' \in Nat
  BY <1>1 DEF TypeInv, TypeOK
<1>3. CASE Panic(p) /\ UNCHANGED channel
  BY <1>1, <1>2, <1>3, PanicMoves, MoveStep
<1>4. CASE ~Full(s) /\ Put(p, s) /\ Advance(p, s)
  <2>1. pub[p].step # "idle" /\ UNCHANGED <<subscribers, dropped, sent, received, lost, owed>>
    BY <1>1
  <2> QED BY <1>1, <1>4, <2>1, DeliverStep
<1>5. CASE /\ pub' = [pub EXCEPT ![p].step = "drop", ![p].to = s]
           /\ UNCHANGED channel
  <2>1. pub' = [pub EXCEPT ![p] = [@ EXCEPT !.step = "drop", !.to = s]]
    BY <1>5 DEF TypeInv, TypeOK, Publishing
  <2> QED BY <1>1, <1>2, <1>5, <2>1, MoveStep
<1> QED BY <1>3, <1>4, <1>5 DEF Send

LEMMA DropStep ==
  ASSUME TypeInv, NEW p \in Publishers, NEW s, s = pub[p].to, Drop(p)
  PROVE  /\ TypeInv'
         /\ s \in pub[p].todo
         /\ Quiet \/ Displaces(s)
<1>1. /\ pub[p].step = "drop" /\ Resending(p)
      /\ UNCHANGED <<subscribers, sent, received, owed>>
  BY DEF Drop
<1>2. s \in pub[p].todo /\ s \in DOMAIN channel /\ s \in Subscribers
  BY <1>1 DEF TypeInv, TypeOK, Hands, Hand
<1>3. /\ pub' = [pub EXCEPT ![p] = [@ EXCEPT !.step = "resend", !.to = s]]
      /\ s \in Subscribers \cup {None}
  BY <1>1, ResendingMoves
<1>4. dropped \in Nat /\ dropped + 1 \in Nat
  BY DEF TypeInv, TypeOK
<1>5. CASE /\ channel[s].buf # <<>>
           /\ lost' = lost \cup {<<s, Head(channel[s].buf)>>}
           /\ channel' = [channel EXCEPT ![s].buf = Tail(@)]
           /\ dropped' = dropped + 1
  <2>1. /\ DOMAIN channel' = DOMAIN channel
        /\ channel' \in [DOMAIN channel' -> Channel]
        /\ channel[s].buf \in Seq(Event)
        /\ Head(channel[s].buf) \in Event
        /\ channel'[s].buf = Tail(channel[s].buf)
        /\ \A x \in DOMAIN channel \ {s} : channel'[x] = channel[x]
        /\ \A x \in DOMAIN channel' : Len(channel'[x].buf) <= BufSize
    BY <1>2, <1>5, TakeType
  <2>2. /\ pub' \in [Publishers -> Publishing]
        /\ pub'[p].todo = pub[p].todo
        /\ pub'[p].ev = pub[p].ev
        /\ \A q \in Publishers \ {p} : pub'[q] = pub[q]
        /\ Hands'
    BY <1>1, <1>2, <1>3, <2>1, MoveType
  <2>3. TypeOK'
    BY <1>1, <1>2, <1>4, <1>5, <2>1, <2>2 DEF TypeInv, TypeOK
  <2>4. /\ Stream(s) = received[s] \o channel[s].buf
        /\ received[s] \in Seq(Event)
    BY <1>2, StreamIs DEF TypeInv
  <2>5. Stream(s)' = received[s] \o Tail(channel[s].buf)
    BY <1>1, <1>2, <2>1 DEF Stream
  <2>6. Elsewhere(s)
    BY <1>1, <2>1, SameStream DEF Elsewhere
  <2>7. \A q \in Publishers : Keeps(q)
    BY <2>2 DEF Keeps
  <2>8. Displaces(s)
    BY <1>1, <1>5, <2>1, <2>4, <2>5, <2>6, <2>7 DEF Displaces
  <2> QED BY <1>2, <2>2, <2>3, <2>8 DEF TypeInv
<1>6. CASE dropped' \in {dropped, dropped + 1} /\ UNCHANGED <<channel, lost>>
  <2>1. dropped' \in Nat
    BY <1>4, <1>6
  <2>2. TypeInv' /\ Quiet
    BY <1>1, <1>2, <1>3, <1>6, <2>1, MoveStep
  <2> QED BY <1>2, <2>2
<1> QED BY <1>5, <1>6 DEF Drop, Count

LEMMA ResendStep ==
  ASSUME TypeInv, NEW p \in Publishers, NEW s, s = pub[p].to, Resend(p)
  PROVE  /\ TypeInv'
         /\ s \in pub[p].todo
         /\ Quiet \/ Delivers(p, s) \/ Refuses(p, s)
<1>1. /\ pub[p].step = "resend"
      /\ UNCHANGED <<subscribers, sent, received, owed>>
  BY DEF Resend
<1>2. s \in pub[p].todo /\ s \in DOMAIN channel /\ s \in Subscribers /\ pub[p].ev \in Event
  BY <1>1 DEF TypeInv, TypeOK, Hands, Hand
<1>3. dropped \in Nat /\ dropped + 1 \in Nat
  BY DEF TypeInv, TypeOK
<1>4. CASE Panic(p) /\ UNCHANGED <<channel, dropped, lost>>
  <2>1. TypeInv' /\ Quiet
    BY <1>1, <1>3, <1>4, PanicMoves, MoveStep
  <2> QED BY <1>2, <2>1
<1>5. CASE ~Full(s) /\ Put(p, s) /\ Advance(p, s) /\ UNCHANGED <<dropped, lost>>
  <2>0. pub[p].step # "idle" /\ UNCHANGED <<subscribers, dropped, sent, received, lost, owed>>
    BY <1>1, <1>5
  <2>1. TypeInv' /\ Delivers(p, s)
    BY <1>2, <1>5, <2>0, DeliverStep
  <2> QED BY <1>2, <2>1
<1>6. CASE /\ Advance(p, s)
           /\ dropped' = dropped + 1
           /\ lost' = lost \cup {<<s, pub[p].ev>>}
           /\ UNCHANGED channel
  <2>1. /\ pub' \in [Publishers -> Publishing]
        /\ \A q \in Publishers \ {p} : pub'[q] = pub[q]
        /\ pub'[p].todo = pub[p].todo \ {s}
        /\ \/ pub'[p] = Idle
           \/ pub'[p].step = "send" /\ pub'[p].ev = pub[p].ev
    BY <1>1, <1>2, <1>6, AdvanceType
  <2>2. Hands'
    BY <1>1, <1>2, <1>6, AdvanceHands
  <2>3. TypeOK'
    BY <1>1, <1>2, <1>3, <1>6, <2>1 DEF TypeInv, TypeOK
  <2>4. Sheds(p, s)
    BY <1>2, <2>1 DEF Sheds, Keeps, Idle
  <2>5. SameStreams
    BY <1>1, <1>6, SameStream DEF SameStreams
  <2> QED BY <1>1, <1>2, <1>6, <2>2, <2>3, <2>4, <2>5 DEF TypeInv, Refuses
<1> QED BY <1>4, <1>5, <1>6 DEF Resend, Count

LEMMA QuietSteps ==
  ASSUME TypeInv, NEW s \in Subscribers,
         \/ \E filter \in Filters : Subscribe(s, filter)
         \/ Unsubscribe(s)
         \/ Receive(s)
  PROVE  TypeInv' /\ Quiet
<1>1. ASSUME NEW filter \in Filters, Subscribe(s, filter) PROVE TypeInv' /\ Quiet
  <2>1. /\ s \notin DOMAIN channel
        /\ channel' = [x \in DOMAIN channel \cup {s} |->
                         IF x = s THEN [filter |-> filter, open |-> TRUE, buf |-> <<>>]
                         ELSE channel[x]]
        /\ UNCHANGED <<dropped, pub, sent, received, lost, owed>>
    BY <1>1 DEF Subscribe
  <2>2. ASSUME NEW x \in Subscribers \ {s} PROVE Stream(x)' = Stream(x)
    BY <2>1, SameStream
  <2>3. Stream(s)' = Stream(s)
    BY <2>1 DEF Stream
  <2> QED BY <1>1, <2>1, <2>2, <2>3, TypeSubscribe DEF Quiet, SameStreams, Keeps
<1>2. ASSUME Unsubscribe(s) PROVE TypeInv' /\ Quiet
  <2>1. /\ s \in DOMAIN channel /\ channel[s] \in Channel
        /\ channel' = [channel EXCEPT ![s] = [channel[s] EXCEPT !.open = FALSE]]
        /\ UNCHANGED <<dropped, pub, sent, received, lost, owed>>
    BY <1>2 DEF Unsubscribe, TypeInv, TypeOK
  <2>2. [channel[s] EXCEPT !.open = FALSE].buf = channel[s].buf
    BY <2>1 DEF Channel
  <2>3. \A x \in Subscribers : Stream(x)' = Stream(x)
    BY <2>1, <2>2, SameStream
  <2> QED BY <1>2, <2>1, <2>3, TypeUnsubscribe DEF Quiet, SameStreams, Keeps
<1>3. ASSUME Receive(s) PROVE TypeInv' /\ Quiet
  <2>1. /\ s \in DOMAIN channel /\ channel[s].buf # <<>>
        /\ channel' = [channel EXCEPT ![s].buf = Tail(@)]
        /\ received' = [received EXCEPT ![s] = Append(@, Head(channel[s].buf))]
        /\ UNCHANGED <<dropped, pub, sent, lost, owed>>
    BY <1>3 DEF Receive
  <2>2. /\ DOMAIN channel' = DOMAIN channel
        /\ channel'[s].buf = Tail(channel[s].buf)
        /\ \A x \in DOMAIN channel \ {s} : channel'[x] = channel[x]
    BY <2>1, TakeType
  <2>3. /\ received \in [Subscribers -> Seq(Event)]
        /\ Stream(s) = received[s] \o channel[s].buf
        /\ received[s] \in Seq(Event) /\ channel[s].buf \in Seq(Event)
    BY <2>1, StreamIs DEF TypeInv, TypeOK
  <2>4. Stream(s)' = Append(received[s], Head(channel[s].buf)) \o Tail(channel[s].buf)
    BY <2>1, <2>2, <2>3 DEF Stream
  <2>5. Stream(s)' = Stream(s)
    <3>1. \A r, b \in Seq(Event) : b # <<>> => Append(r, Head(b)) \o Tail(b) = r \o b
      BY MoveHead
    <3>2. Append(received[s], Head(channel[s].buf)) \o Tail(channel[s].buf)
            = received[s] \o channel[s].buf
      BY <2>1, <2>3, <3>1, Zenon
    <3> QED BY <2>3, <2>4, <3>2
  <2>6. ASSUME NEW x \in Subscribers \ {s} PROVE Stream(x)' = Stream(x)
    BY <2>1, <2>2, <2>3, SameStream
  <2> QED BY <1>3, <2>1, <2>5, <2>6, TypeReceive DEF Quiet, SameStreams, Keeps
<1> QED BY <1>1, <1>2, <1>3

LEMMA BeginStep ==
  ASSUME TypeInv, NEW p \in Publishers, NEW run \in Runs, Begin(p, run)
  PROVE  TypeInv' /\ Begins(p, run)
<1> DEFINE ev == [from |-> p, n |-> sent[p] + 1, run |-> run]
           todo == {s \in subscribers : Match(channel[s].filter, ev)}
           busy == [step |-> "send", ev |-> ev, todo |-> todo, to |-> None]
<1>1. /\ pub[p].step = "idle"
      /\ pub' = [pub EXCEPT ![p] = IF todo = {} THEN Idle ELSE busy]
      /\ owed' = [s \in Subscribers |-> IF s \in todo THEN owed[s] \cup {ev} ELSE owed[s]]
      /\ sent' = [sent EXCEPT ![p] = @ + 1]
      /\ UNCHANGED <<subscribers, channel, dropped, received, lost>>
  BY DEF Begin
<1>2. pub \in [Publishers -> Publishing] /\ pub[p].todo = {}
  BY <1>1 DEF TypeInv, TypeOK, Hands, Hand
<1>3. busy.ev = ev /\ busy.todo = todo /\ Idle.todo = {}
  BY DEF Idle
<1>4. SameStreams
  BY <1>1, SameStream DEF SameStreams
<1> HIDE DEF ev, todo, busy
<1>5. /\ pub'[p] = IF todo = {} THEN Idle ELSE busy
      /\ \A q \in Publishers \ {p} : pub'[q] = pub[q]
  BY <1>1, <1>2
<1>6. pub'[p].todo = todo /\ (todo # {} => pub'[p].ev = ev)
  BY <1>3, <1>5
<1>7. \A s \in Subscribers : owed'[s] = IF s \in pub'[p].todo THEN owed[s] \cup {ev} ELSE owed[s]
  BY <1>1, <1>6
<1>8. \A q \in Publishers \ {p} : Keeps(q)
  BY <1>5 DEF Keeps
<1>9. TypeInv'
  BY TypeBegin
<1> QED BY <1>1, <1>2, <1>4, <1>6, <1>7, <1>8, <1>9 DEF Begins, ev

\* Every step keeps the types and does one of five things to the accounts.
LEMMA StepShapes ==
  ASSUME TypeInv, [Next]_vars
  PROVE  /\ TypeInv'
         /\ \/ Quiet
            \/ \E p \in Publishers : \E s \in Subscribers : Delivers(p, s) \/ Refuses(p, s)
            \/ \E s \in Subscribers : Displaces(s)
            \/ \E p \in Publishers : \E run \in Runs : Begins(p, run)
<1>0. \A p \in Publishers : pub[p].todo \subseteq Subscribers
  BY DEF TypeInv, TypeOK, Publishing
<1>1. CASE UNCHANGED vars
  <2>1. TypeInv'
    BY <1>1 DEF vars, TypeInv, TypeOK, Hands, Hand
  <2>2. SameStreams
    BY <1>1, SameStream DEF vars, SameStreams
  <2> QED BY <1>1, <2>1, <2>2 DEF vars, Quiet, Keeps
<1>2. CASE \E s \in Subscribers, filter \in Filters : Subscribe(s, filter)
  BY <1>2, QuietSteps
<1>3. CASE \E s \in Subscribers : Unsubscribe(s) \/ Receive(s)
  BY <1>3, QuietSteps
<1>4. CASE \E p \in Publishers, run \in Runs : Begin(p, run)
  BY <1>4, BeginStep
<1>5. ASSUME NEW p \in Publishers, NEW s \in Subscribers, Send(p, s)
      PROVE  TypeInv' /\ (Quiet \/ Delivers(p, s))
  BY <1>5, SendStep
<1>6. ASSUME NEW p \in Publishers, Drop(p)
      PROVE  TypeInv' /\ (Quiet \/ \E s \in Subscribers : Displaces(s))
  <2>1. PICK s : s = pub[p].to
    OBVIOUS
  <2> QED BY <1>0, <1>6, <2>1, DropStep
<1>7. ASSUME NEW p \in Publishers, Resend(p)
      PROVE  TypeInv' /\ (Quiet \/ \E s \in Subscribers : Delivers(p, s) \/ Refuses(p, s))
  <2>1. PICK s : s = pub[p].to
    OBVIOUS
  <2>2. s \in pub[p].todo /\ TypeInv' /\ (Quiet \/ Delivers(p, s) \/ Refuses(p, s))
    BY <1>7, <2>1, ResendStep
  <2> QED BY <1>0, <2>2
<1> QED BY <1>1, <1>2, <1>3, <1>4, <1>5, <1>6, <1>7 DEF Next, PublishStep

\* The types hold: in particular no buffer ever holds more than BufSize
\* events, and a publisher inside Publish holds the last event it began.
THEOREM BusTypeCorrect == Spec => []TypeOK
<1>1. Init => TypeInv
  BY TypeInit
<1>2. TypeInv /\ [Next]_vars => TypeInv'
  BY StepShapes
<1>3. TypeInv => TypeOK
  BY DEF TypeInv
<1> QED BY <1>1, <1>2, <1>3, PTL DEF Spec

(***************************************************************************)
(* Where every event is                                                    *)
(***************************************************************************)
\* The account of one subscriber: EachOnce and PublisherOrder, and what makes
\* them inductive.  What s is owed has been begun, and what p still holds for
\* s is newer than everything of p that s has met.
Account(s) ==
  LET met == Elements(Stream(s)) \cup LostTo(s)
  IN /\ owed[s] = met \cup InHand(s)
     /\ Elements(Stream(s)) \cap LostTo(s) = {}
     /\ InHand(s) \cap met = {}
     /\ Ordered(Stream(s))
     /\ \A e \in owed[s] : e.n <= sent[e.from]
     /\ \A p \in Publishers : s \in pub[p].todo =>
          \A e \in met : e.from = p => e.n < pub[p].ev.n

Accounts == \A s \in Subscribers : Account(s)

LEMMA AccountsInit == Init => Accounts
<1> SUFFICES ASSUME Init, NEW s \in Subscribers PROVE Account(s)
  BY DEF Accounts
<1>1. Stream(s) = <<>>
  BY DEF Init, Stream
<1>2. Elements(<<>>) = {} /\ Ordered(<<>>)
  BY DEF Elements, Ordered
<1>3. LostTo(s) = {} /\ owed[s] = {}
  BY DEF Init, LostTo
<1>4. InHand(s) = {}
  BY DEF Init, InHand, Idle
<1> QED BY <1>1, <1>2, <1>3, <1>4 DEF Account

\* Everything ever owed is an event.
LEMMA Owing ==
  ASSUME TypeInv, NEW s \in Subscribers
  PROVE  \A e \in owed[s] : e \in Event /\ e.from \in Publishers /\ e.n \in Nat
BY DEF TypeInv, TypeOK, Event

\* A subscriber whose stream, losses, debts and publishers stay as they are
\* keeps its account.
LEMMA Untouched ==
  ASSUME TypeInv, NEW s \in Subscribers, Account(s),
         Stream(s)' = Stream(s), LostTo(s)' = LostTo(s), owed'[s] = owed[s],
         \A q \in Publishers :
           /\ s \in pub'[q].todo <=> s \in pub[q].todo
           /\ s \in pub[q].todo => pub'[q].ev = pub[q].ev,
         \A q \in Publishers : sent'[q] = sent[q] \/ sent'[q] = sent[q] + 1
  PROVE  Account(s)'
<1>1. InHand(s)' = InHand(s)
  BY DEF InHand
<1>2. \A q \in Publishers : sent[q] \in Nat
  BY DEF TypeInv, TypeOK
<1>3. \A e \in owed[s] : e.n <= sent'[e.from]
  BY <1>2, Owing DEF Account
<1> QED BY <1>1, <1>3 DEF Account

\* One more lost event.
LEMMA OneLost ==
  ASSUME NEW s \in Subscribers, NEW e, lost' = lost \cup {<<s, e>>}
  PROVE  /\ LostTo(s)' = LostTo(s) \cup {e}
         /\ \A x \in Subscribers \ {s} : LostTo(x)' = LostTo(x)
<1>1. LostTo(s)' = LostTo(s) \cup {e}
  <2>1. ASSUME NEW d \in LostTo(s)' PROVE d \in LostTo(s) \cup {e}
    BY DEF LostTo
  <2>2. ASSUME NEW d \in LostTo(s) PROVE d \in LostTo(s)'
    BY DEF LostTo
  <2>3. e \in LostTo(s)'
    <3>1. <<s, e>> \in lost' /\ <<s, e>>[1] = s /\ <<s, e>>[2] = e
      OBVIOUS
    <3> QED BY <3>1 DEF LostTo
  <2> QED BY <2>1, <2>2, <2>3
<1>2. ASSUME NEW x \in Subscribers \ {s} PROVE LostTo(x)' = LostTo(x)
  BY DEF LostTo
<1> QED BY <1>1, <1>2

\* What p holds for s, no other publisher holds.
LEMMA OneLessInHand ==
  ASSUME TypeInv, NEW p \in Publishers, NEW s \in Subscribers, Sheds(p, s)
  PROVE  /\ pub[p].ev \in InHand(s)
         /\ InHand(s)' = InHand(s) \ {pub[p].ev}
         /\ pub[p].ev \in Event /\ pub[p].ev.from = p
<1>1. s \in pub[p].todo /\ pub[p].step # "idle"
  BY DEF Sheds, TypeInv, Hands, Hand
<1>2. \A q \in Publishers : s \in pub[q].todo => pub[q].ev \in Event /\ pub[q].ev.from = q
  BY DEF TypeInv, Hands, Hand
<1>3. \A q \in Publishers \ {p} : s \in pub'[q].todo <=> s \in pub[q].todo
  BY DEF Sheds, Keeps
<1>4. \A q \in Publishers \ {p} : pub'[q].ev = pub[q].ev
  BY DEF Sheds, Keeps
<1>5. s \notin pub'[p].todo
  BY DEF Sheds
<1>6. pub[p].ev \in InHand(s)
  BY <1>1 DEF InHand
<1>7. InHand(s)' = InHand(s) \ {pub[p].ev}
  <2>1. ASSUME NEW e \in InHand(s)' PROVE e \in InHand(s) \ {pub[p].ev}
    <3>1. PICK q \in Publishers : s \in pub'[q].todo /\ e = pub'[q].ev
      BY DEF InHand
    <3>2. q # p /\ s \in pub[q].todo /\ e = pub[q].ev
      BY <1>3, <1>4, <1>5, <3>1
    <3>3. e # pub[p].ev
      BY <1>1, <1>2, <3>2
    <3> QED BY <3>2, <3>3 DEF InHand
  <2>2. ASSUME NEW e \in InHand(s), e # pub[p].ev PROVE e \in InHand(s)'
    <3>1. PICK q \in Publishers : s \in pub[q].todo /\ e = pub[q].ev
      BY DEF InHand
    <3>2. q # p /\ s \in pub'[q].todo /\ e = pub'[q].ev
      BY <1>3, <1>4, <2>2, <3>1
    <3> QED BY <3>2 DEF InHand
  <2> QED BY <2>1, <2>2
<1> QED BY <1>1, <1>2, <1>6, <1>7

\* The other subscribers of a publisher that sheds s.
LEMMA ShedsElsewhere ==
  ASSUME NEW p \in Publishers, NEW s \in Subscribers, Sheds(p, s),
         NEW x \in Subscribers \ {s}
  PROVE  \A q \in Publishers :
           /\ x \in pub'[q].todo <=> x \in pub[q].todo
           /\ x \in pub[q].todo => pub'[q].ev = pub[q].ev
BY DEF Sheds, Keeps

LEMMA DeliverAccounts ==
  ASSUME TypeInv, Accounts, NEW p \in Publishers, NEW s \in Subscribers, Delivers(p, s)
  PROVE  Accounts'
<1> DEFINE e == pub[p].ev
           met == Elements(Stream(s)) \cup LostTo(s)
<1>1. /\ Stream(s) \in Seq(Event) /\ Stream(s)' = Append(Stream(s), e)
      /\ Elsewhere(s) /\ Sheds(p, s) /\ sent' = sent /\ lost' = lost /\ owed' = owed
  BY DEF Delivers
<1>2. e \in InHand(s) /\ InHand(s)' = InHand(s) \ {e} /\ e \in Event /\ e.from = p
  BY <1>1, OneLessInHand
<1>3. /\ \A x \in Subscribers : LostTo(x)' = LostTo(x)
      /\ s \in pub[p].todo
  BY <1>1 DEF LostTo, Sheds
<1>4. Elements(Stream(s))' = Elements(Stream(s)) \cup {e}
  <2>1. Elements(Append(Stream(s), e)) = Elements(Stream(s)) \cup {e}
    BY <1>1, <1>2, AppendElements
  <2> QED BY <1>1, <2>1
<1>5. /\ owed[s] = met \cup InHand(s)
      /\ Elements(Stream(s)) \cap LostTo(s) = {}
      /\ InHand(s) \cap met = {}
      /\ Ordered(Stream(s))
      /\ \A d \in owed[s] : d.n <= sent[d.from]
      /\ \A q \in Publishers : s \in pub[q].todo =>
           \A d \in met : d.from = q => d.n < pub[q].ev.n
  BY DEF Accounts, Account
<1>6. Ordered(Stream(s))'
  <2>1. \A d \in Elements(Stream(s)) : d.from = e.from => d.n < e.n
    BY <1>2, <1>3, <1>5
  <2>2. Ordered(Append(Stream(s), e))
    BY <1>1, <1>2, <1>5, <2>1, OrderedAppend
  <2> QED BY <1>1, <2>2
<1>7. \A q \in Publishers : s \in pub'[q].todo =>
        q # p /\ s \in pub[q].todo /\ pub'[q].ev = pub[q].ev
  BY <1>1 DEF Sheds, Keeps
<1>8. \A q \in Publishers : s \in pub'[q].todo =>
        \A d \in met \cup {e} : d.from = q => d.n < pub'[q].ev.n
  BY <1>2, <1>5, <1>7
<1> HIDE DEF e
<1>9. Account(s)'
  BY <1>1, <1>2, <1>3, <1>4, <1>5, <1>6, <1>8 DEF Account
<1>10. ASSUME NEW x \in Subscribers \ {s} PROVE Account(x)'
  BY <1>1, <1>3, ShedsElsewhere, Untouched DEF Elsewhere, Accounts
<1> QED BY <1>9, <1>10 DEF Accounts

LEMMA RefuseAccounts ==
  ASSUME TypeInv, Accounts, NEW p \in Publishers, NEW s \in Subscribers, Refuses(p, s)
  PROVE  Accounts'
<1> DEFINE e == pub[p].ev
           met == Elements(Stream(s)) \cup LostTo(s)
<1>1. /\ SameStreams /\ Sheds(p, s) /\ sent' = sent /\ owed' = owed
      /\ lost' = lost \cup {<<s, e>>}
  BY DEF Refuses
<1>2. e \in InHand(s) /\ InHand(s)' = InHand(s) \ {e} /\ e.from = p
  BY <1>1, OneLessInHand
<1>3. /\ LostTo(s)' = LostTo(s) \cup {e}
      /\ \A x \in Subscribers \ {s} : LostTo(x)' = LostTo(x)
  BY <1>1, OneLost
<1>4. /\ owed[s] = met \cup InHand(s)
      /\ Elements(Stream(s)) \cap LostTo(s) = {}
      /\ InHand(s) \cap met = {}
      /\ Ordered(Stream(s))
      /\ \A d \in owed[s] : d.n <= sent[d.from]
      /\ \A q \in Publishers : s \in pub[q].todo =>
           \A d \in met : d.from = q => d.n < pub[q].ev.n
  BY DEF Accounts, Account
<1>5. \A q \in Publishers : s \in pub'[q].todo =>
        q # p /\ s \in pub[q].todo /\ pub'[q].ev = pub[q].ev
  BY <1>1 DEF Sheds, Keeps
<1>6. \A q \in Publishers : s \in pub'[q].todo =>
        \A d \in met \cup {e} : d.from = q => d.n < pub'[q].ev.n
  BY <1>2, <1>4, <1>5
<1>7. Stream(s)' = Stream(s)
  BY <1>1 DEF SameStreams
<1> HIDE DEF e
<1>8. Account(s)'
  BY <1>1, <1>2, <1>3, <1>4, <1>6, <1>7 DEF Account
<1>9. ASSUME NEW x \in Subscribers \ {s} PROVE Account(x)'
  BY <1>1, <1>3, ShedsElsewhere, Untouched DEF SameStreams, Accounts
<1> QED BY <1>8, <1>9 DEF Accounts

LEMMA DisplaceAccounts ==
  ASSUME TypeInv, Accounts, NEW s \in Subscribers, Displaces(s)
  PROVE  Accounts'
<1>1. PICK r \in Seq(Event), b \in Seq(Event) :
        /\ b # <<>>
        /\ Stream(s) = r \o b /\ Stream(s)' = r \o Tail(b)
        /\ Elsewhere(s)
        /\ \A q \in Publishers : Keeps(q)
        /\ lost' = lost \cup {<<s, Head(b)>>}
        /\ sent' = sent /\ owed' = owed
  BY DEF Displaces
<1>2. /\ LostTo(s)' = LostTo(s) \cup {Head(b)}
      /\ \A x \in Subscribers \ {s} : LostTo(x)' = LostTo(x)
  BY <1>1, OneLost
<1>3. /\ owed[s] = (Elements(Stream(s)) \cup LostTo(s)) \cup InHand(s)
      /\ Elements(Stream(s)) \cap LostTo(s) = {}
      /\ InHand(s) \cap (Elements(Stream(s)) \cup LostTo(s)) = {}
      /\ Ordered(Stream(s))
      /\ \A d \in owed[s] : d.n <= sent[d.from]
      /\ \A q \in Publishers : s \in pub[q].todo =>
           \A d \in Elements(Stream(s)) \cup LostTo(s) : d.from = q => d.n < pub[q].ev.n
  BY DEF Accounts, Account
<1>4. /\ Ordered(r \o Tail(b))
      /\ Head(b) \notin Elements(r \o Tail(b))
      /\ Elements(r \o b) = Elements(r \o Tail(b)) \cup {Head(b)}
  BY <1>1, <1>3, OrderedDrop
<1>5. InHand(s)' = InHand(s)
  BY <1>1 DEF Keeps, InHand
<1>6. \A q \in Publishers : pub'[q].todo = pub[q].todo /\ pub'[q].ev = pub[q].ev
  BY <1>1 DEF Keeps
<1>7. /\ Ordered(Stream(s))'
      /\ Head(b) \notin Elements(Stream(s))'
      /\ Elements(Stream(s)) = Elements(Stream(s))' \cup {Head(b)}
  BY <1>1, <1>4
<1>8. Account(s)'
  BY <1>1, <1>2, <1>3, <1>5, <1>6, <1>7 DEF Account
<1>9. ASSUME NEW x \in Subscribers \ {s} PROVE Account(x)'
  BY <1>1, <1>2, <1>6, Untouched DEF Elsewhere, Accounts
<1> QED BY <1>8, <1>9 DEF Accounts

LEMMA BeginAccounts ==
  ASSUME TypeInv, Accounts, NEW p \in Publishers, NEW run \in Runs, Begins(p, run)
  PROVE  Accounts'
<1> DEFINE ev == [from |-> p, n |-> sent[p] + 1, run |-> run]
<1>1. /\ SameStreams
      /\ pub[p].todo = {}
      /\ pub'[p].todo # {} => pub'[p].ev = ev
      /\ \A q \in Publishers \ {p} : Keeps(q)
      /\ \A s \in Subscribers :
           owed'[s] = IF s \in pub'[p].todo THEN owed[s] \cup {ev} ELSE owed[s]
      /\ sent' = [sent EXCEPT ![p] = @ + 1]
      /\ lost' = lost
  BY DEF Begins
<1>2. sent \in [Publishers -> Nat]
  BY DEF TypeInv, TypeOK
<1>3. \A q \in Publishers : sent'[q] = IF q = p THEN sent[p] + 1 ELSE sent[q]
  BY <1>1, <1>2
<1>4. ev.from = p /\ ev.n = sent[p] + 1
  OBVIOUS
<1>5. \A s \in Subscribers : LostTo(s)' = LostTo(s) /\ Stream(s)' = Stream(s)
  BY <1>1 DEF LostTo, SameStreams
<1>6. \A q \in Publishers \ {p} : pub'[q].todo = pub[q].todo /\ pub'[q].ev = pub[q].ev
  BY <1>1 DEF Keeps
<1> HIDE DEF ev
<1> SUFFICES ASSUME NEW s \in Subscribers PROVE Account(s)'
  BY DEF Accounts
<1>7. Account(s)
  BY DEF Accounts
<1>8. CASE s \notin pub'[p].todo
  BY <1>1, <1>3, <1>5, <1>6, <1>7, <1>8, Untouched
<1>9. CASE s \in pub'[p].todo
  <2>1. pub'[p].ev = ev /\ owed'[s] = owed[s] \cup {ev}
    BY <1>1, <1>9
  <2>2. InHand(s)' = InHand(s) \cup {ev}
    <3>1. ASSUME NEW d \in InHand(s)' PROVE d \in InHand(s) \cup {ev}
      <4>1. PICK q \in Publishers : s \in pub'[q].todo /\ d = pub'[q].ev
        BY DEF InHand
      <4> QED BY <1>6, <2>1, <4>1 DEF InHand
    <3>2. ASSUME NEW d \in InHand(s) PROVE d \in InHand(s)'
      <4>1. PICK q \in Publishers : s \in pub[q].todo /\ d = pub[q].ev
        BY DEF InHand
      <4>2. q # p
        BY <1>1, <4>1
      <4> QED BY <1>6, <4>1, <4>2 DEF InHand
    <3>3. ev \in InHand(s)'
      BY <1>9, <2>1 DEF InHand
    <3> QED BY <3>1, <3>2, <3>3
  <2>3. \A d \in owed[s] : d.from \in Publishers /\ d.n \in Nat /\ d.n <= sent[d.from]
    BY <1>7, Owing DEF Account
  <2>4. \A d \in owed[s] : d # ev /\ d.n <= sent'[d.from] /\ (d.from = p => d.n < ev.n)
    BY <1>2, <1>3, <1>4, <2>3
  <2>5. ev.n <= sent'[ev.from]
    BY <1>2, <1>3, <1>4
  <2>6. \A q \in Publishers : s \in pub'[q].todo =>
          \A d \in Elements(Stream(s)) \cup LostTo(s) : d.from = q => d.n < pub'[q].ev.n
    <3>1. Elements(Stream(s)) \cup LostTo(s) \subseteq owed[s]
      BY <1>7 DEF Account
    <3> QED BY <1>6, <1>7, <2>1, <2>4, <3>1 DEF Account
  <2> QED BY <1>5, <1>7, <2>1, <2>2, <2>4, <2>5, <2>6 DEF Account
<1> QED BY <1>8, <1>9

LEMMA AccountsStep ==
  ASSUME TypeInv, Accounts, [Next]_vars
  PROVE  Accounts'
<1>1. ASSUME Quiet PROVE Accounts'
  <2>1. /\ \A s \in Subscribers : LostTo(s)' = LostTo(s) /\ Stream(s)' = Stream(s)
        /\ sent' = sent /\ owed' = owed
        /\ \A q \in Publishers : pub'[q].todo = pub[q].todo /\ pub'[q].ev = pub[q].ev
    BY <1>1 DEF Quiet, LostTo, SameStreams, Keeps
  <2> QED BY <2>1, Untouched DEF Accounts
<1> QED
  BY <1>1, StepShapes, DeliverAccounts, RefuseAccounts, DisplaceAccounts, BeginAccounts

LEMMA AccountsAlways == Spec => [](TypeInv /\ Accounts)
<1>1. Init => TypeInv /\ Accounts
  BY TypeInit, AccountsInit
<1>2. TypeInv /\ Accounts /\ [Next]_vars => TypeInv' /\ Accounts'
  BY StepShapes, AccountsStep
<1> QED BY <1>1, <1>2, PTL DEF Spec

\* Every event a subscriber was registered for is received or waiting, lost,
\* or still in its publisher's hands, and in only one of these places.
THEOREM EventsAccounted == Spec => []EachOnce
<1>1. Accounts => EachOnce
  BY DEF Accounts, Account, EachOnce
<1> QED BY <1>1, AccountsAlways, PTL

\* A subscriber sees each publisher's events in their order, none twice.
THEOREM OrderKept == Spec => []PublisherOrder
<1>1. Accounts => PublisherOrder
  BY DEF Accounts, Account, PublisherOrder
<1> QED BY <1>1, AccountsAlways, PTL

(***************************************************************************)
(* Which event gives way                                                   *)
(***************************************************************************)
\* A publisher that has dropped and finds the channel full again finds
\* somebody else's event at its end.
RoomFor(p) ==
  pub[p].step = "resend" =>
    LET buf == channel[pub[p].to].buf
    IN Len(buf) = BufSize => buf[Len(buf)].from # p
Room == \A p \in Publishers : RoomFor(p)

\* What may happen to the buffer of t while p is between its two operations.
BufferGoesOn(p, t) ==
  \/ channel'[t].buf = channel[t].buf
  \/ Len(channel'[t].buf) < BufSize
  \/ \E q \in Publishers \ {p} : /\ pub[q].step # "idle"
                                 /\ channel'[t].buf = Append(channel[t].buf, pub[q].ev)

LEMMA RoomKept ==
  ASSUME TypeInv, NEW p \in Publishers, RoomFor(p), pub'[p] = pub[p],
         \A t \in pub[p].todo : BufferGoesOn(p, t)
  PROVE  RoomFor(p)'
<1> SUFFICES ASSUME NEW t, t = pub[p].to, pub[p].step = "resend",
                    Len(channel'[t].buf) = BufSize
             PROVE  channel'[t].buf[Len(channel'[t].buf)].from # p
  BY DEF RoomFor
<1>1. t \in pub[p].todo /\ t \in DOMAIN channel
  BY DEF TypeInv, Hands, Hand
<1>2. channel[t].buf \in Seq(Event)
  BY <1>1, StreamIs DEF TypeInv
<1>3. CASE channel'[t].buf = channel[t].buf
  BY <1>3 DEF RoomFor
<1>4. CASE Len(channel'[t].buf) < BufSize
  BY <1>4, BusAssumption
<1>5. ASSUME NEW q \in Publishers \ {p}, pub[q].step # "idle",
             channel'[t].buf = Append(channel[t].buf, pub[q].ev)
      PROVE  channel'[t].buf[Len(channel'[t].buf)].from # p
  <2>1. pub[q].ev \in Event /\ pub[q].ev.from = q
    BY <1>5 DEF TypeInv, Hands, Hand
  <2>2. \A b \in Seq(Event), e \in Event : Append(b, e)[Len(Append(b, e))] = e
    OBVIOUS
  <2>3. channel'[t].buf[Len(channel'[t].buf)] = pub[q].ev
    BY <1>2, <1>5, <2>1, <2>2
  <2> QED BY <2>1, <2>3
<1> QED BY <1>1, <1>3, <1>4, <1>5 DEF BufferGoesOn

\* A step of p that leaves it elsewhere than before its resend, or with room,
\* and does to the buffers what the others can bear.
LEMMA ActorRoom ==
  ASSUME TypeInv, Room, NEW p \in Publishers, RoomFor(p)',
         \A q \in Publishers \ {p} : pub'[q] = pub[q],
         \A q \in Publishers \ {p} : \A t \in pub[q].todo : BufferGoesOn(q, t)
  PROVE  Room'
<1>1. \A q \in Publishers \ {p} : RoomFor(q)'
  BY RoomKept DEF Room
<1> QED BY <1>1 DEF Room

LEMMA RoomDeliver ==
  ASSUME TypeInv, Room, NEW p \in Publishers, NEW s \in pub[p].todo,
         pub[p].step # "idle", ~Full(s), Put(p, s), Advance(p, s)
  PROVE  Room'
<1>1. /\ channel'[s].buf = Append(channel[s].buf, pub[p].ev)
      /\ \A x \in DOMAIN channel \ {s} : channel'[x] = channel[x]
  BY PutType
<1>2. /\ \A q \in Publishers \ {p} : pub'[q] = pub[q]
      /\ \/ pub'[p] = Idle
         \/ pub'[p].step = "send"
  BY AdvanceType
<1>3. RoomFor(p)'
  BY <1>2 DEF RoomFor, Idle
<1>4. \A q \in Publishers : pub[q].todo \subseteq DOMAIN channel
  BY DEF TypeInv, Hands, Hand
<1>5. \A q \in Publishers \ {p} : \A t \in pub[q].todo : BufferGoesOn(q, t)
  BY <1>1, <1>4 DEF BufferGoesOn
<1> QED BY <1>2, <1>3, <1>5, ActorRoom

\* A step that leaves the channels alone and does not bring p before a resend.
LEMMA RoomStill ==
  ASSUME TypeInv, Room, NEW p \in Publishers, channel' = channel,
         \A q \in Publishers \ {p} : pub'[q] = pub[q],
         pub'[p].step # "resend"
  PROVE  Room'
<1>1. RoomFor(p)'
  BY DEF RoomFor
<1>2. \A q \in Publishers \ {p} : \A t \in pub[q].todo : BufferGoesOn(q, t)
  BY DEF BufferGoesOn
<1> QED BY <1>1, <1>2, ActorRoom

LEMMA RoomSend ==
  ASSUME TypeInv, Room, NEW p \in Publishers, NEW s \in Subscribers, Send(p, s)
  PROVE  Room'
<1>1. pub[p].step = "send" /\ s \in pub[p].todo
  BY DEF Send
<1>2. pub \in [Publishers -> Publishing] /\ pub[p] \in Publishing
  BY DEF TypeInv, TypeOK
<1>3. CASE Panic(p) /\ UNCHANGED channel
  <2>1. pub'[p].step = "dead" /\ \A q \in Publishers \ {p} : pub'[q] = pub[q]
    BY <1>2, <1>3 DEF Panic, Publishing
  <2> QED BY <1>3, <2>1, RoomStill
<1>4. CASE ~Full(s) /\ Put(p, s) /\ Advance(p, s)
  <2>1. pub[p].step # "idle"
    BY <1>1
  <2> QED BY <1>1, <1>4, <2>1, RoomDeliver
<1>5. CASE /\ pub' = [pub EXCEPT ![p].step = "drop", ![p].to = s]
           /\ UNCHANGED channel
  <2>1. pub'[p].step = "drop" /\ \A q \in Publishers \ {p} : pub'[q] = pub[q]
    BY <1>2, <1>5 DEF Publishing
  <2> QED BY <1>5, <2>1, RoomStill
<1> QED BY <1>3, <1>4, <1>5 DEF Send

LEMMA RoomDrop ==
  ASSUME TypeInv, Room, NEW p \in Publishers, Drop(p)
  PROVE  Room'
<1>1. PICK s : s = pub[p].to
  OBVIOUS
<1>2. pub[p].step = "drop" /\ Resending(p)
  BY DEF Drop
<1>3. s \in DOMAIN channel
  BY <1>1, <1>2 DEF TypeInv, Hands, Hand
<1>4. pub \in [Publishers -> Publishing] /\ pub[p] \in Publishing
  BY DEF TypeInv, TypeOK
<1>5. pub'[p].to = s /\ \A q \in Publishers \ {p} : pub'[q] = pub[q]
  BY <1>1, <1>2, <1>4 DEF Resending, Publishing
<1>6. \A q \in Publishers : pub[q].todo \subseteq DOMAIN channel
  BY DEF TypeInv, Hands, Hand
<1>7. /\ Len(channel'[s].buf) < BufSize
      /\ \A x \in DOMAIN channel \ {s} : channel'[x].buf = channel[x].buf
  <2>1. CASE channel[s].buf # <<>> /\ channel' = [channel EXCEPT ![s].buf = Tail(@)]
    BY <1>3, <2>1, TakeType
  <2>2. CASE channel[s].buf = <<>> /\ channel' = channel
    BY <2>2, BusAssumption
  <2> QED BY <1>1, <2>1, <2>2 DEF Drop
<1>8. RoomFor(p)'
  BY <1>5, <1>7, BusAssumption DEF RoomFor
<1>9. \A q \in Publishers \ {p} : \A t \in pub[q].todo : BufferGoesOn(q, t)
  BY <1>6, <1>7 DEF BufferGoesOn
<1> QED BY <1>5, <1>8, <1>9, ActorRoom

LEMMA RoomResend ==
  ASSUME TypeInv, Room, NEW p \in Publishers, Resend(p)
  PROVE  Room'
<1>1. PICK s : s = pub[p].to
  OBVIOUS
<1>2. pub[p].step = "resend" /\ pub[p].step # "idle"
  BY DEF Resend
<1>3. s \in pub[p].todo
  BY <1>1, <1>2 DEF TypeInv, Hands, Hand
<1>4. pub \in [Publishers -> Publishing] /\ pub[p] \in Publishing
  BY DEF TypeInv, TypeOK
<1>5. CASE Panic(p) /\ UNCHANGED channel
  <2>1. pub'[p].step = "dead" /\ \A q \in Publishers \ {p} : pub'[q] = pub[q]
    BY <1>4, <1>5 DEF Panic, Publishing
  <2> QED BY <1>5, <2>1, RoomStill
<1>6. CASE ~Full(s) /\ Put(p, s) /\ Advance(p, s)
  BY <1>2, <1>3, <1>6, RoomDeliver
<1>7. CASE Advance(p, s) /\ UNCHANGED channel
  <2>1. /\ \A q \in Publishers \ {p} : pub'[q] = pub[q]
        /\ pub'[p] = Idle \/ pub'[p].step = "send"
    BY <1>2, <1>3, <1>7, AdvanceType
  <2>2. pub'[p].step # "resend"
    BY <2>1 DEF Idle
  <2> QED BY <1>7, <2>1, <2>2, RoomStill
<1> QED BY <1>1, <1>5, <1>6, <1>7 DEF Resend

LEMMA RoomInit == Init => Room
BY DEF Init, Room, RoomFor, Idle

LEMMA RoomStep ==
  ASSUME TypeInv, Room, [Next]_vars
  PROVE  Room'
<1>0. \A q \in Publishers : pub[q].todo \subseteq DOMAIN channel
  BY DEF TypeInv, Hands, Hand
<1>1. CASE UNCHANGED vars
  <2>1. pub' = pub /\ channel' = channel
    BY <1>1 DEF vars
  <2> QED BY <2>1, RoomKept DEF Room, BufferGoesOn
<1>2. ASSUME NEW s \in Subscribers, NEW filter \in Filters, Subscribe(s, filter) PROVE Room'
  <2>1. pub' = pub /\ \A x \in DOMAIN channel : channel'[x] = channel[x]
    BY <1>2 DEF Subscribe
  <2> QED BY <1>0, <2>1, RoomKept DEF Room, BufferGoesOn
<1>3. ASSUME NEW s \in Subscribers, Unsubscribe(s) PROVE Room'
  <2>1. /\ s \in DOMAIN channel /\ channel[s] \in Channel /\ pub' = pub
        /\ channel' = [channel EXCEPT ![s] = [channel[s] EXCEPT !.open = FALSE]]
    BY <1>3 DEF Unsubscribe, TypeInv, TypeOK
  <2>2. [channel[s] EXCEPT !.open = FALSE].buf = channel[s].buf
    BY <2>1 DEF Channel
  <2>3. \A x \in DOMAIN channel : channel'[x].buf = channel[x].buf
    BY <2>1, <2>2
  <2> QED BY <1>0, <2>1, <2>3, RoomKept DEF Room, BufferGoesOn
<1>4. ASSUME NEW s \in Subscribers, Receive(s) PROVE Room'
  <2>1. /\ s \in DOMAIN channel /\ channel[s].buf # <<>> /\ pub' = pub
        /\ channel' = [channel EXCEPT ![s].buf = Tail(@)]
    BY <1>4 DEF Receive
  <2>2. /\ Len(channel'[s].buf) < BufSize
        /\ \A x \in DOMAIN channel \ {s} : channel'[x] = channel[x]
    BY <2>1, TakeType
  <2> QED BY <1>0, <2>1, <2>2, RoomKept DEF Room, BufferGoesOn
<1>5. ASSUME NEW p \in Publishers, NEW run \in Runs, Begin(p, run) PROVE Room'
  <2> DEFINE ev == [from |-> p, n |-> sent[p] + 1, run |-> run]
             todo == {s \in subscribers : Match(channel[s].filter, ev)}
             busy == [step |-> "send", ev |-> ev, todo |-> todo, to |-> None]
  <2>1. channel' = channel /\ pub' = [pub EXCEPT ![p] = IF todo = {} THEN Idle ELSE busy]
    BY <1>5 DEF Begin
  <2>2. busy.step = "send" /\ Idle.step = "idle" /\ pub \in [Publishers -> Publishing]
    BY DEF Idle, TypeInv, TypeOK
  <2> HIDE DEF busy, todo
  <2>3. pub'[p].step # "resend" /\ \A q \in Publishers \ {p} : pub'[q] = pub[q]
    BY <2>1, <2>2
  <2> QED BY <2>1, <2>3, RoomStill
<1>6. ASSUME NEW p \in Publishers, PublishStep(p) PROVE Room'
  BY <1>6, RoomSend, RoomDrop, RoomResend DEF PublishStep
<1> QED BY <1>1, <1>2, <1>3, <1>4, <1>5, <1>6 DEF Next

\* Only the drop and the resend lose an event, and each loses one: the oldest
\* of the channel, or the publisher's own behind somebody else's.
LEMMA LossStep ==
  ASSUME TypeInv, Room, [Next]_vars, lost' # lost
  PROVE  \E p \in Publishers : \E s \in DOMAIN channel : \E e \in Event :
           /\ lost' = lost \cup {<<s, e>>}
           /\ channel[s].buf # <<>>
           /\ \/ e = Head(channel[s].buf)
              \/ e.from # channel[s].buf[Len(channel[s].buf)].from
<1>1. PICK p \in Publishers : Drop(p) \/ Resend(p)
  BY DEF Next, vars, Subscribe, Unsubscribe, Receive, Begin, PublishStep, Send
<1>2. PICK s : s = pub[p].to
  OBVIOUS
<1>3. /\ s \in DOMAIN channel /\ s \in Subscribers
      /\ pub[p].ev \in Event /\ pub[p].ev.from = p
  BY <1>1, <1>2 DEF Drop, Resend, TypeInv, TypeOK, Hands, Hand
<1>4. channel[s].buf \in Seq(Event)
  BY <1>3, StreamIs DEF TypeInv
<1>5. CASE Drop(p)
  <2>1. channel[s].buf # <<>> /\ lost' = lost \cup {<<s, Head(channel[s].buf)>>}
    BY <1>2, <1>5 DEF Drop
  <2>2. Head(channel[s].buf) \in Event
    BY <1>4, <2>1, TailElements
  <2> QED BY <1>3, <2>1, <2>2
<1>6. CASE Resend(p)
  <2>1. /\ pub[p].step = "resend" /\ Full(s)
        /\ lost' = lost \cup {<<s, pub[p].ev>>}
    BY <1>2, <1>6 DEF Resend
  <2>2. Len(channel[s].buf) = BufSize
    BY <2>1 DEF Full
  <2>3. channel[s].buf # <<>>
    BY <2>2, BusAssumption
  <2>4. channel[s].buf[Len(channel[s].buf)].from # p
    BY <1>2, <2>1, <2>2 DEF Room, RoomFor
  <2> QED BY <1>3, <2>1, <2>3, <2>4
<1> QED BY <1>1, <1>5, <1>6

\* An event is lost as the oldest of its channel, or refused because another
\* publisher's event took the place in the meantime.
THEOREM YieldsToNewer == Spec => NewestYields
<1> DEFINE Loss ==
      \A l \in lost' \ lost :
        LET buf == channel[l[1]].buf
        IN buf # <<>> /\ \/ l[2] = Head(buf)
                         \/ l[2].from # buf[Len(buf)].from
<1>1. Init => TypeInv /\ Room
  BY TypeInit, RoomInit
<1>2. TypeInv /\ Room /\ [Next]_vars => (TypeInv /\ Room)'
  BY StepShapes, RoomStep
<1>3. ASSUME TypeInv, Room, [Next]_vars PROVE Loss
  <2>1. CASE lost' = lost
    BY <2>1
  <2>2. CASE lost' # lost
    <3>1. PICK s \in DOMAIN channel, e \in Event :
            /\ lost' = lost \cup {<<s, e>>}
            /\ channel[s].buf # <<>>
            /\ \/ e = Head(channel[s].buf)
               \/ e.from # channel[s].buf[Len(channel[s].buf)].from
      BY <1>3, <2>2, LossStep
    <3>2. \A l \in lost' \ lost : l[1] = s /\ l[2] = e
      BY <3>1
    <3> QED BY <3>1, <3>2
  <2> QED BY <2>1, <2>2
<1>4. TypeInv /\ Room /\ [Next]_vars => [Loss]_vars
  BY <1>3
<1> QED BY <1>1, <1>2, <1>4, PTL DEF Spec, NewestYields

(***************************************************************************)
(* The counter of lost events                                              *)
(***************************************************************************)
\* A closed channel stays closed.
LEMMA NeverReopens ==
  ASSUME TypeInv, [Next]_vars
  PROVE  \A x \in DOMAIN channel : channel'[x].open => channel[x].open
<1> SUFFICES ASSUME NEW x \in DOMAIN channel PROVE channel'[x].open => channel[x].open
  OBVIOUS
<1>1. channel[x] \in Channel
  BY DEF TypeInv, TypeOK
<1>2. CASE \E p \in Publishers, s \in Subscribers : Put(p, s)
  BY <1>1, <1>2 DEF Put, Channel
<1>3. CASE \E s : channel' = [channel EXCEPT ![s].buf = Tail(@)]
  BY <1>1, <1>3 DEF Channel
<1>4. CASE channel' = channel
  BY <1>4
<1>5. CASE \E s : channel' = [channel EXCEPT ![s].open = FALSE]
  BY <1>1, <1>5 DEF Channel
<1>6. CASE \E s, c : channel' = [y \in DOMAIN channel \cup {s} |-> IF y = s THEN c ELSE channel[y]]
                     /\ s \notin DOMAIN channel
  BY <1>6
<1>7. ASSUME NEW p \in Publishers, Resend(p)
      PROVE  channel' = channel \/ \E s \in Subscribers : Put(p, s)
  <2>1. pub[p].to \in Subscribers
    BY <1>7 DEF Resend, TypeInv, TypeOK, Hands, Hand
  <2> QED BY <1>7, <2>1 DEF Resend
<1>8. ASSUME NEW p \in Publishers, Drop(p)
      PROVE  channel' = channel \/ \E s : channel' = [channel EXCEPT ![s].buf = Tail(@)]
  BY <1>8 DEF Drop
<1>9. ASSUME NEW p \in Publishers, NEW s \in Subscribers, Send(p, s)
      PROVE  channel' = channel \/ Put(p, s)
  BY <1>9 DEF Send
<1>10. ASSUME NEW s \in Subscribers, Receive(s)
       PROVE  channel' = [channel EXCEPT ![s].buf = Tail(@)]
  BY <1>10 DEF Receive
<1>11. ASSUME NEW s \in Subscribers, NEW filter \in Filters, Subscribe(s, filter)
       PROVE  \E t, c : channel' = [y \in DOMAIN channel \cup {t} |-> IF y = t THEN c ELSE channel[y]]
                        /\ t \notin DOMAIN channel
  BY <1>11 DEF Subscribe
<1>12. ASSUME NEW s \in Subscribers, Unsubscribe(s)
       PROVE  channel' = [channel EXCEPT ![s].open = FALSE]
  BY <1>12 DEF Unsubscribe
<1>13. ASSUME NEW p \in Publishers, NEW run \in Runs, Begin(p, run) PROVE channel' = channel
  BY <1>13 DEF Begin
<1>14. CASE UNCHANGED vars
  BY <1>4, <1>14 DEF vars
<1> QED BY <1>2, <1>3, <1>4, <1>5, <1>6, <1>7, <1>8, <1>9, <1>10, <1>11, <1>12, <1>13, <1>14
        DEF Next, PublishStep

\* Only p moves in a step of p.
LEMMA OthersStay ==
  ASSUME TypeInv, NEW p \in Publishers, PublishStep(p)
  PROVE  \A q \in Publishers \ {p} : pub'[q] = pub[q]
<1>1. pub \in [Publishers -> Publishing]
  BY DEF TypeInv, TypeOK
<1>2. ASSUME NEW s, Advance(p, s) PROVE \A q \in Publishers \ {p} : pub'[q] = pub[q]
  BY <1>1, <1>2 DEF Advance
<1> QED BY <1>1, <1>2 DEF PublishStep, Send, Drop, Resend, Panic, Resending

\* A publisher that runs into a closed channel does not get away.
LEMMA DoomedStay ==
  ASSUME TypeInv, [Next]_vars
  PROVE  Doomed \subseteq Doomed'
<1>0. pub \in [Publishers -> Publishing]
  BY DEF TypeInv, TypeOK
<1> SUFFICES ASSUME NEW p \in Doomed PROVE p \in Doomed'
  OBVIOUS
<1>1. p \in Publishers
  BY DEF Doomed
<1>2. CASE pub'[p] = pub[p]
  <2>1. CASE pub[p].step = "dead"
    BY <1>1, <1>2, <2>1 DEF Doomed
  <2>2. CASE pub[p].step = "resend" /\ ~channel[pub[p].to].open
    <3>1. pub[p].to \in DOMAIN channel
      BY <1>1, <2>2 DEF TypeInv, Hands, Hand
    <3>2. ~channel'[pub[p].to].open
      BY <2>2, <3>1, NeverReopens
    <3> QED BY <1>1, <1>2, <2>2, <3>2 DEF Doomed
  <2> QED BY <2>1, <2>2 DEF Doomed
<1>3. CASE PublishStep(p)
  <2>1. pub[p].step = "resend" /\ ~channel[pub[p].to].open
    BY <1>3 DEF Doomed, PublishStep, Send, Drop, Resend
  <2>2. Panic(p)
    BY <1>3, <2>1 DEF PublishStep, Send, Drop, Resend
  <2>3. pub'[p].step = "dead"
    BY <1>0, <1>1, <2>2 DEF Panic, Publishing
  <2> QED BY <1>1, <2>3 DEF Doomed
<1>4. CASE \E q \in Publishers : PublishStep(q) /\ q # p
  BY <1>1, <1>2, <1>4, OthersStay
<1>5. ASSUME NEW q \in Publishers, NEW run \in Runs, Begin(q, run) PROVE pub'[p] = pub[p]
  <2>1. q # p
    BY <1>5 DEF Begin, Doomed
  <2> QED BY <1>0, <1>1, <1>5, <2>1 DEF Begin
<1>6. ASSUME pub' = pub PROVE p \in Doomed'
  BY <1>2, <1>6
<1> QED BY <1>2, <1>3, <1>4, <1>5, <1>6 DEF Next, vars, Subscribe, Unsubscribe, Receive

\* The counter moves with every loss, and otherwise only when a publisher
\* takes the zero value from a closed channel, after which it is doomed.
LEMMA CountStep ==
  ASSUME TypeInv, Accounts, [Next]_vars
  PROVE  \/ dropped' = dropped /\ lost' = lost
         \/ /\ dropped' = dropped + 1
            /\ \E l : l \notin lost /\ lost' = lost \cup {l}
         \/ /\ dropped' = dropped + 1 /\ lost' = lost
            /\ \E p \in Publishers : p \notin Doomed /\ p \in Doomed'
<1>1. ASSUME NEW p \in Publishers, Drop(p) PROVE
        \/ dropped' = dropped /\ lost' = lost
        \/ /\ dropped' = dropped + 1
           /\ \E l : l \notin lost /\ lost' = lost \cup {l}
        \/ /\ dropped' = dropped + 1 /\ lost' = lost
           /\ p \notin Doomed /\ p \in Doomed'
  <2>1. PICK s : s = pub[p].to
    OBVIOUS
  <2>2. /\ pub[p].step = "drop" /\ Resending(p)
        /\ pub \in [Publishers -> Publishing] /\ pub[p] \in Publishing
    BY <1>1 DEF Drop, TypeInv, TypeOK
  <2>3. s \in DOMAIN channel /\ s \in Subscribers
    BY <2>1, <2>2 DEF TypeInv, TypeOK, Hands, Hand
  <2>4. CASE /\ channel[s].buf # <<>>
             /\ lost' = lost \cup {<<s, Head(channel[s].buf)>>}
             /\ dropped' = dropped + 1
    <3>1. /\ Stream(s) = received[s] \o channel[s].buf
          /\ received[s] \in Seq(Event) /\ channel[s].buf \in Seq(Event)
      BY <2>3, StreamIs DEF TypeInv
    <3>2. Head(channel[s].buf) \in Elements(Stream(s))
      <4>1. Ordered(received[s] \o channel[s].buf)
        BY <2>3, <3>1 DEF Accounts, Account
      <4> QED BY <2>4, <3>1, <4>1, OrderedDrop
    <3>3. Head(channel[s].buf) \notin LostTo(s)
      BY <2>3, <3>2 DEF Accounts, Account
    <3>4. <<s, Head(channel[s].buf)>> \notin lost
      BY <3>3 DEF LostTo
    <3> QED BY <2>4, <3>4
  <2>5. CASE channel[s].buf = <<>> /\ ~channel[s].open /\ dropped' = dropped + 1
             /\ UNCHANGED <<channel, lost>>
    <3>1. p \notin Doomed
      BY <2>2 DEF Doomed
    <3>2. pub'[p].step = "resend" /\ pub'[p].to = s
      BY <2>1, <2>2 DEF Resending, Publishing
    <3>3. p \in Doomed'
      BY <2>5, <3>2 DEF Doomed
    <3> QED BY <2>5, <3>1, <3>3
  <2>6. CASE UNCHANGED <<dropped, lost>>
    BY <2>6
  <2> QED BY <1>1, <2>1, <2>4, <2>5, <2>6 DEF Drop, Count
<1>2. ASSUME NEW p \in Publishers, Resend(p) PROVE
        \/ dropped' = dropped /\ lost' = lost
        \/ /\ dropped' = dropped + 1
           /\ \E l : l \notin lost /\ lost' = lost \cup {l}
  <2>1. PICK s : s = pub[p].to
    OBVIOUS
  <2>2. s \in pub[p].todo /\ s \in Subscribers
    BY <1>2, <2>1 DEF Resend, TypeInv, TypeOK, Hands, Hand
  <2>3. CASE lost' = lost \cup {<<s, pub[p].ev>>} /\ dropped' = dropped + 1
    <3>1. pub[p].ev \in InHand(s)
      BY <2>2 DEF InHand
    <3>2. pub[p].ev \notin LostTo(s)
      BY <2>2, <3>1 DEF Accounts, Account
    <3>3. <<s, pub[p].ev>> \notin lost
      BY <3>2 DEF LostTo
    <3> QED BY <2>3, <3>3
  <2>4. CASE UNCHANGED <<dropped, lost>>
    BY <2>4
  <2> QED BY <1>2, <2>1, <2>3, <2>4 DEF Resend, Count
<1>3. CASE UNCHANGED <<dropped, lost>>
  BY <1>3
<1> QED BY <1>1, <1>2, <1>3
        DEF Next, vars, PublishStep, Subscribe, Unsubscribe, Receive, Begin, Send

Counted == IsFiniteSet(lost) /\ DroppedCounts

LEMMA CountedStep ==
  ASSUME TypeInv, Accounts, Counted, [Next]_vars
  PROVE  Counted'
<1>1. /\ Doomed \subseteq Doomed' /\ Doomed' \subseteq Publishers
      /\ IsFiniteSet(Publishers) /\ dropped \in Nat
  BY DoomedStay, BusAssumption DEF Doomed, TypeInv, TypeOK
<1>2. /\ IsFiniteSet(Doomed) /\ IsFiniteSet(Doomed')
      /\ Cardinality(Doomed) \in Nat /\ Cardinality(Doomed') \in Nat
      /\ Cardinality(Doomed) <= Cardinality(Doomed')
  BY <1>1, FS_Subset, FS_CardinalityType
<1>3. IsFiniteSet(lost) /\ Cardinality(lost) \in Nat
  BY FS_CardinalityType DEF Counted
<1>4. Cardinality(lost) <= dropped /\ dropped <= Cardinality(lost) + Cardinality(Doomed)
  BY DEF Counted, DroppedCounts
<1>5. CASE dropped' = dropped /\ lost' = lost
  <2>1. Cardinality(lost') = Cardinality(lost) /\ IsFiniteSet(lost')
    BY <1>3, <1>5
  <2>2. dropped' <= Cardinality(lost') + Cardinality(Doomed')
    BY <1>1, <1>2, <1>3, <1>4, <1>5, <2>1
  <2> QED BY <1>4, <1>5, <2>1, <2>2 DEF Counted, DroppedCounts
<1>6. ASSUME NEW l, l \notin lost, lost' = lost \cup {l}, dropped' = dropped + 1
      PROVE  Counted'
  <2>1. IsFiniteSet(lost') /\ Cardinality(lost') = Cardinality(lost) + 1
    BY <1>3, <1>6, FS_AddElement
  <2>2. /\ Cardinality(lost') <= dropped'
        /\ dropped' <= Cardinality(lost') + Cardinality(Doomed')
    BY <1>1, <1>2, <1>3, <1>4, <1>6, <2>1
  <2> QED BY <2>1, <2>2 DEF Counted, DroppedCounts
<1>7. ASSUME NEW p \in Publishers, p \notin Doomed, p \in Doomed',
             dropped' = dropped + 1, lost' = lost
      PROVE  Counted'
  <2>1. Doomed \cup {p} \subseteq Doomed'
    BY <1>1, <1>7
  <2>2. /\ IsFiniteSet(Doomed \cup {p})
        /\ Cardinality(Doomed \cup {p}) = Cardinality(Doomed) + 1
    BY <1>2, <1>7, FS_AddElement
  <2>3. Cardinality(Doomed) + 1 <= Cardinality(Doomed')
    BY <1>2, <2>1, <2>2, FS_Subset
  <2>4. Cardinality(lost') = Cardinality(lost) /\ IsFiniteSet(lost')
    BY <1>3, <1>7
  <2>5. /\ Cardinality(lost') <= dropped'
        /\ dropped' <= Cardinality(lost') + Cardinality(Doomed')
    BY <1>1, <1>2, <1>3, <1>4, <1>7, <2>3, <2>4
  <2> QED BY <2>4, <2>5 DEF Counted, DroppedCounts
<1> QED BY <1>5, <1>6, <1>7, CountStep

\* Dropped() counts every lost event, and is too high by at most one for each
\* publisher that ran into a closed channel.
THEOREM CounterHolds == Spec => []DroppedCounts
<1>1. Init => Counted
  <2> SUFFICES ASSUME Init PROVE Counted
    OBVIOUS
  <2>1. lost = {} /\ dropped = 0 /\ Doomed = {}
    BY DEF Init, Doomed, Idle
  <2>2. IsFiniteSet({}) /\ Cardinality({}) = 0
    BY FS_EmptySet
  <2> QED BY <2>1, <2>2 DEF Counted, DroppedCounts
<1>2. TypeInv /\ Accounts /\ Counted /\ [Next]_vars => Counted'
  BY CountedStep
<1>3. Counted => DroppedCounts
  BY DEF Counted
<1> QED BY <1>1, <1>2, <1>3, AccountsAlways, PTL DEF Spec

=============================================================================
