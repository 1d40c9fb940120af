--------------------------- MODULE CustodyProofs ----------------------------
(***************************************************************************)
(* The chain of custody of a lot, read along its hashes from its           *)
(* production to the identity it is filed under.  A chain gets longer at   *)
(* its end only, so what it tells is settled entry by entry: which         *)
(* identity the food was under then, and that it was fresh.                *)
(***************************************************************************)
EXTENDS FoodTraceabilityProofs

LEMMA NoHashIsNone ==
  ASSUME NEW b, NEW ev, NEW h
  PROVE  RootHash(b) # NoHash /\ Link(ev, h) # NoHash
<1>1. "hash" \in DOMAIN NoHash /\ "hash" \notin DOMAIN RootHash(b) /\ "hash" \notin DOMAIN Link(ev, h)
  BY DEF RootHash, Link, NoHash
<1> QED BY <1>1

\* What get_trace answers of each hash: its chain of events, the latest first.
Chains(chain, trace) ==
  /\ chain \in [DOMAIN trace -> Seq({trace[h].event : h \in DOMAIN trace})]
  /\ \A h \in DOMAIN trace :
       chain[h] = <<trace[h].event>> \o (IF trace[h].parent = NoHash THEN <<>> ELSE chain[trace[h].parent])

\* The events of a chain, oldest first.
OldestFirst(events) == [i \in DOMAIN events |-> events[Len(events) + 1 - i]]

\* A chain continues that of its parent.
Continues(events, ev, older) == events = <<ev>> \o older

LEMMA OldestFirstAppends ==
  ASSUME NEW S, NEW older \in Seq(S), NEW ev \in S, NEW events, Continues(events, ev, older)
  PROVE  /\ Len(events) = Len(older) + 1
         /\ OldestFirst(events) \in Seq(S)
         /\ Len(OldestFirst(events)) = Len(events)
         /\ DOMAIN OldestFirst(events) = 1 .. (Len(older) + 1)
         /\ OldestFirst(events)[Len(older) + 1] = ev
         /\ \A i \in 1 .. Len(older) : OldestFirst(events)[i] = OldestFirst(older)[i]
<1>1. /\ events \in Seq(S) /\ Len(events) = Len(older) + 1 /\ Len(older) \in Nat
      /\ events[1] = ev /\ \A i \in 1 .. Len(older) : events[i + 1] = older[i]
      /\ DOMAIN events = 1 .. (Len(older) + 1) /\ DOMAIN older = 1 .. Len(older)
      /\ \A i \in 1 .. (Len(older) + 1) : events[i] \in S
  BY DEF Continues
<1> DEFINE n   == Len(older)
           new == [i \in 1 .. (n + 1) |-> events[n + 2 - i]]
<1>2. OldestFirst(events) = new
  <2>1. \A i \in 1 .. (n + 1) : Len(events) + 1 - i = n + 2 - i
    BY <1>1
  <2> QED BY <1>1, <2>1 DEF OldestFirst
<1>3. new \in Seq(S) /\ Len(new) = n + 1
  <2>1. \A i \in 1 .. (n + 1) : events[n + 2 - i] \in S
    BY <1>1
  <2> QED BY <1>1, <2>1
<1>4. new[n + 1] = ev
  BY <1>1
<1>5. ASSUME NEW i \in 1 .. n PROVE new[i] = OldestFirst(older)[i]
  <2>1. n + 2 - i = (n + 1 - i) + 1 /\ n + 1 - i \in 1 .. n
    BY <1>1
  <2> QED BY <1>1, <2>1 DEF OldestFirst
<1> HIDE DEF new
<1> QED BY <1>1, <1>2, <1>3, <1>4, <1>5

\* A chain is longer by one event than that of its parent.
LEMMA ChainGrows ==
  ASSUME NEW trace, NEW chain, Chains(chain, trace),
         \A h \in DOMAIN trace : trace[h].parent # NoHash => trace[h].parent \in DOMAIN trace,
         NEW h \in DOMAIN trace
  PROVE  /\ Len(chain[h]) \in Nat \ {0}
         /\ trace[h].parent # NoHash => /\ Len(chain[h]) = Len(chain[trace[h].parent]) + 1
                                       /\ Len(chain[trace[h].parent]) \in Nat \ {0}
<1> DEFINE events == {trace[x].event : x \in DOMAIN trace}
<1>1. ASSUME NEW x \in DOMAIN trace
      PROVE  /\ chain[x] = <<trace[x].event>> \o (IF trace[x].parent = NoHash THEN <<>> ELSE chain[trace[x].parent])
             /\ chain[x] \in Seq(events)
             /\ trace[x].event \in events
  BY DEF Chains
<1>2. ASSUME NEW x \in DOMAIN trace, trace[x].parent # NoHash
      PROVE  Len(chain[x]) = Len(chain[trace[x].parent]) + 1 /\ Len(chain[trace[x].parent]) \in Nat
  <2>1. trace[x].parent \in DOMAIN trace
    BY <1>2
  <2>2. /\ chain[trace[x].parent] \in Seq(events) /\ chain[x] = <<trace[x].event>> \o chain[trace[x].parent]
        /\ trace[x].event \in events
    BY <1>1, <1>2, <2>1
  <2> HIDE DEF events
  <2> QED BY <2>2
<1>3. ASSUME NEW x \in DOMAIN trace PROVE Len(chain[x]) \in Nat \ {0}
  <2>1. CASE trace[x].parent # NoHash
    BY <1>2, <2>1
  <2>2. CASE trace[x].parent = NoHash
    <3>1. chain[x] = <<trace[x].event>> \o <<>> /\ trace[x].event \in events
      BY <1>1, <2>2
    <3> HIDE DEF events
    <3> QED BY <3>1
  <2> QED BY <2>1, <2>2
<1> QED BY <1>2, <1>3

\* The walk of get_trace is determined by what it walks over.
IsWalk(walk, trace) ==
  walk = [h \in DOMAIN trace |->
            <<trace[h].event>> \o (IF trace[h].parent = NoHash THEN <<>> ELSE walk[trace[h].parent])]

LEMMA ChainUnique ==
  ASSUME NEW trace, NEW chain, Chains(chain, trace),
         \A h \in DOMAIN trace : trace[h].parent # NoHash => trace[h].parent \in DOMAIN trace,
         NEW walk, IsWalk(walk, trace)
  PROVE  walk = chain
<1> DEFINE Same(n) == \A h \in DOMAIN trace : Len(chain[h]) <= n => walk[h] = chain[h]
<1>0. \A h \in DOMAIN trace :
        /\ walk[h] = <<trace[h].event>> \o (IF trace[h].parent = NoHash THEN <<>> ELSE walk[trace[h].parent])
        /\ chain[h] = <<trace[h].event>> \o (IF trace[h].parent = NoHash THEN <<>> ELSE chain[trace[h].parent])
  BY DEF Chains, IsWalk
<1>1. ASSUME NEW h \in DOMAIN trace, trace[h].parent # NoHash
      PROVE  Len(chain[h]) = Len(chain[trace[h].parent]) + 1 /\ Len(chain[trace[h].parent]) \in Nat \ {0}
  BY <1>1, ChainGrows
<1>2. ASSUME NEW h \in DOMAIN trace PROVE Len(chain[h]) \in Nat \ {0}
  BY ChainGrows
<1>3. Same(0)
  <2>1. \A h \in DOMAIN trace : ~(Len(chain[h]) <= 0)
    BY <1>2
  <2> QED BY <2>1
<1>4. ASSUME NEW n \in Nat, Same(n) PROVE Same(n + 1)
  <2> SUFFICES ASSUME NEW h \in DOMAIN trace, Len(chain[h]) <= n + 1 PROVE walk[h] = chain[h]
    OBVIOUS
  <2>1. CASE trace[h].parent = NoHash
    BY <1>0, <2>1
  <2>2. CASE trace[h].parent # NoHash
    <3>1. trace[h].parent \in DOMAIN trace
      BY <2>2
    <3>2. Len(chain[trace[h].parent]) <= n
      BY <1>1, <2>2
    <3>3. walk[trace[h].parent] = chain[trace[h].parent]
      BY <1>4, <3>1, <3>2
    <3> QED BY <1>0, <2>2, <3>3
  <2> QED BY <2>1, <2>2
<1>5. \A n \in Nat : Same(n)
  <2> HIDE DEF Same
  <2> DEFINE S == {n \in Nat : Same(n)}
  <2>1. 0 \in S /\ \A n \in Nat : n \in S => n + 1 \in S
    BY <1>3, <1>4
  <2>2. Nat \subseteq S
    <3> HIDE DEF S
    <3> QED BY <2>1, Induction
  <2> QED BY <2>2
<1>6. \A h \in DOMAIN trace : walk[h] = chain[h]
  <2> SUFFICES ASSUME NEW h \in DOMAIN trace PROVE walk[h] = chain[h]
    OBVIOUS
  <2>1. Len(chain[h]) \in Nat /\ Len(chain[h]) <= Len(chain[h])
    BY <1>2
  <2>2. Same(Len(chain[h]))
    BY <1>5, <2>1
  <2> QED BY <2>1, <2>2
<1>7. DOMAIN walk = DOMAIN trace /\ DOMAIN chain = DOMAIN trace
      /\ walk = [h \in DOMAIN trace |-> walk[h]] /\ chain = [h \in DOMAIN trace |-> chain[h]]
  BY DEF Chains, IsWalk
<1> QED BY <1>6, <1>7

\* Where the goods are after each of the first n events.
Places(place, events, n) ==
  place = [i \in 1 .. n |-> CASE events[i].kind = "Produce" -> events[i].manufacturer
                              [] events[i].kind = "Transport" -> events[i].destination
                              [] OTHER -> place[i - 1]]

LEMMA PlacesUnique ==
  ASSUME NEW events, NEW n \in Nat, events[1].kind = "Produce",
         NEW f, Places(f, events, n), NEW g, Places(g, events, n)
  PROVE  f = g
<1>1. ASSUME NEW h, Places(h, events, n)
      PROVE  /\ DOMAIN h = 1 .. n /\ h = [i \in 1 .. n |-> h[i]]
             /\ \A i \in 1 .. n : h[i] = CASE events[i].kind = "Produce" -> events[i].manufacturer
                                           [] events[i].kind = "Transport" -> events[i].destination
                                           [] OTHER -> h[i - 1]
  BY <1>1 DEF Places
<1> DEFINE T == {i \in 1 .. n : f[i] # g[i]}
<1>2. T = {}
  <2> SUFFICES ASSUME T # {} PROVE FALSE
    OBVIOUS
  <2>1. T \in SUBSET Nat
    OBVIOUS
  <2>2. PICK i \in T : \A j \in T : i <= j
    BY <2>1, LeastElement
  <2>3. i \in 1 .. n /\ f[i] # g[i]
    OBVIOUS
  <2>4. CASE i = 1
    BY <1>1, <2>3, <2>4
  <2>5. CASE i # 1
    <3>1. i - 1 \in 1 .. n /\ ~(i <= i - 1)
      BY <2>3, <2>5
    <3>2. f[i - 1] = g[i - 1]
      BY <2>2, <3>1
    <3>3. /\ f[i] = CASE events[i].kind = "Produce" -> events[i].manufacturer
                      [] events[i].kind = "Transport" -> events[i].destination
                      [] OTHER -> f[i - 1]
          /\ g[i] = CASE events[i].kind = "Produce" -> events[i].manufacturer
                      [] events[i].kind = "Transport" -> events[i].destination
                      [] OTHER -> g[i - 1]
      BY <1>1, <2>3
    <3> QED BY <2>3, <3>2, <3>3
  <2> QED BY <2>4, <2>5
<1> QED BY <1>1, <1>2

\* The first n events tell how food that was made by `made' came to be filed under id.
Told(events, n, id, made) ==
  /\ n \in Nat \ {0}
  /\ events[1] = made /\ made.kind = "Produce"
  /\ \A i \in 2 .. n : events[i].kind # "Produce"
  /\ \E place : /\ Places(place, events, n)
                /\ place[n] = id[3]
                /\ \A i \in 2 .. n :
                     /\ events[i].kind = "Transport" => events[i].origin = place[i - 1]
                     /\ events[i].kind = "Store" => events[i].warehouse = place[i - 1]
  /\ \A i, j \in 1 .. n :
       /\ events[i].kind = "Trade" /\ events[j].kind = "Trade" /\ i < j
       /\ \A k \in (i + 1) .. (j - 1) : events[k].kind # "Trade"
       => events[i].buyer = events[j].seller
  /\ \A i \in 1 .. n :
       events[i].kind = "Trade" /\ (\A k \in (i + 1) .. n : events[k].kind # "Trade")
       => events[i].buyer = id[2]

\* How an event takes goods from one identity to another.
Leads(ev, from, to) ==
  /\ ev.kind = "Trade" => ev.seller = from[2] /\ to = <<from[1], ev.buyer, from[3]>>
  /\ ev.kind = "Transport" => ev.origin = from[3] /\ to = <<from[1], from[2], ev.destination>>
  /\ ev.kind = "Store" => ev.warehouse = from[3] /\ to = from

LEMMA ToldStart ==
  ASSUME NEW events, NEW id, NEW made, events[1] = made, made.kind = "Produce", made.manufacturer = id[3]
  PROVE  Told(events, 1, id, made)
<1> DEFINE place == [i \in 1 .. 1 |-> id[3]]
<1>1. \A i \in 1 .. 1 : i = 1
  OBVIOUS
<1>2. Places(place, events, 1) /\ place[1] = id[3]
  BY <1>1 DEF Places
<1>3. \A i, j \in 1 .. 1 : ~(i < j)
  OBVIOUS
<1>4. \A i \in 2 .. 1 : FALSE
  OBVIOUS
<1>5. events[1].kind # "Trade"
  OBVIOUS
<1> HIDE DEF place
<1> QED BY <1>1, <1>2, <1>3, <1>4, <1>5 DEF Told

LEMMA ToldStep ==
  ASSUME NEW older, NEW n, NEW from, NEW made, Told(older, n, from, made),
         NEW events, NEW ev, \A i \in 1 .. n : events[i] = older[i], events[n + 1] = ev,
         ev.kind \in Kinds \ {"Produce"}, NEW to, Leads(ev, from, to)
  PROVE  Told(events, n + 1, to, made)
<1>0. n \in Nat \ {0} /\ n + 1 \in Nat \ {0} /\ 1 \in 1 .. n
  BY DEF Told
<1>1. \A i \in 1 .. (n + 1) : i \in 1 .. n \/ i = n + 1
  BY <1>0
<1>2. events[1] = made /\ made.kind = "Produce"
  BY <1>0 DEF Told
<1>3. \A i \in 2 .. (n + 1) : events[i].kind # "Produce"
  <2>1. \A i \in 2 .. (n + 1) : i \in 2 .. n \/ i = n + 1
    BY <1>0
  <2>2. \A i \in 2 .. n : i \in 1 .. n
    BY <1>0
  <2> QED BY <2>1, <2>2 DEF Told
<1>4. PICK old : /\ Places(old, older, n)
                 /\ old[n] = from[3]
                 /\ \A i \in 2 .. n :
                      /\ older[i].kind = "Transport" => older[i].origin = old[i - 1]
                      /\ older[i].kind = "Store" => older[i].warehouse = old[i - 1]
  BY DEF Told
<1> DEFINE place == [i \in 1 .. (n + 1) |-> IF i = n + 1 THEN to[3] ELSE old[i]]
<1>5. \A i \in 1 .. n : place[i] = old[i] /\ i # n + 1
  BY <1>0
<1>6. place[n + 1] = to[3] /\ place[n] = from[3]
  BY <1>0, <1>4
<1>7. \A i \in 1 .. n : old[i] = CASE older[i].kind = "Produce" -> older[i].manufacturer
                                   [] older[i].kind = "Transport" -> older[i].destination
                                   [] OTHER -> old[i - 1]
  BY <1>4 DEF Places
<1>8. ASSUME NEW i \in 1 .. (n + 1)
      PROVE  place[i] = CASE events[i].kind = "Produce" -> events[i].manufacturer
                          [] events[i].kind = "Transport" -> events[i].destination
                          [] OTHER -> place[i - 1]
  <2>1. CASE i = n + 1
    <3>1. events[i] = ev /\ place[i] = to[3] /\ place[i - 1] = from[3]
      BY <1>0, <1>6, <2>1
    <3>2. CASE ev.kind = "Transport"
      BY <3>1, <3>2 DEF Leads
    <3>3. CASE ev.kind \in {"Trade", "Store"}
      <4>1. to[3] = from[3]
        BY <3>3 DEF Leads
      <4> QED BY <3>1, <3>3, <4>1
    <3> QED BY <3>2, <3>3 DEF Kinds
  <2>2. CASE i \in 2 .. n
    <3>1. i \in 1 .. n /\ i - 1 \in 1 .. n
      BY <1>0, <2>2
    <3>2. place[i] = old[i] /\ place[i - 1] = old[i - 1] /\ events[i] = older[i]
      BY <1>5, <3>1
    <3> HIDE DEF place
    <3> QED BY <1>7, <3>1, <3>2
  <2>3. CASE i = 1
    <3>1. events[i].kind = "Produce" /\ events[i] = older[i] /\ place[i] = old[i]
      BY <1>0, <1>2, <1>5, <2>3
    <3> HIDE DEF place
    <3> QED BY <1>0, <1>7, <2>3, <3>1
  <2> QED BY <1>0, <2>1, <2>2, <2>3
<1>9. Places(place, events, n + 1)
  <2>1. place = [i \in 1 .. (n + 1) |-> place[i]]
    OBVIOUS
  <2> HIDE DEF place
  <2> QED BY <1>8, <2>1 DEF Places
<1> HIDE DEF place
<1>10. \A i \in 2 .. (n + 1) :
         /\ events[i].kind = "Transport" => events[i].origin = place[i - 1]
         /\ events[i].kind = "Store" => events[i].warehouse = place[i - 1]
  <2> SUFFICES ASSUME NEW i \in 2 .. (n + 1)
               PROVE  /\ events[i].kind = "Transport" => events[i].origin = place[i - 1]
                      /\ events[i].kind = "Store" => events[i].warehouse = place[i - 1]
    OBVIOUS
  <2>1. CASE i = n + 1
    <3>1. events[i] = ev /\ place[i - 1] = from[3]
      BY <1>0, <1>6, <2>1
    <3> QED BY <3>1 DEF Leads
  <2>2. CASE i # n + 1
    <3>1. i \in 2 .. n /\ i \in 1 .. n /\ i - 1 \in 1 .. n
      BY <1>0, <2>2
    <3> QED BY <1>4, <1>5, <3>1
  <2> QED BY <2>1, <2>2
<1>11. ASSUME NEW i \in 1 .. (n + 1), NEW j \in 1 .. (n + 1),
              events[i].kind = "Trade", events[j].kind = "Trade", i < j,
              \A k \in (i + 1) .. (j - 1) : events[k].kind # "Trade"
       PROVE  events[i].buyer = events[j].seller
  <2>1. i \in 1 .. n /\ events[i] = older[i]
    BY <1>0, <1>11
  <2>2. CASE j = n + 1
    <3>1. events[j] = ev /\ ev.seller = from[2]
      BY <1>11, <2>2 DEF Leads
    <3>2. \A k \in (i + 1) .. n : older[k].kind # "Trade"
      <4>1. \A k \in (i + 1) .. n : k \in 1 .. n /\ k \in (i + 1) .. (j - 1)
        BY <1>0, <2>1, <2>2
      <4> QED BY <1>11, <4>1
    <3>3. older[i].buyer = from[2]
      BY <1>11, <2>1, <3>2 DEF Told
    <3> QED BY <2>1, <3>1, <3>3
  <2>3. CASE j # n + 1
    <3>1. j \in 1 .. n /\ events[j] = older[j]
      BY <1>0, <2>3
    <3>2. \A k \in (i + 1) .. (j - 1) : older[k].kind # "Trade"
      <4>1. \A k \in (i + 1) .. (j - 1) : k \in 1 .. n
        BY <1>0, <2>1, <3>1
      <4> QED BY <1>11, <4>1
    <3> QED BY <1>11, <2>1, <3>1, <3>2 DEF Told
  <2> QED BY <2>2, <2>3
<1>12. ASSUME NEW i \in 1 .. (n + 1), events[i].kind = "Trade",
              \A k \in (i + 1) .. (n + 1) : events[k].kind # "Trade"
       PROVE  events[i].buyer = to[2]
  <2>1. CASE i = n + 1
    BY <1>12, <2>1 DEF Leads
  <2>2. CASE i # n + 1
    <3>1. i \in 1 .. n /\ n + 1 \in (i + 1) .. (n + 1)
      BY <1>0, <2>2
    <3>2. ev.kind # "Trade"
      BY <1>12, <3>1
    <3>3. to[2] = from[2]
      BY <3>2 DEF Leads, Kinds
    <3>4. \A k \in (i + 1) .. n : older[k].kind # "Trade"
      <4>1. \A k \in (i + 1) .. n : k \in 1 .. n /\ k \in (i + 1) .. (n + 1)
        BY <1>0, <3>1
      <4> QED BY <1>12, <4>1
    <3> QED BY <1>12, <3>1, <3>3, <3>4 DEF Told
  <2> QED BY <2>1, <2>2
<1>13. \E p : /\ Places(p, events, n + 1)
              /\ p[n + 1] = to[3]
              /\ \A i \in 2 .. (n + 1) :
                   /\ events[i].kind = "Transport" => events[i].origin = p[i - 1]
                   /\ events[i].kind = "Store" => events[i].warehouse = p[i - 1]
  BY <1>6, <1>9, <1>10
<1> QED BY <1>0, <1>2, <1>3, <1>11, <1>12, <1>13 DEF Told

Fresh(made, time) == Day(time) <= Day(made.time) + made.shelfLife

\* The first n events are in the order of time, and none is later than the food keeps.
Aged(events, n, made) ==
  \A i \in 2 .. n : events[i - 1].time <= events[i].time /\ Fresh(made, events[i].time)

\* The identity each hash led to when it became the head of a lot's chain.
Files(file, trace) ==
  /\ file \in [DOMAIN trace -> Identity]
  /\ \A h \in DOMAIN trace :
       /\ RootHash(file[h][1]) \in DOMAIN trace
       /\ trace[RootHash(file[h][1])].event.kind = "Produce"
       /\ trace[h].event.kind = "Produce" => h = RootHash(file[h][1]) /\ trace[h].event.manufacturer = file[h][3]
       /\ trace[h].event.kind # "Produce" => Leads(trace[h].event, file[trace[h].parent], file[h])

\* Each event of the trace is later than the one before, and not later than the food keeps.
Ages(file, trace) ==
  \A h \in DOMAIN trace : trace[h].event.kind # "Produce" =>
    /\ trace[trace[h].parent].event.time <= trace[h].event.time
    /\ Fresh(trace[RootHash(file[h][1])].event, trace[h].event.time)

Made(file, trace, h) == trace[RootHash(file[h][1])].event

\* The chains tell how the food came to be filed as it is.
LEMMA ChainsTell ==
  ASSUME NEW trace, TraceOK(trace), NoHash \notin DOMAIN trace,
         NEW chain, Chains(chain, trace), NEW file, Files(file, trace), NEW h \in DOMAIN trace
  PROVE  /\ Len(chain[h]) \in Nat \ {0}
         /\ Len(OldestFirst(chain[h])) = Len(chain[h])
         /\ DOMAIN OldestFirst(chain[h]) = 1 .. Len(chain[h])
         /\ OldestFirst(chain[h])[Len(chain[h])] = trace[h].event
         /\ Told(OldestFirst(chain[h]), Len(chain[h]), file[h], Made(file, trace, h))
         /\ Ages(file, trace) => Aged(OldestFirst(chain[h]), Len(chain[h]), Made(file, trace, h))
<1> DEFINE events == {trace[x].event : x \in DOMAIN trace}
           Claim(x) == /\ Len(chain[x]) \in Nat \ {0}
                       /\ Len(OldestFirst(chain[x])) = Len(chain[x])
                       /\ DOMAIN OldestFirst(chain[x]) = 1 .. Len(chain[x])
                       /\ OldestFirst(chain[x])[Len(chain[x])] = trace[x].event
                       /\ Told(OldestFirst(chain[x]), Len(chain[x]), file[x], Made(file, trace, x))
                       /\ Ages(file, trace) => Aged(OldestFirst(chain[x]), Len(chain[x]), Made(file, trace, x))
           Upto(n) == \A x \in DOMAIN trace : Len(chain[x]) <= n => Claim(x)
<1>1. ASSUME NEW x \in DOMAIN trace
      PROVE  /\ trace[x].parent = NoHash <=> trace[x].event.kind = "Produce"
             /\ trace[x].parent # NoHash => trace[x].parent \in DOMAIN trace
             /\ trace[x].event.kind \in Kinds
  BY DEF TraceOK, EventOK
<1>2. ASSUME NEW x \in DOMAIN trace
      PROVE  /\ Len(chain[x]) \in Nat \ {0}
             /\ trace[x].parent # NoHash => /\ Len(chain[x]) = Len(chain[trace[x].parent]) + 1
                                           /\ Len(chain[trace[x].parent]) \in Nat \ {0}
  BY <1>1, ChainGrows
<1>3. ASSUME NEW x \in DOMAIN trace
      PROVE  /\ chain[x] = <<trace[x].event>> \o (IF trace[x].parent = NoHash THEN <<>> ELSE chain[trace[x].parent])
             /\ chain[x] \in Seq(events) /\ trace[x].event \in events
  BY DEF Chains
<1>4. ASSUME NEW x \in DOMAIN trace, trace[x].event.kind = "Produce" PROVE Claim(x)
  <2> DEFINE none == <<>>
  <2>1. Continues(chain[x], trace[x].event, none)
    BY <1>1, <1>3, <1>4 DEF Continues
  <2>2. none \in Seq(events) /\ Len(none) = 0
    OBVIOUS
  <2>3. trace[x].event \in events
    BY <1>3
  <2> HIDE DEF events, none
  <2>4. /\ Len(chain[x]) = 1 /\ Len(OldestFirst(chain[x])) = Len(chain[x])
        /\ DOMAIN OldestFirst(chain[x]) = 1 .. 1 /\ OldestFirst(chain[x])[1] = trace[x].event
    <3>1. /\ Len(chain[x]) = Len(none) + 1
          /\ Len(OldestFirst(chain[x])) = Len(chain[x])
          /\ DOMAIN OldestFirst(chain[x]) = 1 .. (Len(none) + 1)
          /\ OldestFirst(chain[x])[Len(none) + 1] = trace[x].event
          /\ \A i \in 1 .. Len(none) : OldestFirst(chain[x])[i] = OldestFirst(none)[i]
      <4>1. none \in Seq(events)
        BY <2>2
      <4> QED BY <2>1, <2>3, <4>1, OldestFirstAppends
    <3> QED BY <2>2, <3>1
  <2>5. Made(file, trace, x) = trace[x].event /\ trace[x].event.manufacturer = file[x][3]
    BY <1>4 DEF Files, Made
  <2>6. Told(OldestFirst(chain[x]), 1, file[x], Made(file, trace, x))
    BY <1>4, <2>4, <2>5, ToldStart
  <2>7. Aged(OldestFirst(chain[x]), 1, Made(file, trace, x))
    <3>1. \A i \in 2 .. 1 : FALSE
      OBVIOUS
    <3> QED BY <3>1 DEF Aged
  <2>8. Len(chain[x]) = 1 /\ 1 \in Nat \ {0}
    BY <2>4
  <2> QED BY <2>4, <2>6, <2>7, <2>8
<1>5. ASSUME NEW x \in DOMAIN trace, trace[x].event.kind # "Produce", Claim(trace[x].parent) PROVE Claim(x)
  <2> DEFINE p == trace[x].parent
             n == Len(chain[p])
  <2>1. p \in DOMAIN trace /\ p # NoHash
    BY <1>1, <1>5
  <2>2. Continues(chain[x], trace[x].event, chain[p]) /\ trace[x].event \in events /\ chain[p] \in Seq(events)
    BY <1>3, <2>1 DEF Continues
  <2>3. n \in Nat \ {0} /\ Len(chain[x]) = n + 1
    BY <1>2, <2>1
  <2>4. /\ Len(OldestFirst(chain[x])) = Len(chain[x])
        /\ DOMAIN OldestFirst(chain[x]) = 1 .. (n + 1)
        /\ OldestFirst(chain[x])[n + 1] = trace[x].event
        /\ \A i \in 1 .. n : OldestFirst(chain[x])[i] = OldestFirst(chain[p])[i]
    <3> HIDE DEF events, p
    <3>1. /\ Len(chain[x]) = Len(chain[p]) + 1
          /\ Len(OldestFirst(chain[x])) = Len(chain[x])
          /\ DOMAIN OldestFirst(chain[x]) = 1 .. (Len(chain[p]) + 1)
          /\ OldestFirst(chain[x])[Len(chain[p]) + 1] = trace[x].event
          /\ \A i \in 1 .. Len(chain[p]) : OldestFirst(chain[x])[i] = OldestFirst(chain[p])[i]
      BY <2>2, OldestFirstAppends
    <3> QED BY <3>1
  <2>5. Leads(trace[x].event, file[p], file[x]) /\ trace[x].event.kind \in Kinds \ {"Produce"}
    BY <1>1, <1>5 DEF Files
  <2>6. file[x][1] = file[p][1]
    BY <2>5 DEF Leads, Kinds
  <2>7. Made(file, trace, x) = Made(file, trace, p)
    BY <2>6 DEF Made
  <2>8. Told(OldestFirst(chain[p]), n, file[p], Made(file, trace, p))
    BY <1>5
  <2>9. Told(OldestFirst(chain[x]), n + 1, file[x], Made(file, trace, x))
    <3> HIDE DEF p, n
    <3> QED BY <2>4, <2>5, <2>7, <2>8, ToldStep
  <2>10. ASSUME Ages(file, trace) PROVE Aged(OldestFirst(chain[x]), n + 1, Made(file, trace, x))
    <3>1. Aged(OldestFirst(chain[p]), n, Made(file, trace, x)) /\ OldestFirst(chain[p])[n] = trace[p].event
      BY <1>5, <2>7, <2>10
    <3>2. /\ trace[p].event.time <= trace[x].event.time
          /\ Fresh(Made(file, trace, x), trace[x].event.time)
      BY <1>5, <2>10 DEF Ages, Made
    <3> HIDE DEF p, n
    <3> SUFFICES ASSUME NEW i \in 2 .. (n + 1)
                 PROVE  /\ OldestFirst(chain[x])[i - 1].time <= OldestFirst(chain[x])[i].time
                        /\ Fresh(Made(file, trace, x), OldestFirst(chain[x])[i].time)
      BY DEF Aged
    <3>3. CASE i = n + 1
      <4>1. OldestFirst(chain[x])[i] = trace[x].event /\ OldestFirst(chain[x])[i - 1] = trace[p].event
        <5>1. i - 1 = n /\ n \in 1 .. n
          BY <2>3, <3>3
        <5> QED BY <2>4, <3>1, <3>3, <5>1
      <4> QED BY <3>2, <4>1
    <3>4. CASE i # n + 1
      <4>1. i \in 2 .. n /\ i \in 1 .. n /\ i - 1 \in 1 .. n
        BY <2>3, <3>4
      <4> QED BY <2>4, <3>1, <4>1 DEF Aged
    <3> QED BY <3>3, <3>4
  <2> QED BY <2>3, <2>4, <2>9, <2>10
<1>6. Upto(0)
  <2>1. \A x \in DOMAIN trace : ~(Len(chain[x]) <= 0)
    BY <1>2
  <2> QED BY <2>1
<1> HIDE DEF Claim
<1>7. ASSUME NEW n \in Nat, Upto(n) PROVE Upto(n + 1)
  <2> SUFFICES ASSUME NEW x \in DOMAIN trace, Len(chain[x]) <= n + 1 PROVE Claim(x)
    OBVIOUS
  <2>1. CASE trace[x].event.kind = "Produce"
    BY <1>4, <2>1
  <2>2. CASE trace[x].event.kind # "Produce"
    <3>1. trace[x].parent \in DOMAIN trace /\ trace[x].parent # NoHash
      BY <1>1, <2>2
    <3>2. Len(chain[trace[x].parent]) <= n
      BY <1>2, <3>1
    <3> QED BY <1>5, <1>7, <2>2, <3>1, <3>2
  <2> QED BY <2>1, <2>2
<1>8. \A n \in Nat : Upto(n)
  <2> HIDE DEF Upto
  <2> DEFINE S == {n \in Nat : Upto(n)}
  <2>1. 0 \in S /\ \A n \in Nat : n \in S => n + 1 \in S
    BY <1>6, <1>7
  <2>2. Nat \subseteq S
    <3> HIDE DEF S
    <3> QED BY <2>1, Induction
  <2> QED BY <2>2
<1>9. Len(chain[h]) \in Nat /\ Len(chain[h]) <= Len(chain[h])
  BY <1>2
<1>10. Claim(h)
  <2>1. Upto(Len(chain[h]))
    BY <1>8, <1>9
  <2> QED BY <1>9, <2>1
<1> QED BY <1>10 DEF Claim

LEMMA NoHashIsAbsent ==
  ASSUME NEW trace, NEW made, TraceKeys(trace, made) PROVE NoHash \notin DOMAIN trace
<1> SUFFICES ASSUME NoHash \in DOMAIN trace PROVE FALSE
  OBVIOUS
<1>1. (\E b \in made : NoHash = RootHash(b)) \/ NoHash = Link(trace[NoHash].event, trace[NoHash].parent)
  BY DEF TraceKeys
<1> QED BY <1>1, NoHashIsNone

\* A new entry continues the chain of its parent, if it has one.
LEMMA ChainsGrow ==
  ASSUME NEW trace, NEW chain, Chains(chain, trace), NEW hash, hash \notin DOMAIN trace, NEW ev, NEW parent,
         parent = NoHash \/ parent \in DOMAIN trace,
         \A h \in DOMAIN trace : trace[h].parent # NoHash => trace[h].parent \in DOMAIN trace
  PROVE  \E longer : Chains(longer, Put(trace, hash, Trace(ev, parent)))
<1> DEFINE new    == Put(trace, hash, Trace(ev, parent))
           tail   == IF parent = NoHash THEN <<>> ELSE chain[parent]
           longer == [h \in DOMAIN new |-> IF h = hash THEN <<ev>> \o tail ELSE chain[h]]
           old    == {trace[h].event : h \in DOMAIN trace}
           events == {new[h].event : h \in DOMAIN new}
<1>1. /\ DOMAIN new = DOMAIN trace \cup {hash}
      /\ new[hash].event = ev /\ new[hash].parent = parent
      /\ \A h \in DOMAIN trace : new[h] = trace[h] /\ h # hash
  BY TraceFields DEF Put
<1> HIDE DEF new
<1>2. old \subseteq events /\ ev \in events
  BY <1>1
<1>3. ASSUME NEW h \in DOMAIN trace
      PROVE  /\ chain[h] = <<trace[h].event>> \o (IF trace[h].parent = NoHash THEN <<>> ELSE chain[trace[h].parent])
             /\ chain[h] \in Seq(old)
  BY DEF Chains
<1>4. ASSUME NEW h \in DOMAIN trace PROVE chain[h] \in Seq(events)
  <2>1. chain[h] \in Seq(old)
    BY <1>3
  <2> HIDE DEF old, events
  <2> QED BY <1>2, <2>1
<1>5. tail \in Seq(events)
  <2>1. CASE parent = NoHash
    <3> HIDE DEF events
    <3> QED BY <2>1
  <2>2. CASE parent # NoHash
    BY <1>4, <2>2
  <2> QED BY <2>1, <2>2
<1>6. <<ev>> \o tail \in Seq(events)
  <2> HIDE DEF events, tail
  <2> QED BY <1>2, <1>5
<1>7. ASSUME NEW h \in DOMAIN new PROVE longer[h] \in Seq(events)
  <2>1. CASE h = hash
    BY <1>6, <2>1
  <2>2. CASE h # hash
    BY <1>1, <1>4, <2>2
  <2> QED BY <2>1, <2>2
<1>8. longer \in [DOMAIN new -> Seq(events)]
  <2>1. longer = [h \in DOMAIN new |-> longer[h]]
    OBVIOUS
  <2> HIDE DEF longer, events
  <2> QED BY <1>7, <2>1
<1>9. ASSUME NEW h \in DOMAIN new
      PROVE  longer[h] = <<new[h].event>> \o (IF new[h].parent = NoHash THEN <<>> ELSE longer[new[h].parent])
  <2>1. CASE h = hash
    <3>1. CASE parent = NoHash
      BY <1>1, <2>1, <3>1
    <3>2. CASE parent # NoHash
      <4>1. parent \in DOMAIN new /\ parent # hash
        BY <1>1, <3>2
      <4>2. longer[parent] = chain[parent] /\ longer[h] = <<ev>> \o chain[parent]
        BY <2>1, <3>2, <4>1
      <4> HIDE DEF longer
      <4> QED BY <1>1, <2>1, <3>2, <4>2
    <3> QED BY <3>1, <3>2
  <2>2. CASE h # hash
    <3>1. h \in DOMAIN trace /\ new[h] = trace[h] /\ longer[h] = chain[h]
      BY <1>1, <2>2
    <3>2. CASE trace[h].parent = NoHash
      <4> HIDE DEF longer
      <4> QED BY <1>3, <3>1, <3>2
    <3>3. CASE trace[h].parent # NoHash
      <4>1. trace[h].parent \in DOMAIN new /\ trace[h].parent # hash
        BY <1>1, <3>1, <3>3
      <4>2. longer[trace[h].parent] = chain[trace[h].parent]
        BY <4>1
      <4> HIDE DEF longer
      <4> QED BY <1>3, <3>1, <3>3, <4>2
    <3> QED BY <3>2, <3>3
  <2> QED BY <2>1, <2>2
<1>10. Chains(longer, new)
  <2> HIDE DEF longer
  <2> QED BY <1>8, <1>9 DEF Chains
<1> HIDE DEF longer
<1> QED BY <1>10 DEF new

\* Food that is on record and keeps until time.
Keeping(trace, bar, time) == RootHash(bar) \in DOMAIN trace /\ Fresh(trace[RootHash(bar)].event, time)

\* Every lot is filed under the identity its hash led to.
Lots(file, item) ==
  \A id \in Identity : \A n \in Nonces : item[id][n].held => file[item[id][n].hash] = id

Books(trace, item) ==
  /\ trace = [h \in DOMAIN trace |-> trace[h]]
  /\ \E chain : Chains(chain, trace)
  /\ \E file : Files(file, trace) /\ Lots(file, item) /\ (MaxTime < Century => Ages(file, trace))

LEMMA BooksShrink ==
  ASSUME NEW trace, NEW item, NEW new, Books(trace, item),
         \A id \in Identity : \A n \in Nonces :
           new[id][n].held => item[id][n].held /\ new[id][n].hash = item[id][n].hash
  PROVE  Books(trace, new)
BY DEF Books, Lots
\* An event that takes goods from one identity to another continues the books.
LEMMA LinkBooks ==
  ASSUME NEW trace, NEW made, TraceOK(trace), TraceKeys(trace, made), NEW item, ItemOK(item, trace),
         Books(trace, item),
         NEW ev, ev.kind \in Kinds \ {"Produce"}, NEW src \in Identity, NEW dst \in Identity,
         Leads(ev, src, dst),
         NEW n \in Nonces, item[src][n].held,
         MaxTime < Century => /\ trace[item[src][n].hash].event.time <= ev.time
                              /\ Keeping(trace, src[1], ev.time),
         NEW new,
         \A id \in Identity : \A m \in Nonces : new[id][m].held =>
           \/ \E k \in Nonces : item[id][k].held /\ new[id][m].hash = item[id][k].hash
           \/ id = dst /\ new[id][m].hash = Link(ev, item[src][n].hash)
  PROVE  Books(Put(trace, Link(ev, item[src][n].hash), Trace(ev, item[src][n].hash)), new)
<1> DEFINE parent == item[src][n].hash
           hash   == Link(ev, parent)
           longer == Put(trace, hash, Trace(ev, parent))
<1>1. parent \in DOMAIN trace
  BY DEF ItemOK, Absent, NoLot, IsLot
<1>2. NoHash \notin DOMAIN trace
  BY NoHashIsAbsent
<1>3. /\ DOMAIN longer = DOMAIN trace \cup {hash}
      /\ longer[hash].event = ev /\ longer[hash].parent = parent
      /\ Keeps(trace, longer)
  <2>1. Keeps(trace, longer)
    BY PutLink
  <2> QED BY <2>1, TraceFields DEF Put
<1>4. PICK file : Files(file, trace) /\ Lots(file, item) /\ (MaxTime < Century => Ages(file, trace))
  BY DEF Books
<1>5. PICK chain : Chains(chain, trace)
  BY DEF Books
<1>6. file[parent] = src
  BY <1>4 DEF Lots
<1>7. ASSUME NEW h \in DOMAIN trace
      PROVE  /\ trace[h].parent = NoHash <=> trace[h].event.kind = "Produce"
             /\ trace[h].parent # NoHash => trace[h].parent \in DOMAIN trace
             /\ longer[h] = trace[h]
  BY <1>2, <1>3 DEF TraceOK, Keeps
<1>8. ASSUME NEW h \in DOMAIN trace
      PROVE  /\ file[h] \in Identity /\ RootHash(file[h][1]) \in DOMAIN trace
             /\ trace[RootHash(file[h][1])].event.kind = "Produce"
             /\ trace[h].event.kind = "Produce" => h = RootHash(file[h][1]) /\ trace[h].event.manufacturer = file[h][3]
             /\ trace[h].event.kind # "Produce" => Leads(trace[h].event, file[trace[h].parent], file[h])
             /\ MaxTime < Century /\ trace[h].event.kind # "Produce" =>
                  /\ trace[trace[h].parent].event.time <= trace[h].event.time
                  /\ Fresh(trace[RootHash(file[h][1])].event, trace[h].event.time)
  BY <1>4 DEF Files, Ages
<1>9. CASE hash \in DOMAIN trace
  <2>1. longer = trace
    <3>1. longer = [h \in DOMAIN trace |-> longer[h]]
      BY <1>9 DEF Put
    <3>2. trace = [h \in DOMAIN trace |-> trace[h]]
      BY DEF Books
    <3> HIDE DEF longer
    <3> QED BY <1>7, <3>1, <3>2
  <2>2. trace[hash].event = ev /\ trace[hash].parent = parent
    BY <1>3, <1>7, <1>9
  <2>3. file[hash] = dst
    <3>1. Leads(ev, src, file[hash])
      BY <1>6, <1>8, <1>9, <2>2
    <3> QED BY <3>1 DEF Leads, Kinds
  <2>4. Lots(file, new)
    BY <1>4, <2>3 DEF Lots
  <2> HIDE DEF longer
  <2>5. Books(longer, new)
    BY <1>4, <1>5, <2>1, <2>4 DEF Books
  <2> QED BY <2>5 DEF longer
<1>10. CASE hash \notin DOMAIN trace
  <2> DEFINE books == Put(file, hash, dst)
  <2>1. /\ DOMAIN books = DOMAIN longer /\ books[hash] = dst
        /\ \A h \in DOMAIN trace : books[h] = file[h] /\ h # hash
    BY <1>3, <1>4, <1>10 DEF Put, Files
  <2>2. books = [h \in DOMAIN longer |-> books[h]]
    BY <2>1 DEF Put
  <2>3. \E l : Chains(l, longer)
    BY <1>1, <1>5, <1>7, <1>10, ChainsGrow
  <2> HIDE DEF longer, books
  <2>4. dst[1] = src[1]
    BY DEF Leads, Kinds
  <2>5. ASSUME NEW h \in DOMAIN trace
        PROVE  /\ books[h] = file[h] /\ longer[h] = trace[h]
               /\ RootHash(file[h][1]) \in DOMAIN longer
               /\ longer[RootHash(file[h][1])] = trace[RootHash(file[h][1])]
               /\ trace[h].event.kind # "Produce" => /\ books[trace[h].parent] = file[trace[h].parent]
                                                   /\ longer[trace[h].parent] = trace[trace[h].parent]
    <3>1. RootHash(file[h][1]) \in DOMAIN trace
      BY <1>8
    <3>2. trace[h].event.kind # "Produce" => trace[h].parent \in DOMAIN trace
      BY <1>7
    <3> QED BY <1>3, <1>7, <2>1, <3>1, <3>2
  <2>6. ASSUME NEW h \in DOMAIN longer
        PROVE  /\ books[h] \in Identity
               /\ RootHash(books[h][1]) \in DOMAIN longer
               /\ longer[RootHash(books[h][1])].event.kind = "Produce"
               /\ longer[h].event.kind = "Produce" => h = RootHash(books[h][1]) /\ longer[h].event.manufacturer = books[h][3]
               /\ longer[h].event.kind # "Produce" => Leads(longer[h].event, books[longer[h].parent], books[h])
               /\ MaxTime < Century /\ longer[h].event.kind # "Produce" =>
                    /\ longer[longer[h].parent].event.time <= longer[h].event.time
                    /\ Fresh(longer[RootHash(books[h][1])].event, longer[h].event.time)
    <3>1. CASE h \in DOMAIN trace
      BY <1>8, <2>5, <3>1
    <3>2. CASE h = hash
      <4>1. books[h] = dst /\ longer[h].event = ev /\ longer[h].parent = parent
        BY <1>3, <2>1, <3>2
      <4>2. books[parent] = src /\ longer[parent] = trace[parent]
        BY <1>1, <1>6, <2>5
      <4>3. /\ RootHash(src[1]) \in DOMAIN longer
            /\ longer[RootHash(src[1])] = trace[RootHash(src[1])]
            /\ trace[RootHash(src[1])].event.kind = "Produce"
        BY <1>1, <1>6, <1>8, <2>5
      <4> QED BY <2>4, <4>1, <4>2, <4>3 DEF Keeping
    <3> QED BY <1>3, <3>1, <3>2
  <2>7. Files(books, longer)
    BY <2>2, <2>6 DEF Files
  <2>8. MaxTime < Century => Ages(books, longer)
    BY <2>6 DEF Ages
  <2>9. Lots(books, new)
    <3> SUFFICES ASSUME NEW id \in Identity, NEW m \in Nonces, new[id][m].held
                 PROVE  books[new[id][m].hash] = id
      BY DEF Lots
    <3>1. CASE \E k \in Nonces : item[id][k].held /\ new[id][m].hash = item[id][k].hash
      <4>1. PICK k \in Nonces : item[id][k].held /\ new[id][m].hash = item[id][k].hash
        BY <3>1
      <4>2. item[id][k].hash \in DOMAIN trace
        BY <4>1 DEF ItemOK, Absent, NoLot, IsLot
      <4> QED BY <1>4, <2>5, <4>1, <4>2 DEF Lots
    <3>2. CASE id = dst /\ new[id][m].hash = hash
      BY <2>1, <3>2
    <3> QED BY <3>1, <3>2
  <2>10. longer = [h \in DOMAIN longer |-> longer[h]]
    BY DEF longer, Put
  <2>11. Books(longer, new)
    BY <2>3, <2>7, <2>8, <2>9, <2>10 DEF Books
  <2> QED BY <2>11 DEF longer
<1> QED BY <1>9, <1>10

\* So does the production of food that was not on record.
LEMMA RootBooks ==
  ASSUME NEW trace, NEW made, TraceOK(trace), TraceKeys(trace, made), NEW item, ItemOK(item, trace),
         Books(trace, item), NEW ev, ev.kind = "Produce",
         NEW dst \in Identity, ev.manufacturer = dst[3], RootHash(dst[1]) \notin DOMAIN trace,
         NEW new,
         \A id \in Identity : \A m \in Nonces : new[id][m].held =>
           \/ \E k \in Nonces : item[id][k].held /\ new[id][m].hash = item[id][k].hash
           \/ id = dst /\ new[id][m].hash = RootHash(dst[1])
  PROVE  Books(Put(trace, RootHash(dst[1]), Trace(ev, NoHash)), new)
<1> DEFINE hash   == RootHash(dst[1])
           longer == Put(trace, hash, Trace(ev, NoHash))
<1>2. NoHash \notin DOMAIN trace
  BY NoHashIsAbsent
<1>3. /\ DOMAIN longer = DOMAIN trace \cup {hash}
      /\ longer[hash].event = ev /\ longer[hash].parent = NoHash
      /\ \A h \in DOMAIN trace : longer[h] = trace[h]
  BY TraceFields DEF Put
<1>4. PICK file : Files(file, trace) /\ Lots(file, item) /\ (MaxTime < Century => Ages(file, trace))
  BY DEF Books
<1>5. PICK chain : Chains(chain, trace)
  BY DEF Books
<1>7. ASSUME NEW h \in DOMAIN trace
      PROVE  /\ trace[h].parent = NoHash <=> trace[h].event.kind = "Produce"
             /\ trace[h].parent # NoHash => trace[h].parent \in DOMAIN trace
             /\ longer[h] = trace[h]
  BY <1>2, <1>3 DEF TraceOK
<1>8. ASSUME NEW h \in DOMAIN trace
      PROVE  /\ file[h] \in Identity /\ RootHash(file[h][1]) \in DOMAIN trace
             /\ trace[RootHash(file[h][1])].event.kind = "Produce"
             /\ trace[h].event.kind = "Produce" => h = RootHash(file[h][1]) /\ trace[h].event.manufacturer = file[h][3]
             /\ trace[h].event.kind # "Produce" => Leads(trace[h].event, file[trace[h].parent], file[h])
             /\ MaxTime < Century /\ trace[h].event.kind # "Produce" =>
                  /\ trace[trace[h].parent].event.time <= trace[h].event.time
                  /\ Fresh(trace[RootHash(file[h][1])].event, trace[h].event.time)
  BY <1>4 DEF Files, Ages
<1> DEFINE books == Put(file, hash, dst)
<1>9. /\ DOMAIN books = DOMAIN longer /\ books[hash] = dst
      /\ \A h \in DOMAIN trace : books[h] = file[h] /\ h # hash
  BY <1>3, <1>4 DEF Put, Files
<1>10. books = [h \in DOMAIN longer |-> books[h]]
  BY <1>9 DEF Put
<1>11. \E l : Chains(l, longer)
  BY <1>5, <1>7, ChainsGrow
<1> HIDE DEF longer, books
<1>12. ASSUME NEW h \in DOMAIN trace
       PROVE  /\ books[h] = file[h] /\ longer[h] = trace[h]
              /\ RootHash(file[h][1]) \in DOMAIN longer
              /\ longer[RootHash(file[h][1])] = trace[RootHash(file[h][1])]
              /\ trace[h].event.kind # "Produce" => /\ books[trace[h].parent] = file[trace[h].parent]
                                                  /\ longer[trace[h].parent] = trace[trace[h].parent]
  <2>1. RootHash(file[h][1]) \in DOMAIN trace
    BY <1>8
  <2>2. trace[h].event.kind # "Produce" => trace[h].parent \in DOMAIN trace
    BY <1>7
  <2> QED BY <1>3, <1>9, <2>1, <2>2
<1>13. ASSUME NEW h \in DOMAIN longer
       PROVE  /\ books[h] \in Identity
              /\ RootHash(books[h][1]) \in DOMAIN longer
              /\ longer[RootHash(books[h][1])].event.kind = "Produce"
              /\ longer[h].event.kind = "Produce" => h = RootHash(books[h][1]) /\ longer[h].event.manufacturer = books[h][3]
              /\ longer[h].event.kind # "Produce" => Leads(longer[h].event, books[longer[h].parent], books[h])
              /\ MaxTime < Century /\ longer[h].event.kind # "Produce" =>
                   /\ longer[longer[h].parent].event.time <= longer[h].event.time
                   /\ Fresh(longer[RootHash(books[h][1])].event, longer[h].event.time)
  <2>1. CASE h \in DOMAIN trace
    BY <1>8, <1>12, <2>1
  <2>2. CASE h = hash
    BY <1>3, <1>9, <2>2
  <2> QED BY <1>3, <2>1, <2>2
<1>14. Files(books, longer)
  BY <1>10, <1>13 DEF Files
<1>15. MaxTime < Century => Ages(books, longer)
  BY <1>13 DEF Ages
<1>16. Lots(books, new)
  <2> SUFFICES ASSUME NEW id \in Identity, NEW m \in Nonces, new[id][m].held
               PROVE  books[new[id][m].hash] = id
    BY DEF Lots
  <2>1. CASE \E k \in Nonces : item[id][k].held /\ new[id][m].hash = item[id][k].hash
    <3>1. PICK k \in Nonces : item[id][k].held /\ new[id][m].hash = item[id][k].hash
      BY <2>1
    <3>2. item[id][k].hash \in DOMAIN trace
      BY <3>1 DEF ItemOK, Absent, NoLot, IsLot
    <3> QED BY <1>4, <1>12, <3>1, <3>2 DEF Lots
  <2>2. CASE id = dst /\ new[id][m].hash = hash
    BY <1>9, <2>2
  <2> QED BY <2>1, <2>2
<1>17. longer = [h \in DOMAIN longer |-> longer[h]]
  BY DEF longer, Put
<1>18. Books(longer, new)
  BY <1>11, <1>14, <1>15, <1>16, <1>17 DEF Books
<1> QED BY <1>18 DEF longer
Movers == {"trade", "transport", "store"}

\* The event of a call is of this moment, leads from its source to its destination,
\* and concerns food that has not passed its shelf life.
CallFits ==
  /\ pc \in Looping => call.event.time = Stamp(now)
  /\ pc \in Movers => Leads(call.event, call.src, call.dst)
  /\ pc = "produce" => call.event.manufacturer = call.dst[3]
  /\ pc \in Looping /\ call.left > 0 => Keeping(FoodTrace, call.src[1], call.event.time)

NoFuture == \A h \in DOMAIN FoodTrace : FoodTrace[h].event.time <= now

CustodyInv ==
  /\ Books(FoodTrace, FoodItem)
  /\ Books(committed.trace, committed.item)
  /\ now <= MaxTime
  /\ NoFuture
  /\ CallFits

LEMMA StampFacts ==
  ASSUME now \in Nat
  PROVE  Stamp(now) \in Nat /\ Stamp(now) <= now /\ (now < Century => Stamp(now) = now)
<1>1. Century \in Nat \ {0}
  BY ClockAssumption
<1>2. now = Century * (now \div Century) + Stamp(now) /\ now \div Century \in Nat /\ Stamp(now) \in 0 .. (Century - 1)
  BY <1>1 DEF Stamp
<1>3. Century * (now \div Century) \in Nat
  BY <1>1, <1>2
<1>4. ASSUME now < Century PROVE Stamp(now) = now
  <2>1. now \div Century = 0
    BY <1>1, <1>4
  <2> QED BY <1>1, <1>2, <2>1
<1> QED BY <1>2, <1>3, <1>4

LEMMA FreshWhenVerified ==
  ASSUME NEW bar, ShelfLifeError(bar) = Ok, TypeInv
  PROVE  Keeping(FoodTrace, bar, Stamp(now))
<1> DEFINE made == FoodTrace[RootHash(bar)].event
<1>1. RootHash(bar) \in DOMAIN FoodTrace
  BY DEF ShelfLifeError, Ok
<1>2. made.kind = "Produce" /\ Day(made.time) + made.shelfLife >= Day(Stamp(now))
  BY <1>1 DEF ShelfLifeError, Ok
<1>3. made.time \in Nat /\ made.shelfLife \in Nat
  BY <1>1, <1>2 DEF TypeInv, TypeOK, TraceOK, EventOK
<1>4. Day(made.time) \in Int /\ Day(Stamp(now)) \in Int
  BY <1>3, StampFacts, ClockAssumption DEF Day, TypeInv, TypeOK
<1> QED BY <1>1, <1>2, <1>3, <1>4 DEF Keeping, Fresh

LEMMA InitCustodyInv == Init => CustodyInv
<1> SUFFICES ASSUME Init PROVE CustodyInv
  OBVIOUS
<1>1. /\ FoodTrace = [h \in {} |-> None] /\ DOMAIN FoodTrace = {} /\ now = 0 /\ pc = "idle"
      /\ committed.trace = FoodTrace /\ committed.item = FoodItem
      /\ \A id \in Identity : \A n \in Nonces : FoodItem[id][n] = NoLot
  BY DEF Init, Empty, Snapshot
<1>2. \E chain : Chains(chain, FoodTrace)
  <2>1. FoodTrace \in [DOMAIN FoodTrace -> Seq({FoodTrace[h].event : h \in DOMAIN FoodTrace})]
    BY <1>1
  <2> QED BY <1>1, <2>1 DEF Chains
<1>3. Files(FoodTrace, FoodTrace) /\ Ages(FoodTrace, FoodTrace)
  BY <1>1 DEF Files, Ages
<1>4. Lots(FoodTrace, FoodItem)
  BY <1>1 DEF Lots, NoLot
<1>5. Books(FoodTrace, FoodItem)
  BY <1>1, <1>2, <1>3, <1>4 DEF Books
<1> QED BY <1>1, <1>5, ClockAssumption DEF CustodyInv, NoFuture, CallFits, Looping, Movers

LEMMA QuietCustodyInv ==
  ASSUME CustodyInv, UNCHANGED <<FoodItem, FoodTrace, committed, now>>,
         pc' \in {"idle", "return", "spin"} \/ (pc' = pc /\ UNCHANGED call)
  PROVE  CustodyInv'
<1>1. CallFits'
  BY DEF CustodyInv, CallFits, Looping, Movers, Stamp, Keeping
<1> QED BY <1>1 DEF CustodyInv, NoFuture

\* A call that moves food starts with an event that leads from its source to its
\* destination.
LEMMA StartCustodyInv ==
  ASSUME CustodyInv, UNCHANGED <<FoodItem, FoodTrace, committed, now>>, pc' \in Movers,
         call'.event.time = Stamp(now), Leads(call'.event, call'.src, call'.dst),
         Keeping(FoodTrace, call'.src[1], Stamp(now))
  PROVE  CustodyInv'
<1>1. CallFits'
  BY DEF CallFits, Movers, Stamp
<1> QED BY <1>1 DEF CustodyInv, NoFuture

LEMMA TradeCustodyInv ==
  ASSUME TypeInv, CustodyInv, Trade
  PROVE  CustodyInv'
<1>1. PICK o \in Origins, bar \in RawCodes, locate \in Ids, buyer \in Ids, amount \in Amounts :
        TradeFood(o, bar, locate, buyer, amount)
  BY DEF Trade
<1> DEFINE errors == <<MetadataError(o), GlnError(locate), GlnError(buyer),
                       BarCodeError(bar), AmountError(amount, bar), ShelfLifeError(bar)>>
           event  == [kind |-> "Trade", seller |-> AccountGLN[o], buyer |-> GlnOf(buyer), time |-> Stamp(now)]
           src    == Holding(bar, AccountGLN[o], GlnOf(locate))
           dst    == Holding(bar, GlnOf(buyer), GlnOf(locate))
<1>2. CASE Reject(errors) \/ NonceOverrun
  BY <1>2, QuietCustodyInv DEF Reject, NonceOverrun, Return, storage
<1>3. CASE Passes(errors) /\ StartMove("trade", src, dst, amount, event) /\ ~NonceOverrun
  <2>1. ShelfLifeError(bar) = Ok
    BY <1>3 DEF Passes
  <2>2. Keeping(FoodTrace, bar, Stamp(now))
    BY <2>1, FreshWhenVerified
  <2>3. /\ pc' = "trade" /\ UNCHANGED <<FoodItem, FoodTrace, committed, now>>
        /\ call'.event = event /\ call'.src = src /\ call'.dst = dst
    BY <1>3 DEF StartMove, NoCall, storage
  <2>4. Leads(event, src, dst) /\ event.time = Stamp(now) /\ src[1] = bar
    BY DEF Leads, Holding
  <2> HIDE DEF event, src, dst
  <2> QED BY <2>2, <2>3, <2>4, StartCustodyInv DEF Movers
<1> QED BY <1>1, <1>2, <1>3 DEF TradeFood

LEMMA TransportCustodyInv ==
  ASSUME TypeInv, CustodyInv, Transport
  PROVE  CustodyInv'
<1>1. PICK o \in Origins, bar \in RawCodes, from \in Ids, dest \in Ids, carrier \in Ids,
           sscc \in SSCCs \cup {Malformed}, amount \in Amounts :
        TransportFood(o, bar, from, dest, carrier, sscc, amount)
  BY DEF Transport
<1> DEFINE errors == <<MetadataError(o), GlnError(dest), BarCodeError(bar), GlnError(carrier),
                       GlnError(from), SsccError(sscc), AmountError(amount, bar), ShelfLifeError(bar)>>
           event  == [kind |-> "Transport", origin |-> GlnOf(from), destination |-> GlnOf(dest),
                      carrier |-> GlnOf(carrier), sscc |-> sscc, time |-> Stamp(now)]
           src    == Holding(bar, AccountGLN[o], GlnOf(from))
           dst    == Holding(bar, AccountGLN[o], GlnOf(dest))
<1>2. CASE Reject(errors) \/ NonceOverrun
  BY <1>2, QuietCustodyInv DEF Reject, NonceOverrun, Return, storage
<1>3. CASE Passes(errors) /\ StartMove("transport", src, dst, amount, event) /\ ~NonceOverrun
  <2>1. ShelfLifeError(bar) = Ok
    BY <1>3 DEF Passes
  <2>2. Keeping(FoodTrace, bar, Stamp(now))
    BY <2>1, FreshWhenVerified
  <2>3. /\ pc' = "transport" /\ UNCHANGED <<FoodItem, FoodTrace, committed, now>>
        /\ call'.event = event /\ call'.src = src /\ call'.dst = dst
    BY <1>3 DEF StartMove, NoCall, storage
  <2>4. Leads(event, src, dst) /\ event.time = Stamp(now) /\ src[1] = bar
    BY DEF Leads, Holding
  <2> HIDE DEF event, src, dst
  <2> QED BY <2>2, <2>3, <2>4, StartCustodyInv DEF Movers
<1> QED BY <1>1, <1>2, <1>3 DEF TransportFood

LEMMA StoreCustodyInv ==
  ASSUME TypeInv, CustodyInv, Store
  PROVE  CustodyInv'
<1>1. PICK o \in Origins, bar \in RawCodes, warehouse \in Ids, sscc \in SSCCs \cup {Malformed},
           amount \in Amounts : StoreFood(o, bar, warehouse, sscc, amount)
  BY DEF Store
<1> DEFINE errors == <<MetadataError(o), GlnError(warehouse), SsccError(sscc),
                       BarCodeError(bar), AmountError(amount, bar), ShelfLifeError(bar)>>
           event  == [kind |-> "Store", warehouse |-> GlnOf(warehouse), sscc |-> sscc, time |-> Stamp(now)]
           id     == Holding(bar, AccountGLN[o], GlnOf(warehouse))
<1>2. CASE Reject(errors) \/ NonceOverrun
  BY <1>2, QuietCustodyInv DEF Reject, NonceOverrun, Return, storage
<1>3. CASE /\ Passes(errors) /\ pc' = "store" /\ UNCHANGED <<FoodItem, FoodTrace, committed, now>>
           /\ call'.event = event /\ call'.src = id /\ call'.dst = id
  <2>1. ShelfLifeError(bar) = Ok
    BY <1>3 DEF Passes
  <2>2. Keeping(FoodTrace, bar, Stamp(now))
    BY <2>1, FreshWhenVerified
  <2>4. Leads(event, id, id) /\ event.time = Stamp(now) /\ id[1] = bar
    BY DEF Leads, Holding
  <2> HIDE DEF event, id
  <2> QED BY <1>3, <2>2, <2>4, StartCustodyInv DEF Movers
<1> QED BY <1>1, <1>2, <1>3 DEF StoreFood, NoCall, storage

LEMMA ProduceCustodyInv ==
  ASSUME TypeInv, CustodyInv, Produce
  PROVE  CustodyInv'
<1>1. PICK o \in Origins, bar \in RawCodes, maker \in Ids, amount \in Amounts, shelfLife \in ShelfLives,
           materials \in MaterialLists : ProduceFood(o, bar, maker, amount, shelfLife, materials)
  BY DEF Produce
<1>2. CASE pc' = "return" /\ UNCHANGED <<FoodItem, FoodTrace, committed, now>>
  BY <1>2, QuietCustodyInv
<1>3. CASE /\ pc' = "produce" /\ UNCHANGED <<FoodItem, FoodTrace, committed, now>>
           /\ call'.left = 0 /\ call'.event.time = Stamp(now) /\ call'.event.manufacturer = call'.dst[3]
  <2>1. ~(0 > 0) /\ "produce" \notin Movers
    BY DEF Movers
  <2>2. CallFits'
    BY <1>3, <2>1 DEF CallFits, Stamp
  <2> QED BY <1>3, <2>2 DEF CustodyInv, NoFuture
<1>4. ASSUME call' = [NoCall EXCEPT !.dst = Holding(bar, AccountGLN[o], GlnOf(maker)),
                        !.amount = amount, !.todo = materials,
                        !.event = [kind |-> "Produce", manufacturer |-> GlnOf(maker),
                                   license |-> ManufacturerLicense[GlnOf(maker)],
                                   shelfLife |-> shelfLife, time |-> Stamp(now)]]
      PROVE  call'.left = 0 /\ call'.event.time = Stamp(now) /\ call'.event.manufacturer = call'.dst[3]
  BY <1>4 DEF NoCall, Holding
<1> QED BY <1>1, <1>2, <1>3, <1>4 DEF ProduceFood, Reject, Return, storage
\* Moving or storing a lot files what was moved where the event of the call leads.
LEMMA LinkCustodyInv ==
  ASSUME TypeInv, TraceInv, CustodyInv, pc \in Movers, call.left > 0,
         call.src \in Identity, call.dst \in Identity,
         NEW n \in Nonces, FoodItem[call.src][n].held,
         FoodTrace' = Put(FoodTrace, Link(call.event, FoodItem[call.src][n].hash),
                                     Trace(call.event, FoodItem[call.src][n].hash)),
         UNCHANGED <<committed, now>>, pc' \in {pc, "return"},
         call'.event = call.event, call'.src = call.src, call'.dst = call.dst,
         \A id \in Identity : \A m \in Nonces : FoodItem'[id][m].held =>
           \/ \E k \in Nonces : FoodItem[id][k].held /\ FoodItem'[id][m].hash = FoodItem[id][k].hash
           \/ id = call.dst /\ FoodItem'[id][m].hash = Link(call.event, FoodItem[call.src][n].hash)
  PROVE  CustodyInv'
<1> DEFINE parent == FoodItem[call.src][n].hash
           hash   == Link(call.event, parent)
<1>1. /\ pc \in Looping /\ now \in Nat /\ EventOK(call.event) /\ call.event.kind \in Kinds \ {"Produce"}
      /\ ItemOK(FoodItem, FoodTrace) /\ TraceOK(FoodTrace) /\ TraceKeys(FoodTrace, DOMAIN FoodMaterials)
  BY DEF TypeInv, TypeOK, CallOK, Looping, Movers, EventOK, TraceInv
<1>2. /\ call.event.time = Stamp(now) /\ Leads(call.event, call.src, call.dst)
      /\ Keeping(FoodTrace, call.src[1], call.event.time)
  BY <1>1 DEF CustodyInv, CallFits
<1>3. parent \in DOMAIN FoodTrace
  BY <1>1, HeldIsLot DEF IsLot
<1>4. Stamp(now) \in Nat /\ Stamp(now) <= now /\ (MaxTime < Century => Stamp(now) = now)
  BY <1>1, StampFacts, ClockAssumption DEF CustodyInv
<1>5. MaxTime < Century => FoodTrace[parent].event.time <= call.event.time
  BY <1>2, <1>3, <1>4 DEF CustodyInv, NoFuture
<1>6. /\ DOMAIN FoodTrace' = DOMAIN FoodTrace \cup {hash} /\ FoodTrace'[hash].event = call.event
      /\ Keeps(FoodTrace, FoodTrace')
  <2>1. Keeps(FoodTrace, FoodTrace')
    BY <1>1, PutLink
  <2> QED BY <2>1, TraceFields DEF Put
<1>7. Books(FoodTrace', FoodItem')
  <2>1. CustodyInv /\ Books(FoodTrace, FoodItem)
    BY DEF CustodyInv
  <2> QED BY <1>1, <1>2, <1>5, <2>1, LinkBooks
<1>8. NoFuture'
  BY <1>2, <1>4, <1>6 DEF CustodyInv, NoFuture, Keeps
<1>9. Keeping(FoodTrace', call.src[1], call.event.time)
  BY <1>2, <1>6 DEF Keeping, Keeps
<1>10. CallFits'
  <2>1. pc' \in Movers => pc' = pc
    BY DEF Movers
  <2>2. pc' # "produce" /\ (pc' \in Looping => pc' \in Movers)
    BY DEF Looping, Movers
  <2> QED BY <1>1, <1>2, <1>9, <2>1, <2>2 DEF CallFits, Stamp
<1> QED BY <1>7, <1>8, <1>10 DEF CustodyInv

LEMMA MoveLotCustodyInv ==
  ASSUME TypeInv, TraceInv, CustodyInv, pc \in {"trade", "transport"}, MoveLot
  PROVE  CustodyInv'
<1> DEFINE n   == call.srcNonce - 1
           lot == FoodItem[call.src][n]
<1>1. /\ call.src \in Identity /\ call.dst \in Identity /\ n \in Nonces
      /\ call.left \in Nat \ {0} /\ lot.held
      /\ \A i \in Identity : \A m \in Nonces :
           FoodItem'[i][m] =
             IF i = call.dst /\ m = call.dstNonce
             THEN Lot(Smaller(lot.amount, call.left), Link(call.event, lot.hash))
             ELSE IF i = call.src /\ m = n
             THEN IF lot.amount > call.left THEN Lot(lot.amount - call.left, lot.hash) ELSE NoLot
             ELSE FoodItem[i][m]
  BY MoveLotEffect
<1>2. ASSUME NEW i \in Identity, NEW m \in Nonces, FoodItem'[i][m].held
      PROVE  \/ \E k \in Nonces : FoodItem[i][k].held /\ FoodItem'[i][m].hash = FoodItem[i][k].hash
             \/ i = call.dst /\ FoodItem'[i][m].hash = Link(call.event, lot.hash)
  <2>1. CASE i = call.dst /\ m = call.dstNonce
    BY <1>1, <2>1, LotFacts
  <2>2. CASE ~(i = call.dst /\ m = call.dstNonce) /\ i = call.src /\ m = n
    <3>1. FoodItem'[i][m] = IF lot.amount > call.left THEN Lot(lot.amount - call.left, lot.hash) ELSE NoLot
      BY <1>1, <2>2
    <3>2. ~NoLot.held
      BY DEF NoLot
    <3>3. FoodItem'[i][m].hash = lot.hash
      BY <1>2, <3>1, <3>2, LotFacts
    <3> QED BY <1>1, <2>2, <3>3
  <2>3. CASE ~(i = call.dst /\ m = call.dstNonce) /\ ~(i = call.src /\ m = n)
    <3>1. FoodItem'[i][m] = FoodItem[i][m]
      BY <1>1, <2>3
    <3> QED BY <1>2, <3>1
  <2> QED BY <2>1, <2>2, <2>3
<1>3. /\ FoodTrace' = Put(FoodTrace, Link(call.event, lot.hash), Trace(call.event, lot.hash))
      /\ UNCHANGED <<committed, now>> /\ pc' \in {pc, "return"}
  BY DEF MoveLot, Return
<1>4. call'.event = call.event /\ call'.src = call.src /\ call'.dst = call.dst
  BY DEF MoveLot, TypeInv, TypeOK, CallOK, NoCall
<1>5. pc \in Movers /\ call.left > 0
  BY <1>1 DEF Movers
<1> HIDE DEF n
<1> QED BY <1>1, <1>2, <1>3, <1>4, <1>5, LinkCustodyInv

LEMMA StoreLotCustodyInv ==
  ASSUME TypeInv, TraceInv, CustodyInv, StoreLot
  PROVE  CustodyInv'
<1> DEFINE n   == call.srcNonce
           lot == FoodItem[call.src][n]
<1>1. /\ call.src \in Identity /\ n \in Nonces
      /\ call.left \in Nat \ {0} /\ lot.held /\ call.event.kind = "Store"
      /\ \A i \in Identity : \A m \in Nonces :
           FoodItem'[i][m] =
             IF i = call.src /\ m = n
             THEN Lot(Smaller(lot.amount, call.left), Link(call.event, lot.hash))
             ELSE IF i = call.src /\ m = call.dstNonce /\ lot.amount > call.left
             THEN Lot(lot.amount - call.left, lot.hash)
             ELSE FoodItem[i][m]
  BY StoreLotEffect
<1>2. call.dst = call.src
  BY <1>1 DEF CustodyInv, CallFits, StoreLot, Movers, Leads
<1>3. ASSUME NEW i \in Identity, NEW m \in Nonces, FoodItem'[i][m].held
      PROVE  \/ \E k \in Nonces : FoodItem[i][k].held /\ FoodItem'[i][m].hash = FoodItem[i][k].hash
             \/ i = call.dst /\ FoodItem'[i][m].hash = Link(call.event, lot.hash)
  <2>1. CASE i = call.src /\ m = n
    BY <1>1, <1>2, <2>1, LotFacts
  <2>2. CASE ~(i = call.src /\ m = n) /\ i = call.src /\ m = call.dstNonce /\ lot.amount > call.left
    <3>1. FoodItem'[i][m] = Lot(lot.amount - call.left, lot.hash)
      BY <1>1, <2>2
    <3>2. FoodItem'[i][m].hash = lot.hash
      BY <3>1, LotFacts
    <3> QED BY <1>1, <2>2, <3>2
  <2>3. CASE ~(i = call.src /\ m = n) /\ ~(i = call.src /\ m = call.dstNonce /\ lot.amount > call.left)
    <3>1. FoodItem'[i][m] = FoodItem[i][m]
      BY <1>1, <2>3
    <3> QED BY <1>3, <3>1
  <2> QED BY <2>1, <2>2, <2>3
<1>4. /\ FoodTrace' = Put(FoodTrace, Link(call.event, lot.hash), Trace(call.event, lot.hash))
      /\ UNCHANGED <<committed, now, pc>>
  BY DEF StoreLot
<1>5. call'.event = call.event /\ call'.src = call.src /\ call'.dst = call.dst
  BY DEF StoreLot, TypeInv, TypeOK, CallOK, NoCall
<1>6. pc \in Movers /\ call.left > 0
  BY <1>1 DEF Movers, StoreLot
<1> HIDE DEF n
<1> QED BY <1>1, <1>2, <1>3, <1>4, <1>5, <1>6, LinkCustodyInv

LEMMA NextMaterialCustodyInv ==
  ASSUME TypeInv, CustodyInv, NextMaterial
  PROVE  CustodyInv'
<1> DEFINE bar    == Head(call.todo)[1]
           id     == Holding(bar, call.dst[2], call.dst[3])
           errors == <<BarCodeError(bar), ShelfLifeError(bar)>>
<1>1. CASE Reject(errors) \/ NonceOverrun
  BY <1>1, QuietCustodyInv DEF Reject, NonceOverrun, Return, storage
<1>2. CASE /\ Passes(errors) /\ call'.src = id /\ call'.dst = call.dst /\ call'.event = call.event
           /\ UNCHANGED <<FoodItem, FoodTrace, committed, now, pc>>
  <2>1. ShelfLifeError(bar) = Ok
    BY <1>2 DEF Passes
  <2>2. Keeping(FoodTrace, bar, Stamp(now)) /\ id[1] = bar
    BY <2>1, FreshWhenVerified DEF Holding
  <2>3. pc = "produce" /\ pc \in Looping /\ pc \notin Movers
    BY DEF NextMaterial, Looping, Movers
  <2> HIDE DEF id, bar
  <2>4. CallFits'
    BY <1>2, <2>2, <2>3 DEF CustodyInv, CallFits, Stamp
  <2> QED BY <1>2, <2>4 DEF CustodyInv, NoFuture
<1>3. DOMAIN call = DOMAIN NoCall
  BY DEF TypeInv, TypeOK, CallOK
<1> QED BY <1>1, <1>2, <1>3 DEF NextMaterial, NoCall, storage

LEMMA ConsumeCustodyInv ==
  ASSUME TypeInv, CustodyInv, ConsumeLot
  PROVE  CustodyInv'
<1> DEFINE n   == call.srcNonce - 1
           lot == FoodItem[call.src][n]
<1>1. pc = "produce" /\ pc \in Looping /\ pc \notin Movers /\ call.left > 0 /\ call.srcNonce > 0 /\ CallOK
  BY DEF ConsumeLot, Looping, Movers, TypeInv, TypeOK
<1>2. call.src \in Identity /\ n \in Nonces /\ n \in 0 .. (call.srcNonce - 1)
  BY <1>1, NonceAssumption DEF CallOK, Nonces
<1>3. lot.held
  BY <1>1, <1>2 DEF TypeInv, LoopLots
<1>4. ASSUME NEW i \in Identity, NEW m \in Nonces, FoodItem'[i][m].held
      PROVE  FoodItem[i][m].held /\ FoodItem'[i][m].hash = FoodItem[i][m].hash
  <2>1. FoodItem'[i][m] = IF i = call.src /\ m = n
                          THEN IF lot.amount > call.left THEN Lot(lot.amount - call.left, lot.hash) ELSE NoLot
                          ELSE FoodItem[i][m]
    BY <1>2, ConsumeEffect DEF ConsumeLot
  <2>2. ~NoLot.held
    BY DEF NoLot
  <2> HIDE DEF n
  <2> QED BY <1>3, <1>4, <2>1, <2>2, LotFacts
<1>5. UNCHANGED <<FoodTrace, committed, now, pc>>
  BY DEF ConsumeLot
<1>6. Books(FoodTrace', FoodItem')
  BY <1>4, <1>5, BooksShrink DEF CustodyInv
<1>7. call'.event = call.event /\ call'.src = call.src /\ call'.dst = call.dst
  BY <1>1 DEF ConsumeLot, CallOK, NoCall
<1>8. CallFits'
  BY <1>1, <1>5, <1>7 DEF CustodyInv, CallFits, Stamp
<1> QED BY <1>5, <1>6, <1>8 DEF CustodyInv, NoFuture

LEMMA FinishProduceCustodyInv ==
  ASSUME TypeInv, TraceInv, CustodyInv, FinishProduce
  PROVE  CustodyInv'
<1> DEFINE hash == RootHash(call.dst[1])
<1>1. /\ pc = "produce" /\ pc \in Looping /\ pc' = "return" /\ UNCHANGED <<committed, now>>
      /\ now \in Nat /\ CallOK /\ ItemOK(FoodItem, FoodTrace) /\ TraceOK(FoodTrace)
  BY DEF FinishProduce, Return, Looping, TypeInv, TypeOK
<1>2. CASE UNCHANGED <<FoodItem, FoodTrace>>
  BY <1>1, <1>2, QuietCustodyInv
<1>3. CASE /\ FoodTrace' = Put(FoodTrace, hash, Trace(call.event, NoHash))
           /\ FoodItem' = Insert(FoodItem, call.dst, 0, Lot(call.amount, hash))
  <2>1. call.dst \in Identity /\ call.event.kind = "Produce" /\ 0 \in Nonces
    BY <1>1, NonceAssumption DEF CallOK, Nonces
  <2>2. hash \notin DOMAIN FoodTrace /\ TraceKeys(FoodTrace, DOMAIN FoodMaterials)
    BY <1>1 DEF TraceInv
  <2>3. call.event.time = Stamp(now) /\ call.event.manufacturer = call.dst[3]
    BY <1>1 DEF CustodyInv, CallFits
  <2>4. ASSUME NEW i \in Identity, NEW m \in Nonces, FoodItem'[i][m].held
        PROVE  \/ \E k \in Nonces : FoodItem[i][k].held /\ FoodItem'[i][m].hash = FoodItem[i][k].hash
               \/ i = call.dst /\ FoodItem'[i][m].hash = hash
    <3>1. FoodItem'[i][m] = IF i = call.dst /\ m = 0 THEN Lot(call.amount, hash) ELSE FoodItem[i][m]
      BY <1>1, <1>3, <2>1, InsertFacts
    <3> QED BY <2>4, <3>1, LotFacts
  <2>5. Books(FoodTrace', FoodItem')
    <3>1. Books(FoodTrace, FoodItem)
      BY DEF CustodyInv
    <3> QED BY <1>1, <1>3, <2>1, <2>2, <2>3, <2>4, <3>1, RootBooks
  <2>6. NoFuture'
    <3>1. /\ DOMAIN FoodTrace' = DOMAIN FoodTrace \cup {hash} /\ FoodTrace'[hash].event = call.event
          /\ \A h \in DOMAIN FoodTrace : FoodTrace'[h] = FoodTrace[h]
      BY <1>3, <2>2, TraceFields DEF Put
    <3> QED BY <1>1, <2>3, <3>1, StampFacts DEF CustodyInv, NoFuture
  <2>7. CallFits'
    BY <1>1 DEF CallFits, Looping, Movers
  <2> QED BY <1>1, <2>5, <2>6, <2>7 DEF CustodyInv
<1> QED BY <1>2, <1>3 DEF FinishProduce

LEMMA NextCustodyInv == TypeInv /\ TraceInv /\ CustodyInv /\ [Next]_vars => CustodyInv'
<1> SUFFICES ASSUME TypeInv, TraceInv, CustodyInv, [Next]_vars PROVE CustodyInv'
  OBVIOUS
<1>1. CASE Produce
  BY <1>1, ProduceCustodyInv
<1>2. CASE Trade
  BY <1>2, TradeCustodyInv
<1>3. CASE Transport
  BY <1>3, TransportCustodyInv
<1>4. CASE Store
  BY <1>4, StoreCustodyInv
<1>5. CASE SetGln \/ SetLicense
  BY <1>5, QuietCustodyInv DEF SetGln, SetLicense, SetAccountGln, SetManufacturerLicense, Reject, Return, storage
<1>6. CASE NextMaterial
  BY <1>6, NextMaterialCustodyInv
<1>7. CASE ConsumeLot
  BY <1>7, ConsumeCustodyInv
<1>8. CASE FinishProduce
  BY <1>8, FinishProduceCustodyInv
<1>9. CASE TradeLot \/ TransportLot
  BY <1>9, MoveLotCustodyInv DEF TradeLot, TransportLot
<1>10. CASE StoreLot
  BY <1>10, StoreLotCustodyInv
<1>11. CASE FinishTrade \/ FinishTransport \/ FinishStore \/ SkipStoredLot \/ Spin \/ UNCHANGED vars
  BY <1>11, QuietCustodyInv DEF FinishTrade, FinishTransport, FinishStore, FinishLoop, Return,
                                SkipStoredLot, Spin, vars, storage
<1>12. CASE Tick
  <2>1. /\ pc = "idle" /\ now < MaxTime /\ now' = now + 1 /\ now \in Nat /\ TraceOK(FoodTrace)
        /\ UNCHANGED <<FoodItem, FoodTrace, committed, pc>>
    BY <1>12 DEF Tick, storage, TypeInv, TypeOK
  <2>2. NoFuture'
    BY <2>1 DEF CustodyInv, NoFuture, TraceOK, EventOK
  <2>3. CallFits'
    BY <2>1 DEF CallFits, Looping, Movers
  <2> QED BY <2>1, <2>2, <2>3, ClockAssumption DEF CustodyInv
<1>13. CASE Commit
  <2>1. /\ committed'.trace = FoodTrace /\ committed'.item = FoodItem /\ pc' = "idle"
        /\ UNCHANGED <<FoodItem, FoodTrace, now>>
    BY <1>13 DEF Commit, Settle, Snapshot, storage
  <2> QED BY <2>1 DEF CustodyInv, NoFuture, CallFits, Looping, Movers
<1>14. CASE Rollback
  <2>1. /\ FoodTrace' = committed.trace /\ FoodItem' = committed.item /\ pc' = "idle"
        /\ UNCHANGED <<committed, now>>
    BY <1>14 DEF Rollback, Settle
  <2>2. NoFuture'
    BY <2>1 DEF CustodyInv, NoFuture, TraceInv, Keeps
  <2>3. CallFits'
    BY <2>1 DEF CallFits, Looping, Movers
  <2> QED BY <2>1, <2>2, <2>3 DEF CustodyInv
<1> QED
  BY <1>1, <1>2, <1>3, <1>4, <1>5, <1>6, <1>7, <1>8, <1>9, <1>10, <1>11, <1>12, <1>13, <1>14
  DEF Next, Dispatch, Proceed, ProduceStep, TradeStep, TransportStep, StoreStep
\* get_trace answers the chain of the lot's hash.
LEMMA GetTraceIsChain ==
  ASSUME TraceOK(committed.trace), NoHash \notin DOMAIN committed.trace,
         NEW chain, Chains(chain, committed.trace), NEW id, NEW n
  PROVE  GetTrace(id, n) = chain[committed.item[id][n].hash]
<1> DEFINE trace == committed.trace
           Body(f) == [h \in DOMAIN trace |->
             <<trace[h].event>> \o (IF trace[h].parent = NoHash THEN <<>> ELSE f[trace[h].parent])]
           walk == CHOOSE f : f = Body(f)
<1>1. chain = Body(chain)
  <2>1. chain = [h \in DOMAIN trace |-> chain[h]]
    BY DEF Chains
  <2>2. \A h \in DOMAIN trace :
          chain[h] = <<trace[h].event>> \o (IF trace[h].parent = NoHash THEN <<>> ELSE chain[trace[h].parent])
    BY DEF Chains
  <2> QED BY <2>1, <2>2
<1>2. walk = Body(walk)
  BY <1>1
<1>3. \A h \in DOMAIN trace : trace[h].parent # NoHash => trace[h].parent \in DOMAIN trace
  BY DEF TraceOK
<1>4. GetTrace(id, n) = walk[committed.item[id][n].hash]
  BY DEF GetTrace
<1>5. IsWalk(walk, trace)
  <2> HIDE DEF walk
  <2> QED BY <1>2 DEF IsWalk
<1>6. walk = chain
  <2> HIDE DEF walk
  <2> QED BY <1>3, <1>5, ChainUnique
<1> QED BY <1>4, <1>6

\* Place finds the places the goods went through.
LEMMA PlaceIsPlaces ==
  ASSUME NEW events, events[1].kind = "Produce", Len(events) \in Nat,
         NEW place, Places(place, events, Len(events))
  PROVE  Place(events) = place
<1> DEFINE Body(f) == [i \in 1 .. Len(events) |-> CASE events[i].kind = "Produce" -> events[i].manufacturer
                                                   [] events[i].kind = "Transport" -> events[i].destination
                                                   [] OTHER -> f[i - 1]]
           found == CHOOSE f : f = Body(f)
<1>1. place = Body(place)
  BY DEF Places
<1>2. found = Body(found)
  BY <1>1
<1>3. Place(events) = found
  BY DEF Place
<1>4. Places(found, events, Len(events))
  <2> HIDE DEF found
  <2> QED BY <1>2 DEF Places
<1> HIDE DEF found
<1> QED BY <1>3, <1>4, PlacesUnique

\* The history of a lot tells how it came to be filed as it is.
LEMMA HistoryTells ==
  ASSUME TypeInv, TraceInv, CustodyInv, NEW id \in Identity, NEW n \in Nonces, committed.item[id][n].held
  PROVE  /\ Len(History(id, n)) \in Nat \ {0}
         /\ DOMAIN History(id, n) = 1 .. Len(History(id, n))
         /\ RootHash(id[1]) \in DOMAIN committed.trace
         /\ Told(History(id, n), Len(History(id, n)), id, committed.trace[RootHash(id[1])].event)
         /\ \E h \in DOMAIN committed.trace : History(id, n)[Len(History(id, n))] = committed.trace[h].event
         /\ MaxTime < Century =>
              Aged(History(id, n), Len(History(id, n)), committed.trace[RootHash(id[1])].event)
<1> DEFINE trace == committed.trace
           hash  == committed.item[id][n].hash
<1>1. TraceOK(trace) /\ ItemOK(committed.item, trace) /\ Books(trace, committed.item) /\ NoHash \notin DOMAIN trace
  BY NoHashIsAbsent DEF TypeInv, TypeOK, TraceInv, CustodyInv
<1>2. hash \in DOMAIN trace
  BY <1>1, HeldIsLot DEF IsLot
<1>3. PICK chain : Chains(chain, trace)
  BY <1>1 DEF Books
<1>4. PICK file : Files(file, trace) /\ Lots(file, committed.item) /\ (MaxTime < Century => Ages(file, trace))
  BY <1>1 DEF Books
<1>5. file[hash] = id /\ RootHash(id[1]) \in DOMAIN trace
  BY <1>2, <1>4 DEF Lots, Files
<1>6. GetTrace(id, n) = chain[hash]
  BY <1>1, <1>3, GetTraceIsChain
<1>7. History(id, n) = OldestFirst(chain[hash])
  BY <1>6 DEF History, OldestFirst
<1> HIDE DEF hash
<1>8. /\ Len(chain[hash]) \in Nat \ {0}
      /\ Len(OldestFirst(chain[hash])) = Len(chain[hash])
      /\ DOMAIN OldestFirst(chain[hash]) = 1 .. Len(chain[hash])
      /\ OldestFirst(chain[hash])[Len(chain[hash])] = trace[hash].event
      /\ Told(OldestFirst(chain[hash]), Len(chain[hash]), file[hash], Made(file, trace, hash))
      /\ Ages(file, trace) => Aged(OldestFirst(chain[hash]), Len(chain[hash]), Made(file, trace, hash))
  BY <1>1, <1>2, <1>3, <1>4, ChainsTell
<1>9. Made(file, trace, hash) = trace[RootHash(id[1])].event
  BY <1>5 DEF Made
<1> HIDE DEF trace
<1> QED BY <1>2, <1>4, <1>5, <1>7, <1>8, <1>9 DEF trace

\* The chain of custody: whatever calls are made, in either build, the events that
\* get_trace (lib.rs:414) answers for a lot lead from its production to the owner
\* and the place it is filed under: it was never sold by another than its owner,
\* nor transported or stored from where it was not.
THEOREM CustodyIsUnbroken == Spec => []ChainOfCustody
<1>1. TypeInv /\ TraceInv /\ CustodyInv => ChainOfCustody
  <2> SUFFICES ASSUME TypeInv, TraceInv, CustodyInv,
                      NEW id \in Identity, NEW n \in Nonces, committed.item[id][n].held
               PROVE  LET events == History(id, n)
                          place  == Place(events)
                          trades == {i \in DOMAIN events : events[i].kind = "Trade"}
                      IN  /\ events[1] = committed.trace[RootHash(id[1])].event
                          /\ place[Len(events)] = id[3]
                          /\ \A i \in 2 .. Len(events) :
                               /\ events[i].kind # "Produce"
                               /\ events[i].kind = "Transport" => events[i].origin = place[i - 1]
                               /\ events[i].kind = "Store" => events[i].warehouse = place[i - 1]
                          /\ \A i, j \in trades : i < j /\ trades \cap (i + 1) .. (j - 1) = {} =>
                               events[i].buyer = events[j].seller
                          /\ \A i \in trades : trades \cap (i + 1) .. Len(events) = {} => events[i].buyer = id[2]
    BY DEF ChainOfCustody
  <2> DEFINE events == History(id, n)
             made   == committed.trace[RootHash(id[1])].event
             trades == {i \in DOMAIN events : events[i].kind = "Trade"}
  <2>1. Len(events) \in Nat \ {0} /\ DOMAIN events = 1 .. Len(events) /\ Told(events, Len(events), id, made)
    BY HistoryTells
  <2> HIDE DEF events, made
  <2>2. events[1] = made /\ made.kind = "Produce" /\ \A i \in 2 .. Len(events) : events[i].kind # "Produce"
    BY <2>1 DEF Told
  <2>3. PICK place : /\ Places(place, events, Len(events))
                     /\ place[Len(events)] = id[3]
                     /\ \A i \in 2 .. Len(events) :
                          /\ events[i].kind = "Transport" => events[i].origin = place[i - 1]
                          /\ events[i].kind = "Store" => events[i].warehouse = place[i - 1]
    BY <2>1 DEF Told
  <2>4. Place(events) = place
    BY <2>1, <2>2, <2>3, PlaceIsPlaces
  <2>5. ASSUME NEW i \in trades, NEW j \in trades, i < j, trades \cap (i + 1) .. (j - 1) = {}
        PROVE  events[i].buyer = events[j].seller
    <3>1. i \in 1 .. Len(events) /\ j \in 1 .. Len(events) /\ events[i].kind = "Trade" /\ events[j].kind = "Trade"
      BY <2>1
    <3>2. \A k \in (i + 1) .. (j - 1) : events[k].kind # "Trade"
      <4>1. \A k \in (i + 1) .. (j - 1) : k \in 1 .. Len(events) /\ k \notin trades
        BY <2>1, <2>5, <3>1
      <4> QED BY <2>1, <4>1
    <3> QED BY <2>1, <2>5, <3>1, <3>2 DEF Told
  <2>6. ASSUME NEW i \in trades, trades \cap (i + 1) .. Len(events) = {}
        PROVE  events[i].buyer = id[2]
    <3>1. i \in 1 .. Len(events) /\ events[i].kind = "Trade"
      BY <2>1
    <3>2. \A k \in (i + 1) .. Len(events) : events[k].kind # "Trade"
      <4>1. \A k \in (i + 1) .. Len(events) : k \in 1 .. Len(events) /\ k \notin trades
        BY <2>1, <2>6, <3>1
      <4> QED BY <2>1, <4>1
    <3> QED BY <2>1, <3>1, <3>2 DEF Told
  <2> HIDE DEF trades
  <2>7. /\ events[1] = made
        /\ Place(events)[Len(events)] = id[3]
        /\ \A i \in 2 .. Len(events) :
             /\ events[i].kind # "Produce"
             /\ events[i].kind = "Transport" => events[i].origin = Place(events)[i - 1]
             /\ events[i].kind = "Store" => events[i].warehouse = Place(events)[i - 1]
        /\ \A i, j \in trades : i < j /\ trades \cap (i + 1) .. (j - 1) = {} => events[i].buyer = events[j].seller
        /\ \A i \in trades : trades \cap (i + 1) .. Len(events) = {} => events[i].buyer = id[2]
    BY <2>2, <2>3, <2>4, <2>5, <2>6
  <2> QED BY <2>7 DEF events, made, trades
<1> QED BY <1>1, InitTypeInv, NextTypeInv, InitTraceInv, NextTraceInv, InitCustodyInv, NextCustodyInv, PTL DEF Spec
(***************************************************************************)
(* Freshness.  A history is in order and within the shelf life because the *)
(* books say so of every entry; a material was fresh when it was used.     *)
(***************************************************************************)

\* Every material of a list was within its shelf life at time.
Recipe(list, trace, time) == \A i \in DOMAIN list : Keeping(trace, list[i][1], time)

RecipesOK(materials, trace) ==
  \A b \in DOMAIN materials :
    /\ materials[b] \in Seq(BarCodes \X DOMAIN trace)
    /\ RootHash(b) \in DOMAIN trace => Recipe(materials[b], trace, trace[RootHash(b)].event.time)

\* Every bar code that is reserved has been produced.
Rooted(materials, trace) == \A b \in DOMAIN materials : RootHash(b) \in DOMAIN trace

\* A bar code is reserved before it is produced; where it stays reserved in vain,
\* the call does not succeed.
RecipeInv ==
  /\ RecipesOK(FoodMaterials, FoodTrace)
  /\ RecipesOK(committed.materials, committed.trace)
  /\ Rooted(committed.materials, committed.trace)
  /\ pc \in Movers \cup {"idle"} \/ (pc = "return" /\ result \in Events) => Rooted(FoodMaterials, FoodTrace)
  /\ pc = "produce" => /\ \A b \in DOMAIN FoodMaterials : b # call.dst[1] => RootHash(b) \in DOMAIN FoodTrace
                       /\ Recipe(FoodMaterials[call.dst[1]], FoodTrace, call.event.time)

LEMMA RecipeKept ==
  ASSUME NEW list, NEW trace, NEW time, Recipe(list, trace, time), NEW longer, Keeps(trace, longer)
  PROVE  Recipe(list, longer, time)
BY DEF Recipe, Keeping, Keeps

LEMMA RecipesGrow ==
  ASSUME NEW materials, NEW trace, RecipesOK(materials, trace), NEW longer, Keeps(trace, longer),
         \A b \in DOMAIN materials : RootHash(b) \in DOMAIN longer =>
           RootHash(b) \in DOMAIN trace \/ Recipe(materials[b], trace, longer[RootHash(b)].event.time)
  PROVE  RecipesOK(materials, longer)
<1> SUFFICES ASSUME NEW b \in DOMAIN materials
             PROVE  /\ materials[b] \in Seq(BarCodes \X DOMAIN longer)
                    /\ RootHash(b) \in DOMAIN longer => Recipe(materials[b], longer, longer[RootHash(b)].event.time)
  BY DEF RecipesOK
<1>1. materials[b] \in Seq(BarCodes \X DOMAIN longer)
  <2> DEFINE S == BarCodes \X DOMAIN trace
             T == BarCodes \X DOMAIN longer
  <2>1. S \subseteq T /\ materials[b] \in Seq(S)
    BY DEF RecipesOK, Keeps
  <2> HIDE DEF S, T
  <2>2. materials[b] \in Seq(T)
    BY <2>1
  <2> QED BY <2>2 DEF T
<1>2. ASSUME RootHash(b) \in DOMAIN longer PROVE Recipe(materials[b], longer, longer[RootHash(b)].event.time)
  <2>1. CASE RootHash(b) \in DOMAIN trace
    <3>1. longer[RootHash(b)] = trace[RootHash(b)]
      BY <2>1 DEF Keeps
    <3>2. Recipe(materials[b], trace, trace[RootHash(b)].event.time)
      BY <2>1 DEF RecipesOK
    <3> QED BY <3>1, <3>2, RecipeKept
  <2>2. CASE RootHash(b) \notin DOMAIN trace
    BY <1>2, <2>2, RecipeKept
  <2> QED BY <2>1, <2>2
<1> QED BY <1>1, <1>2

LEMMA InitRecipeInv == Init => RecipeInv
BY DEF Init, Empty, Snapshot, RecipeInv, RecipesOK, Rooted, Recipe

LEMMA QuietRecipeInv ==
  ASSUME RecipeInv, UNCHANGED <<FoodTrace, FoodMaterials, committed>>, pc' # "produce",
         pc' \in Movers \cup {"idle"} \/ (pc' = "return" /\ result' \in Events) => pc \in Movers \cup {"idle"}
  PROVE  RecipeInv'
BY DEF RecipeInv, RecipesOK, Rooted, Recipe

LEMMA ProduceRecipeInv ==
  ASSUME TypeInv, TraceInv, RecipeInv, Produce PROVE RecipeInv'
<1>1. PICK o \in Origins, bar \in RawCodes, maker \in Ids, amount \in Amounts, shelfLife \in ShelfLives,
           materials \in MaterialLists : ProduceFood(o, bar, maker, amount, shelfLife, materials)
  BY DEF Produce
<1> DEFINE errors == <<MetadataError(o), GlnError(maker), LicenseError(maker),
                       BarCodeError(bar), AmountError(amount, bar), DuplicateError(bar)>>
<1>2. pc = "idle"
  BY <1>1 DEF ProduceFood, Ready
<1>3. CASE Reject(errors)
  BY <1>2, <1>3, QuietRecipeInv DEF Reject, Return, storage, Movers
<1>4. CASE /\ FoodMaterials' = Put(FoodMaterials, bar, <<>>) /\ pc' = "produce" /\ call'.dst[1] = bar
           /\ UNCHANGED <<FoodTrace, committed>>
  <2>1. /\ DOMAIN FoodMaterials' = DOMAIN FoodMaterials \cup {bar} /\ FoodMaterials'[bar] = <<>>
        /\ \A b \in DOMAIN FoodMaterials : b # bar => FoodMaterials'[b] = FoodMaterials[b]
    BY <1>4 DEF Put
  <2>2. <<>> \in Seq(BarCodes \X DOMAIN FoodTrace) /\ \A i \in DOMAIN <<>> : FALSE
    OBVIOUS
  <2>3. \A time : Recipe(<<>>, FoodTrace, time)
    BY <2>2 DEF Recipe
  <2>4. RecipesOK(FoodMaterials', FoodTrace')
    BY <1>4, <2>1, <2>2, <2>3 DEF RecipeInv, RecipesOK
  <2>5. \A b \in DOMAIN FoodMaterials' : b # bar => RootHash(b) \in DOMAIN FoodTrace
    BY <1>2, <2>1 DEF RecipeInv, Rooted
  <2>6. "produce" \notin Movers \cup {"idle", "return"}
    BY DEF Movers
  <2> QED BY <1>4, <2>1, <2>3, <2>4, <2>5, <2>6 DEF RecipeInv
<1>5. ASSUME call' = [NoCall EXCEPT !.dst = Holding(bar, AccountGLN[o], GlnOf(maker)),
                        !.amount = amount, !.todo = materials,
                        !.event = [kind |-> "Produce", manufacturer |-> GlnOf(maker),
                                   license |-> ManufacturerLicense[GlnOf(maker)],
                                   shelfLife |-> shelfLife, time |-> Stamp(now)]]
      PROVE  call'.dst[1] = bar
  BY <1>5 DEF NoCall, Holding
<1> QED BY <1>1, <1>3, <1>4, <1>5 DEF ProduceFood

LEMMA NextMaterialRecipeInv ==
  ASSUME TypeInv, RecipeInv, NextMaterial PROVE RecipeInv'
<1> DEFINE bar    == Head(call.todo)[1]
           id     == Holding(bar, call.dst[2], call.dst[3])
           errors == <<BarCodeError(bar), ShelfLifeError(bar)>>
<1>1. CASE Reject(errors)
  <2>1. PICK i \in DOMAIN errors : errors[i] # Ok /\ Return(errors[i])
    BY <1>1 DEF Reject
  <2>2. i \in {1, 2}
    OBVIOUS
  <2>3. errors[i] \notin Events
    BY <2>1, <2>2 DEF BarCodeError, ShelfLifeError, Ok, Events
  <2> HIDE DEF errors
  <2> QED BY <1>1, <2>1, <2>3, QuietRecipeInv DEF Reject, Return, storage, Movers
<1>2. CASE NonceOverrun
  BY <1>2, QuietRecipeInv DEF NonceOverrun, Return, storage, Movers, Events
<1>3. CASE call'.dst = call.dst /\ call'.event = call.event /\ UNCHANGED <<storage, committed, pc, result>>
  BY <1>3 DEF RecipeInv, RecipesOK, Rooted, Recipe, storage
<1>4. DOMAIN call = DOMAIN NoCall
  BY DEF TypeInv, TypeOK, CallOK
<1> QED BY <1>1, <1>2, <1>3, <1>4 DEF NextMaterial, NoCall

LEMMA ConsumeRecipeInv ==
  ASSUME TypeInv, TraceInv, CustodyInv, RecipeInv, ConsumeLot PROVE RecipeInv'
<1> DEFINE n    == call.srcNonce - 1
           lot  == FoodItem[call.src][n]
           bar  == call.dst[1]
           used == Material(call.src[1], lot.hash)
           list == FoodMaterials[bar]
           S    == BarCodes \X DOMAIN FoodTrace
<1>1. pc = "produce" /\ pc \in Looping /\ call.left > 0 /\ call.srcNonce > 0 /\ CallOK
  BY DEF ConsumeLot, Looping, TypeInv, TypeOK
<1>2. call.src \in Identity /\ n \in Nonces /\ n \in 0 .. (call.srcNonce - 1)
  BY <1>1, NonceAssumption DEF CallOK, Nonces
<1>3. lot.hash \in DOMAIN FoodTrace
  BY <1>1, <1>2, HeldIsLot DEF TypeInv, TypeOK, LoopLots, IsLot
<1>4. used \in S /\ used[1] = call.src[1]
  BY <1>2, <1>3 DEF Material, Identity
<1>5. /\ FoodMaterials' = [FoodMaterials EXCEPT ![bar] = Append(list, used)]
      /\ UNCHANGED <<FoodTrace, committed, pc>> /\ call'.dst = call.dst /\ call'.event = call.event
  BY <1>1 DEF ConsumeLot, CallOK, NoCall
<1>6. bar \in DOMAIN FoodMaterials /\ RootHash(bar) \notin DOMAIN FoodTrace
  BY <1>1 DEF TraceInv
<1>7. list \in Seq(S)
  BY <1>6 DEF RecipeInv, RecipesOK
<1>8. /\ DOMAIN FoodMaterials' = DOMAIN FoodMaterials /\ FoodMaterials'[bar] = Append(list, used)
      /\ \A b \in DOMAIN FoodMaterials : b # bar => FoodMaterials'[b] = FoodMaterials[b]
  BY <1>5, <1>6
<1>9. Keeping(FoodTrace, used[1], call.event.time)
  BY <1>1, <1>4 DEF CustodyInv, CallFits
<1>10. Recipe(list, FoodTrace, call.event.time)
  BY <1>1 DEF RecipeInv
<1> HIDE DEF used, list, S
<1>11. /\ Append(list, used) \in Seq(S) /\ DOMAIN list = 1 .. Len(list) /\ Len(list) \in Nat
       /\ DOMAIN Append(list, used) = 1 .. (Len(list) + 1)
       /\ Append(list, used)[Len(list) + 1] = used
       /\ \A i \in 1 .. Len(list) : Append(list, used)[i] = list[i]
  BY <1>4, <1>7
<1>12. Recipe(Append(list, used), FoodTrace, call.event.time)
  <2> SUFFICES ASSUME NEW i \in 1 .. (Len(list) + 1)
               PROVE  Keeping(FoodTrace, Append(list, used)[i][1], call.event.time)
    BY <1>11 DEF Recipe
  <2>1. CASE i = Len(list) + 1
    BY <1>9, <1>11, <2>1
  <2>2. CASE i # Len(list) + 1
    <3>1. i \in 1 .. Len(list)
      BY <1>11, <2>2
    <3> QED BY <1>10, <1>11, <3>1 DEF Recipe
  <2> QED BY <2>1, <2>2
<1>13. RecipesOK(FoodMaterials', FoodTrace')
  <2> SUFFICES ASSUME NEW b \in DOMAIN FoodMaterials
               PROVE  /\ FoodMaterials'[b] \in Seq(BarCodes \X DOMAIN FoodTrace)
                      /\ RootHash(b) \in DOMAIN FoodTrace =>
                           Recipe(FoodMaterials'[b], FoodTrace, FoodTrace[RootHash(b)].event.time)
    BY <1>5, <1>8 DEF RecipesOK
  <2>1. CASE b = bar
    BY <1>6, <1>8, <1>11, <2>1 DEF S
  <2>2. CASE b # bar
    BY <1>8, <2>2 DEF RecipeInv, RecipesOK
  <2> QED BY <2>1, <2>2
<1>14. "produce" \notin Movers \cup {"idle", "return"}
  BY DEF Movers
<1> QED BY <1>1, <1>5, <1>8, <1>12, <1>13, <1>14 DEF RecipeInv

LEMMA FinishProduceRecipeInv ==
  ASSUME TypeInv, TraceInv, RecipeInv, FinishProduce PROVE RecipeInv'
<1> DEFINE bar == call.dst[1]
<1>1. pc = "produce" /\ pc' = "return" /\ UNCHANGED <<FoodMaterials, committed, call>>
  BY DEF FinishProduce, Return
<1>2. CASE result' = "InsufficientInventory" /\ UNCHANGED FoodTrace
  BY <1>1, <1>2, QuietRecipeInv DEF Movers, Events
<1>3. CASE FoodTrace' = Put(FoodTrace, RootHash(bar), Trace(call.event, NoHash))
  <2>1. bar \in DOMAIN FoodMaterials /\ RootHash(bar) \notin DOMAIN FoodTrace
    BY <1>1 DEF TraceInv
  <2>2. /\ DOMAIN FoodTrace' = DOMAIN FoodTrace \cup {RootHash(bar)}
        /\ FoodTrace'[RootHash(bar)].event = call.event
        /\ Keeps(FoodTrace, FoodTrace')
    BY <1>3, <2>1, TraceFields DEF Put, Keeps
  <2>3. Recipe(FoodMaterials[bar], FoodTrace, call.event.time)
    BY <1>1 DEF RecipeInv
  <2>4. ASSUME NEW b \in DOMAIN FoodMaterials, RootHash(b) \in DOMAIN FoodTrace'
        PROVE  RootHash(b) \in DOMAIN FoodTrace \/ Recipe(FoodMaterials[b], FoodTrace, FoodTrace'[RootHash(b)].event.time)
    <3>1. CASE RootHash(b) = RootHash(bar)
      <4>1. b = bar
        BY <3>1, RootInjective
      <4> QED BY <2>2, <2>3, <4>1
    <3>2. CASE RootHash(b) # RootHash(bar)
      BY <2>2, <2>4, <3>2
    <3> QED BY <3>1, <3>2
  <2>5. RecipesOK(FoodMaterials, FoodTrace')
    <3>1. RecipesOK(FoodMaterials, FoodTrace)
      BY DEF RecipeInv
    <3> QED BY <2>2, <2>4, <3>1, RecipesGrow
  <2>6. Rooted(FoodMaterials, FoodTrace')
    BY <1>1, <2>2 DEF RecipeInv, Rooted
  <2> QED BY <1>1, <2>5, <2>6 DEF RecipeInv, RecipesOK, Rooted, Recipe
<1> QED BY <1>1, <1>2, <1>3 DEF FinishProduce, Return

LEMMA LinkRecipeInv ==
  ASSUME TypeInv, TraceInv, RecipeInv, pc \in Movers, NEW lot,
         FoodTrace' = Put(FoodTrace, Link(call.event, lot.hash), Trace(call.event, lot.hash)),
         UNCHANGED <<FoodMaterials, committed>>, pc' \in {pc, "return"}
  PROVE  RecipeInv'
<1>1. call.event.kind # "Produce"
  BY DEF Movers, Looping, TypeInv, TypeOK, CallOK
<1>2. Keeps(FoodTrace, FoodTrace')
  BY <1>1, PutLink DEF TraceInv
<1>3. \A b : RootHash(b) \in DOMAIN FoodTrace' => RootHash(b) \in DOMAIN FoodTrace
  BY RootIsNoLink DEF Put
<1>4. RecipesOK(FoodMaterials, FoodTrace')
  <2>1. RecipesOK(FoodMaterials, FoodTrace)
    BY DEF RecipeInv
  <2> QED BY <1>2, <1>3, <2>1, RecipesGrow
<1>5. Rooted(FoodMaterials, FoodTrace')
  BY <1>2 DEF RecipeInv, Rooted, Keeps
<1>6. pc' # "produce"
  BY DEF Movers
<1> QED BY <1>4, <1>5, <1>6 DEF RecipeInv

LEMMA NextRecipeInv == TypeInv /\ TraceInv /\ CustodyInv /\ RecipeInv /\ [Next]_vars => RecipeInv'
<1> SUFFICES ASSUME TypeInv, TraceInv, CustodyInv, RecipeInv, [Next]_vars PROVE RecipeInv'
  OBVIOUS
<1>1. CASE Produce
  BY <1>1, ProduceRecipeInv
<1>2. CASE Trade \/ Transport \/ Store
  <2>1. UNCHANGED <<FoodTrace, FoodMaterials, committed>> /\ pc' # "produce"
    BY <1>2, MoversLeaveStorage DEF storage
  <2>2. CASE Trade
    BY <2>1, <2>2, QuietRecipeInv DEF Trade, TradeFood, Ready
  <2>3. CASE Transport
    BY <2>1, <2>3, QuietRecipeInv DEF Transport, TransportFood, Ready
  <2>4. CASE Store
    <3>1. PICK o \in Origins, b \in RawCodes, w \in Ids, s \in SSCCs \cup {Malformed}, n \in Amounts :
            StoreFood(o, b, w, s, n)
      BY <2>4 DEF Store
    <3>2. pc = "idle"
      BY <3>1 DEF StoreFood, Ready
    <3> QED BY <2>1, <3>2, QuietRecipeInv
  <2> QED BY <1>2, <2>2, <2>3, <2>4
<1>3. CASE SetGln \/ SetLicense
  <2>1. UNCHANGED <<FoodTrace, FoodMaterials, committed>> /\ pc' = "return" /\ pc = "idle"
    BY <1>3 DEF SetGln, SetLicense, SetAccountGln, SetManufacturerLicense, Reject, Return, storage, Ready
  <2> QED BY <2>1, QuietRecipeInv
<1>4. CASE NextMaterial
  BY <1>4, NextMaterialRecipeInv
<1>5. CASE ConsumeLot
  BY <1>5, ConsumeRecipeInv
<1>6. CASE FinishProduce
  BY <1>6, FinishProduceRecipeInv
<1>7. CASE TradeLot \/ TransportLot
  BY <1>7, LinkRecipeInv DEF TradeLot, TransportLot, MoveLot, Return, Movers
<1>8. CASE StoreLot
  BY <1>8, LinkRecipeInv DEF StoreLot, Movers
<1>9. CASE FinishTrade \/ FinishTransport \/ FinishStore
  <2>1. UNCHANGED <<FoodTrace, FoodMaterials, committed>> /\ pc' = "return" /\ pc \in Movers
    BY <1>9 DEF FinishTrade, FinishTransport, FinishStore, FinishLoop, Return, storage, Movers
  <2> QED BY <2>1, QuietRecipeInv
<1>10. CASE SkipStoredLot \/ Spin \/ UNCHANGED vars
  BY <1>10 DEF SkipStoredLot, Spin, vars, storage, RecipeInv, RecipesOK, Rooted, Recipe
<1>11. CASE Tick
  BY <1>11, QuietRecipeInv DEF Tick, storage
<1>12. CASE Commit
  <2>1. /\ committed'.trace = FoodTrace /\ committed'.materials = FoodMaterials /\ pc' = "idle"
        /\ UNCHANGED <<FoodTrace, FoodMaterials>> /\ pc = "return" /\ result \in Events
    BY <1>12 DEF Commit, Settle, Snapshot, storage
  <2> QED BY <2>1 DEF RecipeInv, RecipesOK, Rooted, Recipe
<1>13. CASE Rollback
  <2>1. /\ FoodTrace' = committed.trace /\ FoodMaterials' = committed.materials /\ pc' = "idle"
        /\ UNCHANGED committed
    BY <1>13 DEF Rollback, Settle
  <2> QED BY <2>1 DEF RecipeInv, RecipesOK, Rooted, Recipe
<1> QED
  BY <1>1, <1>2, <1>3, <1>4, <1>5, <1>6, <1>7, <1>8, <1>9, <1>10, <1>11, <1>12, <1>13
  DEF Next, Dispatch, Proceed, ProduceStep, TradeStep, TransportStep, StoreStep

\* Freshness: whatever calls are made, in either build, a history is in the order
\* of time and within the shelf life its production declared, and a material was
\* within its own when it was used (verify_shelf_life, lib.rs:649), as long as the
\* two-digit year of the time stamps does not wrap.
THEOREM HistoryIsFresh == Spec => []FreshHistory
<1>1. TypeInv /\ TraceInv /\ CustodyInv /\ RecipeInv => FreshHistory
  <2> SUFFICES ASSUME TypeInv, TraceInv, CustodyInv, RecipeInv, MaxTime < Century PROVE FreshHistory
    BY DEF FreshHistory
  <2>1. ASSUME NEW id \in Identity, NEW n \in Nonces, committed.item[id][n].held
        PROVE  LET events == History(id, n)
               IN  /\ events[Len(events)].time <= now
                   /\ \A i \in 2 .. Len(events) :
                        /\ events[i - 1].time <= events[i].time
                        /\ Day(events[i].time) <= Day(events[1].time) + events[1].shelfLife
    <3> DEFINE events == History(id, n)
               made   == committed.trace[RootHash(id[1])].event
    <3>1. Told(events, Len(events), id, made) /\ Aged(events, Len(events), made)
      BY <2>1, HistoryTells
    <3>2. PICK h \in DOMAIN committed.trace : events[Len(events)] = committed.trace[h].event
      BY <2>1, HistoryTells
    <3>3. committed.trace[h].event.time <= now
      BY <3>2 DEF TraceInv, Keeps, CustodyInv, NoFuture
    <3> HIDE DEF events, made
    <3>4. events[1] = made
      BY <3>1 DEF Told
    <3>5. /\ events[Len(events)].time <= now
          /\ \A i \in 2 .. Len(events) :
               /\ events[i - 1].time <= events[i].time
               /\ Day(events[i].time) <= Day(events[1].time) + events[1].shelfLife
      BY <3>1, <3>2, <3>3, <3>4 DEF Aged, Fresh
    <3> QED BY <3>5 DEF events
  <2>2. ASSUME NEW b \in DOMAIN committed.materials, NEW i \in DOMAIN committed.materials[b]
        PROVE  LET material == committed.trace[RootHash(committed.materials[b][i][1])].event
               IN  Day(committed.trace[RootHash(b)].event.time) <= Day(material.time) + material.shelfLife
    BY DEF RecipeInv, RecipesOK, Rooted, Recipe, Keeping, Fresh
  <2> QED BY <2>1, <2>2 DEF FreshHistory
<1> QED
  BY <1>1, InitTypeInv, NextTypeInv, InitTraceInv, NextTraceInv, InitCustodyInv, NextCustodyInv,
     InitRecipeInv, NextRecipeInv, PTL DEF Spec
=============================================================================
