---------------------------- MODULE RateLimitProofs ----------------------------
(***************************************************************************)
(* Proofs about RateLimit for every number of keys and requests, every     *)
(* limit and every window: what a counter without a time to live means,    *)
(* and that no stretch of time as long as a window lets pass twice the     *)
(* limit.                                                                  *)
(***************************************************************************)
EXTENDS RateLimit, SequenceTheorems, TLAPS

\* A counter that waits for its time to live is there, and has none.
MakersInv ==
  \A k \in Keys, r \in Requests : Maker(r, k) => hits[k] # 0 /\ ttl[k] = 0

\* The requests that the counter of k let pass since it was made.
Let(k) == IF hits[k] < Limit[k] THEN hits[k] ELSE Limit[k]

\* Of what a key let pass the newest are its counter's, and as many as its limit
\* before them reach back to before the counter was made, by a window; the
\* oldest of the counter's will be a window old when it goes.
WindowInv ==
  \A k \in Keys :
    /\ \A i, j \in 1 .. 2 * Limit[k] : i < j => passed[k][i] <= passed[k][j]
    /\ passed[k][Let(k) + Limit[k]] = Window[k]
    /\ hits[k] # 0 /\ ttl[k] # 0 => passed[k][Let(k)] + ttl[k] >= Window[k]

-----------------------------------------------------------------------------
(* Counters and who made them.                                             *)

\* At the start there is no counter, and none of them has a maker.
LEMMA InitHasCounters == Init => CountersOK /\ MakersInv
<1> SUFFICES ASSUME Init PROVE CountersOK /\ MakersInv
  OBVIOUS
<1>1. todo \in [Requests -> Seq(Keys)]
  BY DEF Init
<1>2. {hits, ttl} \subseteq [Keys -> Nat] /\ DOMAIN passed = Keys
  BY DEF Init
<1> QED BY <1>1, <1>2, LimitsAssumption DEF Init, CountersOK, MakersInv, Maker

\* The numbers that belong to one key.
LEMMA KeyFacts ==
  ASSUME CountersOK, NEW k \in Keys
  PROVE  /\ Limit[k] \in Nat \ {0} /\ Window[k] \in Nat \ {0}
         /\ hits[k] \in 0 .. Limit[k] + 1 /\ ttl[k] \in 0 .. Window[k]
         /\ passed[k] \in [1 .. 2 * Limit[k] -> 0 .. Window[k]]
         /\ hits[k] = 0 => ttl[k] = 0
BY LimitsAssumption DEF CountersOK

\* What a request that is not done yet has before it.
LEMMA TodoFacts ==
  ASSUME CountersOK, NEW r \in Requests, Busy(r)
  PROVE  KeyOf(r) \in Keys /\ Tail(todo[r]) \in Seq(Keys)
BY HeadTailProperties DEF CountersOK, Busy, KeyOf

\* INCR leaves the counters and makers of the other keys alone.
LEMMA IncrKeepsCounters ==
  ASSUME CountersOK, MakersInv, NEW r \in Requests, Incr(r)
  PROVE  (CountersOK /\ MakersInv)'
<1> DEFINE k == KeyOf(r)
           n == hits[k] + 1
<1>1. k \in Keys /\ Tail(todo[r]) \in Seq(Keys) /\ <<>> \in Seq(Keys)
  BY TodoFacts DEF Incr
<1>2. /\ hits' = [hits EXCEPT ![k] = IF @ > Limit[k] THEN @ ELSE n]
      /\ first' = IF n = 1 THEN first \cup {r} ELSE first
      /\ passed' = IF Over(k, n) THEN passed ELSE Passing(k)
      /\ todo' = [todo EXCEPT ![r] = IF n = 1 THEN @
                                     ELSE IF Over(k, n) THEN <<>> ELSE Tail(@)]
      /\ ttl' = ttl /\ dead' = dead /\ Busy(r) /\ r \notin first
  BY DEF Incr
<1>3. ASSUME NEW x \in Requests \ {r}, NEW l \in Keys PROVE Maker(x, l)' <=> Maker(x, l)
  BY <1>2, <1>3 DEF Maker, KeyOf, CountersOK
<1>4. ASSUME NEW l \in Keys PROVE Maker(r, l)' <=> l = k /\ n = 1
  BY <1>2, <1>4 DEF Maker, KeyOf, CountersOK
<1>5. /\ Limit[k] \in Nat \ {0} /\ Window[k] \in Nat \ {0}
      /\ hits[k] \in 0 .. Limit[k] + 1 /\ (hits[k] = 0 => ttl[k] = 0)
      /\ passed[k] \in [1 .. 2 * Limit[k] -> 0 .. Window[k]]
  BY <1>1, KeyFacts
<1>6. hits'[k] \in 0 .. Limit[k] + 1 /\ hits'[k] # 0
      /\ \A l \in Keys \ {k} : hits'[l] = hits[l]
  BY <1>1, <1>2, <1>5 DEF CountersOK
<1>6a. {hits', ttl'} \subseteq [Keys -> Nat] /\ DOMAIN passed' = Keys
  BY <1>1, <1>2, <1>5 DEF CountersOK, Passing
<1>7. ASSUME NEW l \in Keys PROVE passed'[l] \in [1 .. 2 * Limit[l] -> 0 .. Window[l]]
  <2>1. [i \in 1 .. 2 * Limit[k] |-> IF i = 1 THEN 0 ELSE passed[k][i - 1]]
          \in [1 .. 2 * Limit[k] -> 0 .. Window[k]]
    BY <1>5
  <2>2. Passing(k)[l] \in [1 .. 2 * Limit[l] -> 0 .. Window[l]]
    BY <1>1, <1>5, <2>1 DEF Passing, CountersOK
  <2> QED BY <2>2, <1>2 DEF CountersOK
<1>8. todo' \in [Requests -> Seq(Keys)] /\ \A x \in Requests : x \in first' => todo'[x] # <<>>
  BY <1>1, <1>2 DEF CountersOK, Busy
<1>9. ASSUME NEW l \in Keys, NEW x \in Requests, Maker(x, l)'
      PROVE  hits'[l] # 0 /\ ttl'[l] = 0
  <2>1. CASE x = r
    <3>1. l = k /\ n = 1
      BY <2>1, <1>4, <1>9
    <3> QED BY <3>1, <1>2, <1>5, <1>6
  <2>2. CASE x # r
    <3>1. hits[l] # 0 /\ ttl[l] = 0
      BY <2>2, <1>3, <1>9 DEF MakersInv
    <3> QED BY <3>1, <1>2, <1>6
  <2> QED BY <2>1, <2>2
<1>10. ASSUME NEW l \in Keys, hits'[l] # 0, ttl'[l] = 0
       PROVE  l \in dead' \/ \E x \in Requests : Maker(x, l)'
  <2>1. CASE l = k /\ n = 1
    BY <2>1, <1>4
  <2>2. CASE l # k \/ n # 1
    <3>1. l \in dead \/ \E x \in Requests : Maker(x, l)
      BY <2>2, <1>2, <1>5, <1>6, <1>10 DEF CountersOK
    <3>2. \A x \in Requests : Maker(x, l) => x # r
      BY <1>2 DEF Maker
    <3> QED BY <3>1, <3>2, <1>2, <1>3
  <2> QED BY <2>1, <2>2
<1>11. ASSUME NEW l \in Keys, NEW x \in Requests, NEW y \in Requests, Maker(x, l)', Maker(y, l)'
       PROVE  x = y
  <2>1. CASE l = k /\ n = 1
    <3>1. \A z \in Requests : ~Maker(z, l)
      BY <2>1, <1>5 DEF MakersInv
    <3> QED BY <3>1, <1>3, <1>11
  <2>2. CASE l # k \/ n # 1
    BY <2>2, <1>3, <1>4, <1>11 DEF CountersOK
  <2> QED BY <2>1, <2>2
<1>12. \A l \in Keys : hits'[l] \in 0 .. Limit[l] + 1 /\ ttl'[l] \in 0 .. Window[l]
                       /\ (hits'[l] = 0 => ttl'[l] = 0)
  BY <1>2, <1>6 DEF CountersOK
<1>13. first' \subseteq {x \in Requests : Busy(x)}' /\ dead' \subseteq Keys
  BY <1>2, <1>8 DEF CountersOK, Busy
<1>14. MakersInv'
  BY <1>9 DEF MakersInv
<1>15. CountersOK'
  <2>1. /\ todo' \in [Requests -> Seq(Keys)]
        /\ first' \subseteq {x \in Requests : Busy(x)}' /\ dead' \subseteq Keys
    BY <1>8, <1>13
  <2> HIDE DEF k, n
  <2> QED BY <2>1, <1>6a, <1>7, <1>10, <1>11, <1>12 DEF CountersOK
<1> QED BY <1>14, <1>15

\* EXPIRE gives the counter of its request its time, and no other one.
LEMMA ExpireKeepsCounters ==
  ASSUME CountersOK, MakersInv, NEW r \in Requests, Expire(r)
  PROVE  (CountersOK /\ MakersInv)'
<1> DEFINE k == KeyOf(r)
<1>1. k \in Keys /\ Tail(todo[r]) \in Seq(Keys)
  BY TodoFacts DEF Expire
<1>2. /\ ttl' = [ttl EXCEPT ![k] = Window[k]]
      /\ first' = first \ {r} /\ r \in first
      /\ todo' = [todo EXCEPT ![r] = Tail(@)]
      /\ hits' = hits /\ passed' = passed /\ dead' = dead
  BY DEF Expire
<1>3. ASSUME NEW x \in Requests \ {r}, NEW l \in Keys PROVE Maker(x, l)' <=> Maker(x, l)
  BY <1>2, <1>3 DEF Maker, KeyOf, CountersOK
<1>4. \A l \in Keys : ~Maker(r, l)'
  BY <1>2 DEF Maker
<1>5. Maker(r, k) /\ hits[k] # 0 /\ \A x \in Requests : Maker(x, k) => x = r
  BY <1>1, <1>2 DEF Maker, MakersInv, CountersOK
<1>6. Window[k] \in Nat \ {0}
  BY <1>1, LimitsAssumption
<1>7. /\ \A l \in Keys : ttl'[l] = IF l = k THEN Window[k] ELSE ttl[l]
      /\ {hits', ttl'} \subseteq [Keys -> Nat]
  BY <1>1, <1>2, <1>6 DEF CountersOK
<1>8. MakersInv'
  BY <1>2, <1>3, <1>4, <1>5, <1>7 DEF MakersInv
<1>9. \A l \in Keys : ttl'[l] \in 0 .. Window[l] /\ (hits'[l] = 0 => ttl'[l] = 0)
  BY <1>2, <1>5, <1>6, <1>7 DEF CountersOK
<1>10. ASSUME NEW l \in Keys, hits'[l] # 0, ttl'[l] = 0
       PROVE  l \in dead' \/ \E x \in Requests : Maker(x, l)'
  <2>1. l # k /\ (l \in dead \/ \E x \in Requests : Maker(x, l))
    BY <1>2, <1>6, <1>7, <1>10 DEF CountersOK
  <2>2. ~Maker(r, l)
    BY <2>1, <1>5 DEF Maker
  <2> QED BY <2>1, <2>2, <1>2, <1>3
<1>11. \A l \in Keys : \A x, y \in Requests : Maker(x, l)' /\ Maker(y, l)' => x = y
  BY <1>3, <1>4 DEF CountersOK
<1>12. todo' \in [Requests -> Seq(Keys)] /\ first' \subseteq {x \in Requests : Busy(x)}'
  BY <1>1, <1>2 DEF CountersOK, Busy
<1> QED BY <1>2, <1>7, <1>8, <1>9, <1>10, <1>11, <1>12 DEF CountersOK

\* A request that dies leaves a key without an end only if it made it.
LEMMA DieKeepsCounters ==
  ASSUME CountersOK, MakersInv, NEW r \in Requests, Die(r)
  PROVE  (CountersOK /\ MakersInv)'
<1>1. KeyOf(r) \in Keys /\ <<>> \in Seq(Keys)
  BY TodoFacts DEF Die
<1>2. /\ todo' = [todo EXCEPT ![r] = <<>>] /\ first' = first \ {r}
      /\ dead' = IF r \in first THEN dead \cup {KeyOf(r)} ELSE dead
      /\ hits' = hits /\ ttl' = ttl /\ passed' = passed
  BY DEF Die
<1>3. ASSUME NEW x \in Requests \ {r}, NEW l \in Keys PROVE Maker(x, l)' <=> Maker(x, l)
  BY <1>2, <1>3 DEF Maker, KeyOf, CountersOK
<1>4. \A l \in Keys : ~Maker(r, l)' /\ (Maker(r, l) => l \in dead')
  BY <1>2 DEF Maker
<1>5. MakersInv'
  BY <1>2, <1>3, <1>4 DEF MakersInv
<1>6. ASSUME NEW l \in Keys, hits'[l] # 0, ttl'[l] = 0
      PROVE  l \in dead' \/ \E x \in Requests : Maker(x, l)'
  <2>1. l \in dead \/ \E x \in Requests : Maker(x, l)
    BY <1>2, <1>6 DEF CountersOK
  <2> QED BY <2>1, <1>2, <1>3, <1>4
<1>7. \A l \in Keys : \A x, y \in Requests : Maker(x, l)' /\ Maker(y, l)' => x = y
  BY <1>3, <1>4 DEF CountersOK
<1>8. todo' \in [Requests -> Seq(Keys)] /\ first' \subseteq {x \in Requests : Busy(x)}'
      /\ dead' \subseteq Keys
  BY <1>1, <1>2 DEF CountersOK, Busy
<1> QED BY <1>2, <1>5, <1>6, <1>7, <1>8 DEF CountersOK

\* The clock takes counters away with their time, and no counter that has none.
LEMMA TickKeepsCounters ==
  ASSUME CountersOK, MakersInv, Tick
  PROVE  (CountersOK /\ MakersInv)'
<1>1. ASSUME NEW k \in Keys
      PROVE  /\ hits'[k] = IF ttl[k] = 1 THEN 0 ELSE hits[k]
             /\ ttl'[k] = IF ttl[k] = 0 THEN 0 ELSE ttl[k] - 1
  BY DEF Tick
<1>2. todo' = todo /\ first' = first /\ dead' = dead
  BY DEF Tick
<1>3. \A r \in Requests, k \in Keys : Maker(r, k)' <=> Maker(r, k)
  BY <1>2 DEF Maker, KeyOf
<1>4. ASSUME NEW k \in Keys, NEW r \in Requests, Maker(r, k)'
      PROVE  hits'[k] # 0 /\ ttl'[k] = 0
  <2>1. hits[k] # 0 /\ ttl[k] = 0
    BY <1>3, <1>4 DEF MakersInv
  <2> QED BY <2>1, <1>1
<1>5. ASSUME NEW k \in Keys
      PROVE  /\ hits'[k] \in 0 .. Limit[k] + 1 /\ ttl'[k] \in 0 .. Window[k]
             /\ hits'[k] = 0 => ttl'[k] = 0
             /\ hits'[k] # 0 /\ ttl'[k] = 0 => hits[k] # 0 /\ ttl[k] = 0
             /\ passed'[k] \in [1 .. 2 * Limit[k] -> 0 .. Window[k]]
  <2>1. /\ Limit[k] \in Nat \ {0} /\ Window[k] \in Nat \ {0}
        /\ hits[k] \in 0 .. Limit[k] + 1 /\ ttl[k] \in 0 .. Window[k]
        /\ passed[k] \in [1 .. 2 * Limit[k] -> 0 .. Window[k]]
        /\ hits[k] = 0 => ttl[k] = 0
    BY KeyFacts
  <2>2. passed'[k] \in [1 .. 2 * Limit[k] -> 0 .. Window[k]]
    <3>1. passed'[k] = [i \in 1 .. 2 * Limit[k] |->
                          IF passed[k][i] < Window[k] THEN passed[k][i] + 1 ELSE Window[k]]
      BY DEF Tick
    <3>2. ASSUME NEW i \in 1 .. 2 * Limit[k]
          PROVE  (IF passed[k][i] < Window[k] THEN passed[k][i] + 1 ELSE Window[k]) \in 0 .. Window[k]
      <4>1. passed[k][i] \in 0 .. Window[k]
        BY <2>1
      <4> QED BY <4>1, <2>1
    <3> QED BY <3>1, <3>2
  <2>3. /\ hits'[k] = IF ttl[k] = 1 THEN 0 ELSE hits[k]
        /\ ttl'[k] = IF ttl[k] = 0 THEN 0 ELSE ttl[k] - 1
    BY <1>1
  <2>4. /\ hits'[k] \in 0 .. Limit[k] + 1 /\ ttl'[k] \in 0 .. Window[k]
        /\ hits'[k] = 0 => ttl'[k] = 0
        /\ hits'[k] # 0 /\ ttl'[k] = 0 => hits[k] # 0 /\ ttl[k] = 0
    BY <2>1, <2>3
  <2> QED BY <2>2, <2>4
<1>6. {hits', ttl'} \subseteq [Keys -> Nat] /\ DOMAIN passed' = Keys
  BY <1>5 DEF Tick, CountersOK
<1>7. \A k \in Keys : hits'[k] # 0 /\ ttl'[k] = 0 => k \in dead' \/ \E r \in Requests : Maker(r, k)'
  BY <1>2, <1>3, <1>5 DEF CountersOK
<1>8. \A k \in Keys : \A r, s \in Requests : Maker(r, k)' /\ Maker(s, k)' => r = s
  BY <1>3 DEF CountersOK
<1>9. todo' \in [Requests -> Seq(Keys)] /\ first' \subseteq {r \in Requests : Busy(r)}'
      /\ dead' \subseteq Keys
  BY <1>2 DEF CountersOK, Busy
<1> QED BY <1>4, <1>5, <1>6, <1>7, <1>8, <1>9 DEF CountersOK, MakersInv

\* Every step keeps the counters and their makers.
LEMMA NextKeepsCounters ==
  CountersOK /\ MakersInv /\ [Next]_vars => (CountersOK /\ MakersInv)'
<1> SUFFICES ASSUME CountersOK, MakersInv, [Next]_vars PROVE (CountersOK /\ MakersInv)'
  OBVIOUS
<1>1. ASSUME NEW r \in Requests, Arrive(r) PROVE (CountersOK /\ MakersInv)'
  <2>1. /\ todo' = [todo EXCEPT ![r] = Checks[r]] /\ r \notin first /\ Checks[r] \in Seq(Keys)
        /\ hits' = hits /\ ttl' = ttl /\ first' = first /\ passed' = passed /\ dead' = dead
    BY <1>1, LimitsAssumption DEF Arrive, CountersOK
  <2>2. \A x \in Requests, k \in Keys : Maker(x, k)' <=> Maker(x, k)
    BY <2>1 DEF Maker, KeyOf, CountersOK
  <2>3. todo' \in [Requests -> Seq(Keys)] /\ first' \subseteq {x \in Requests : Busy(x)}'
    BY <2>1 DEF CountersOK, Busy
  <2> QED BY <2>1, <2>2, <2>3 DEF CountersOK, MakersInv
<1>2. CASE UNCHANGED vars
  BY <1>2 DEF vars, CountersOK, MakersInv, Maker, KeyOf, Busy
<1> QED BY <1>1, <1>2, IncrKeepsCounters, ExpireKeepsCounters, DieKeepsCounters, TickKeepsCounters
        DEF Next

\* A counter without a time to live has one maker, who will set it or has
\* died, whatever comes between INCR and EXPIRE.
THEOREM CountersHold == Spec => [](CountersOK /\ MakersInv)
BY InitHasCounters, NextKeepsCounters, PTL DEF Spec

-----------------------------------------------------------------------------
(* Windows.                                                                *)

\* At the start whatever was let pass is a window old.
LEMMA InitHasWindows == Init => WindowInv
<1> SUFFICES ASSUME Init PROVE WindowInv
  OBVIOUS
<1>1. ASSUME NEW k \in Keys
      PROVE  /\ Limit[k] \in Nat \ {0} /\ Window[k] \in Nat /\ hits[k] = 0
             /\ passed[k] = [i \in 1 .. 2 * Limit[k] |-> Window[k]]
  BY LimitsAssumption DEF Init
<1>2. ASSUME NEW k \in Keys
      PROVE  /\ \A i, j \in 1 .. 2 * Limit[k] : i < j => passed[k][i] <= passed[k][j]
             /\ passed[k][Let(k) + Limit[k]] = Window[k]
  <2>0. Limit[k] \in Nat \ {0} /\ Window[k] \in Nat /\ hits[k] = 0
    BY <1>1
  <2>1. Let(k) = 0 /\ Limit[k] \in 1 .. 2 * Limit[k] /\ 0 + Limit[k] = Limit[k]
    BY <2>0 DEF Let
  <2>2. \A i \in 1 .. 2 * Limit[k] : passed[k][i] = Window[k]
    BY <1>1
  <2>3. \A i, j \in 1 .. 2 * Limit[k] : i < j => passed[k][i] <= passed[k][j]
    BY <2>2, <2>0
  <2> QED BY <2>1, <2>2, <2>3
<1>3. \A k \in Keys : hits[k] = 0
  BY <1>1
<1> QED BY <1>2, <1>3 DEF WindowInv

\* A step that leaves the counters of k alone leaves its window alone.
LEMMA NextKeepsWindows == CountersOK /\ MakersInv /\ WindowInv /\ [Next]_vars => WindowInv'
<1> SUFFICES ASSUME CountersOK, MakersInv, WindowInv, [Next]_vars, NEW k \in Keys
             PROVE  /\ \A i, j \in 1 .. 2 * Limit[k] : i < j => passed'[k][i] <= passed'[k][j]
                    /\ passed'[k][Let(k)' + Limit[k]] = Window[k]
                    /\ hits'[k] # 0 /\ ttl'[k] # 0 => passed'[k][Let(k)'] + ttl'[k] >= Window[k]
  BY DEF WindowInv
<1> DEFINE L == Limit[k]  W == Window[k]  p == passed[k]  h == hits[k]  t == ttl[k]
<1>1. /\ L \in Nat \ {0} /\ W \in Nat \ {0} /\ p \in [1 .. 2 * L -> 0 .. W]
      /\ h \in 0 .. L + 1 /\ t \in 0 .. W /\ (h = 0 => t = 0)
  BY KeyFacts
<1>2. /\ \A i, j \in 1 .. 2 * L : i < j => p[i] <= p[j]
      /\ p[Let(k) + L] = W
      /\ h # 0 /\ t # 0 => p[Let(k)] + t >= W
  BY DEF WindowInv
<1>3. Let(k) \in 0 .. L /\ (h # 0 => Let(k) \in 1 .. L) /\ Let(k) + L \in 1 .. 2 * L
  BY <1>1 DEF Let
<1>4. CASE passed'[k] = p /\ hits'[k] = h /\ ttl'[k] = t
  BY <1>2, <1>4 DEF Let
<1>5. ASSUME NEW r \in Requests, Incr(r), KeyOf(r) = k
      PROVE  /\ \A i, j \in 1 .. 2 * L : i < j => passed'[k][i] <= passed'[k][j]
             /\ passed'[k][Let(k)' + L] = W
             /\ hits'[k] # 0 /\ ttl'[k] # 0 => passed'[k][Let(k)'] + ttl'[k] >= W
  <2>1. /\ hits'[k] = (IF h > L THEN h ELSE h + 1) /\ ttl' = ttl
        /\ passed' = IF h + 1 > L THEN passed ELSE Passing(k)
    BY <1>5 DEF Incr, Over, CountersOK
  <2>2. CASE h + 1 > L
    BY <2>1, <2>2, <1>1, <1>2 DEF Let
  <2>3. CASE h + 1 <= L
    <3>1. passed'[k] = [i \in 1 .. 2 * L |-> IF i = 1 THEN 0 ELSE p[i - 1]]
      BY <2>1, <2>3, <1>1 DEF Passing, CountersOK
    <3>2. Let(k)' = h + 1 /\ Let(k) = h
      BY <2>1, <2>3, <1>1 DEF Let
    <3> DEFINE q == passed'[k]
    <3>3. \A i \in 1 .. 2 * L : q[i] = IF i = 1 THEN 0 ELSE p[i - 1]
      BY <3>1
    <3> HIDE DEF p, q, L, W, h, t
    <3>4. ASSUME NEW i \in 1 .. 2 * L, NEW j \in 1 .. 2 * L, i < j PROVE q[i] <= q[j]
      <4>1. j # 1 /\ j - 1 \in 1 .. 2 * L /\ p[j - 1] \in 0 .. W
        BY <3>4, <1>1
      <4>2. CASE i = 1
        BY <4>1, <4>2, <3>3
      <4>3. CASE i # 1
        <5>1. i - 1 \in 1 .. 2 * L /\ i - 1 < j - 1
          BY <4>3, <3>4, <1>1
        <5> QED BY <5>1, <4>1, <4>3, <3>3, <1>2
      <4> QED BY <4>2, <4>3
    <3>5. q[h + 1 + L] = W
      <4>1. L \in Nat /\ h \in Nat /\ h + 1 + L \in 1 .. 2 * L /\ h + 1 + L # 1 /\ h + 1 + L - 1 = h + L
        BY <2>3, <1>1
      <4>2. q[h + 1 + L] = p[h + 1 + L - 1]
        BY <4>1, <3>3
      <4>3. p[h + L] = W
        BY <3>2, <1>2
      <4> QED BY <4>1, <4>2, <4>3
    <3>6. h # 0 => q[h + 1] = p[h]
      <4>1. SUFFICES ASSUME h # 0 PROVE q[h + 1] = p[h]
        OBVIOUS
      <4>2. L \in Nat /\ h \in Nat /\ h + 1 \in 1 .. 2 * L /\ h + 1 # 1 /\ h + 1 - 1 = h
        BY <4>1, <2>3, <1>1
      <4>3. q[h + 1] = p[h + 1 - 1]
        BY <4>2, <3>3
      <4> QED BY <4>2, <4>3
    <3>7. h = 0 => t = 0
      BY <1>1
    <3> QED BY <3>2, <3>4, <3>5, <3>6, <3>7, <2>1, <1>2 DEF q, p, L, W, h, t
  <2> QED BY <2>2, <2>3, <1>1
<1>6. ASSUME NEW r \in Requests, Expire(r), KeyOf(r) = k
      PROVE  /\ passed'[k] = p /\ hits'[k] = h /\ ttl'[k] = W
  BY <1>6 DEF Expire, CountersOK
<1>7. ASSUME Tick
      PROVE  /\ \A i, j \in 1 .. 2 * L : i < j => passed'[k][i] <= passed'[k][j]
             /\ passed'[k][Let(k)' + L] = W
             /\ hits'[k] # 0 /\ ttl'[k] # 0 => passed'[k][Let(k)'] + ttl'[k] >= W
  <2>1. /\ hits'[k] = IF t = 1 THEN 0 ELSE h
        /\ ttl'[k] = IF t = 0 THEN 0 ELSE t - 1
        /\ passed'[k] = [i \in 1 .. 2 * L |-> IF p[i] < W THEN p[i] + 1 ELSE W]
    BY <1>7 DEF Tick
  <2> DEFINE q == passed'[k]
  <2>0. \A i \in 1 .. 2 * L : /\ q[i] = IF p[i] < W THEN p[i] + 1 ELSE W
                              /\ p[i] \in 0 .. W /\ q[i] \in 0 .. W
    <3>1. \A i \in 1 .. 2 * L : q[i] = IF p[i] < W THEN p[i] + 1 ELSE W
      BY <2>1
    <3> HIDE DEF p, q, L, W
    <3>2. \A i \in 1 .. 2 * L : p[i] \in 0 .. W
      BY <1>1
    <3> QED BY <3>1, <3>2, <1>1
  <2>2. ASSUME NEW i \in 1 .. 2 * L, NEW j \in 1 .. 2 * L, i < j
        PROVE  passed'[k][i] <= passed'[k][j]
    <3>1. p[i] <= p[j] /\ p[i] \in 0 .. W /\ p[j] \in 0 .. W
      BY <2>2, <2>0, <1>2
    <3>2. /\ q[i] = IF p[i] < W THEN p[i] + 1 ELSE W
          /\ q[j] = IF p[j] < W THEN p[j] + 1 ELSE W
      BY <2>0
    <3> HIDE DEF p, q, L, W
    <3>3. q[i] <= q[j]
      BY <3>1, <3>2, <1>1
    <3> QED BY <3>3 DEF q
  <2>3. CASE t # 1
    <3>1. Let(k)' = Let(k) /\ hits'[k] = h /\ ttl'[k] = (IF t = 0 THEN 0 ELSE t - 1)
      BY <2>1, <2>3 DEF Let
    <3>2. q[Let(k) + L] = W
      BY <2>0, <1>1, <1>2, <1>3
    <3>3. h # 0 /\ t # 0 => q[Let(k)] + (t - 1) >= W
      <4>1. SUFFICES ASSUME h # 0, t # 0 PROVE q[Let(k)] + (t - 1) >= W
        OBVIOUS
      <4>2. Let(k) \in 1 .. 2 * L /\ p[Let(k)] + t >= W /\ t >= 1
        BY <4>1, <1>1, <1>2, <1>3
      <4> QED BY <4>2, <2>0, <1>1
    <3> QED BY <3>1, <3>2, <3>3, <2>2
  <2>4. CASE t = 1
    <3>1. h # 0 /\ p[Let(k)] + 1 >= W /\ Let(k)' = 0 /\ Let(k) \in 1 .. L
      BY <2>1, <2>4, <1>1, <1>2, <1>3 DEF Let
    <3>2. Let(k) \in 1 .. 2 * L /\ L \in 1 .. 2 * L
      BY <3>1, <1>1
    <3>3. q[Let(k)] = W /\ q[L] \in 0 .. W
      BY <3>1, <3>2, <2>0, <1>1
    <3>4. q[L] = W
      BY <3>1, <3>2, <3>3, <2>2, <1>1
    <3>5. hits'[k] = 0 /\ 0 + L = L
      BY <2>1, <2>4, <1>1
    <3> QED BY <3>1, <3>4, <3>5, <2>2
  <2> QED BY <2>3, <2>4
<1>8. ASSUME NEW r \in Requests, Incr(r) \/ Expire(r), KeyOf(r) # k
      PROVE  passed'[k] = p /\ hits'[k] = h /\ ttl'[k] = t
  BY <1>8 DEF Incr, Expire, Passing, CountersOK
<1>9. ASSUME NEW r \in Requests, Incr(r) \/ Expire(r)
      PROVE  /\ \A i, j \in 1 .. 2 * L : i < j => passed'[k][i] <= passed'[k][j]
             /\ passed'[k][Let(k)' + L] = W
             /\ hits'[k] # 0 /\ ttl'[k] # 0 => passed'[k][Let(k)'] + ttl'[k] >= W
  <2>1. CASE KeyOf(r) # k
    BY <2>1, <1>4, <1>8, <1>9
  <2>2. CASE KeyOf(r) = k /\ Incr(r)
    BY <2>2, <1>5
  <2>3. CASE KeyOf(r) = k /\ Expire(r)
    <3>1. passed'[k] = p /\ Let(k)' = Let(k) /\ ttl'[k] = W /\ hits'[k] = h
      BY <2>3, <1>6 DEF Let
    <3>2. h # 0 => p[Let(k)] + W >= W
      <4>1. h # 0 => Let(k) \in 1 .. 2 * L
        BY <1>1, <1>3
      <4> QED BY <4>1, <1>1
    <3> QED BY <3>1, <3>2, <1>2
  <2> QED BY <2>1, <2>2, <2>3, <1>9
<1>10. ASSUME NEW r \in Requests, Arrive(r) \/ Die(r)
       PROVE  passed'[k] = p /\ hits'[k] = h /\ ttl'[k] = t
  BY <1>10 DEF Arrive, Die
<1>11. CASE UNCHANGED vars
  BY <1>4, <1>11 DEF vars
<1> QED BY <1>4, <1>7, <1>9, <1>10, <1>11 DEF Next

\* The newest requests that a key let pass, fewer than twice its limit, are all
\* that any stretch of time as long as its window has.
THEOREM WindowsHold == Spec => []LimitsHold
<1>1. ASSUME CountersOK, WindowInv PROVE LimitsHold
  <2>1. SUFFICES ASSUME NEW k \in Keys PROVE passed[k][2 * Limit[k]] = Window[k]
    BY DEF LimitsHold
  <2>2. /\ Limit[k] \in Nat \ {0} /\ hits[k] \in Nat /\ Window[k] \in Nat
        /\ passed[k] \in [1 .. 2 * Limit[k] -> 0 .. Window[k]]
    BY <1>1, LimitsAssumption DEF CountersOK
  <2>3. Let(k) + Limit[k] \in 1 .. 2 * Limit[k] /\ passed[k][Let(k) + Limit[k]] = Window[k]
    BY <2>2, <1>1 DEF WindowInv, Let
  <2> QED BY <2>2, <2>3, <1>1 DEF WindowInv
<1> QED BY <1>1, InitHasWindows, NextKeepsWindows, CountersHold, PTL DEF Spec
=============================================================================
