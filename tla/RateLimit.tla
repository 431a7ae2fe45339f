------------------------------- MODULE RateLimit -------------------------------
(***************************************************************************)
(* rate_limit: counters in Redis, one for each phone, address or account,  *)
(* that a request passes one after the other before anything else is done  *)
(* for it.  A counter is made by the first INCR and gets its time to live  *)
(* from a command of its own, EXPIRE; other requests come between the two, *)
(* and the process may die there.                                          *)
(*                                                                         *)
(* Time is what is left to each key and the age of what it let pass, so    *)
(* the model goes on for ever.  A counter over its limit is as good as     *)
(* another, so it is not counted further.                                  *)
(***************************************************************************)
EXTENDS Integers, Sequences

CONSTANTS
  Keys,     \* the counters
  Limit,    \* how many requests each lets pass
  Window,   \* window_seconds of each
  Requests, \* requests under way at the same time; each comes again and again
  Checks    \* the keys each of them is counted under, in their order

ASSUME LimitsAssumption ==
  /\ Limit \in [Keys -> Nat \ {0}]
  /\ Window \in [Keys -> Nat \ {0}]
  /\ Checks \in [Requests -> Seq(Keys)]

VARIABLES
  hits,   \* the counter of each key, 0 if there is none
  ttl,    \* the time it has left, 0 if it has none
  todo,   \* the keys each request has yet to pass
  first,  \* the requests whose INCR made the counter of the key they are at
  passed, \* history: the ages of what each key let pass, newest first, as
          \* many as twice its limit; older than a window is as old as one
  dead    \* history: keys whose maker died before its EXPIRE

vars == <<hits, ttl, todo, first, passed, dead>>

Init ==
  /\ hits = [k \in Keys |-> 0]
  /\ ttl = [k \in Keys |-> 0]
  /\ todo = [r \in Requests |-> <<>>]
  /\ first = {}
  /\ passed = [k \in Keys |-> [i \in 1 .. 2 * Limit[k] |-> Window[k]]]
  /\ dead = {}

KeyOf(r) == Head(todo[r])
Busy(r) == todo[r] # <<>>

\* OTP requests, payment intents and submissions begin with their checks.
Arrive(r) ==
  /\ ~Busy(r)
  /\ todo' = [todo EXCEPT ![r] = Checks[r]]
  /\ UNCHANGED <<hits, ttl, first, passed, dead>>

\* Variant: one request more than the limit.
OverOnceMore(k, n) == n > Limit[k] + 1
Over(k, n) == n > Limit[k]

\* One more request that k let pass.
Passing(k) ==
  [passed EXCEPT ![k] = [i \in 1 .. 2 * Limit[k] |-> IF i = 1 THEN 0 ELSE passed[k][i - 1]]]

\* Variant: EXPIRE follows every INCR, not the first one alone.
IncrRenewing(r) ==
  LET k == KeyOf(r)
      n == hits[k] + 1
  IN /\ Busy(r) /\ r \notin first
     /\ hits' = [hits EXCEPT ![k] = IF @ > Limit[k] THEN @ ELSE n]
     /\ ttl' = IF n = 1 THEN ttl ELSE [ttl EXCEPT ![k] = Window[k]]
     /\ first' = IF n = 1 THEN first \cup {r} ELSE first
     /\ passed' = IF Over(k, n) THEN passed ELSE Passing(k)
     /\ todo' = [todo EXCEPT ![r] = IF n = 1 THEN @
                                    ELSE IF Over(k, n) THEN <<>> ELSE Tail(@)]
     /\ UNCHANGED dead

\* Variant: EXPIRE is sent with the INCR after which the key is full.
IncrExpiringLast(r) ==
  LET k == KeyOf(r)
      n == hits[k] + 1
  IN /\ Busy(r) /\ r \notin first
     /\ hits' = [hits EXCEPT ![k] = IF @ > Limit[k] THEN @ ELSE n]
     /\ first' = IF n = Limit[k] THEN first \cup {r} ELSE first
     /\ passed' = IF Over(k, n) THEN passed ELSE Passing(k)
     /\ todo' = [todo EXCEPT ![r] = IF n = Limit[k] THEN @
                                    ELSE IF Over(k, n) THEN <<>> ELSE Tail(@)]
     /\ UNCHANGED <<ttl, dead>>

\* INCR.  Over the limit the request ends with 429, counted all the same
\* under this key and the ones before it.
Incr(r) ==
  LET k == KeyOf(r)
      n == hits[k] + 1
  IN /\ Busy(r) /\ r \notin first
     /\ hits' = [hits EXCEPT ![k] = IF @ > Limit[k] THEN @ ELSE n]
     /\ first' = IF n = 1 THEN first \cup {r} ELSE first
     /\ passed' = IF Over(k, n) THEN passed ELSE Passing(k)
     /\ todo' = [todo EXCEPT ![r] = IF n = 1 THEN @
                                    ELSE IF Over(k, n) THEN <<>> ELSE Tail(@)]
     /\ UNCHANGED <<ttl, dead>>

\* EXPIRE, by the request that made the key.
Expire(r) ==
  LET k == KeyOf(r)
  IN /\ Busy(r) /\ r \in first
     /\ ttl' = [ttl EXCEPT ![k] = Window[k]]
     /\ first' = first \ {r}
     /\ todo' = [todo EXCEPT ![r] = Tail(@)]
     /\ UNCHANGED <<hits, passed, dead>>

\* The process dies, or Redis cannot be reached.
Die(r) ==
  /\ Busy(r)
  /\ todo' = [todo EXCEPT ![r] = <<>>]
  /\ first' = first \ {r}
  /\ dead' = IF r \in first THEN dead \cup {KeyOf(r)} ELSE dead
  /\ UNCHANGED <<hits, ttl, passed>>

\* Time passes, and keys whose time is over are gone.
Tick ==
  LET expired == {k \in Keys : ttl[k] = 1}
      Older(k) == [i \in 1 .. 2 * Limit[k] |->
                     IF passed[k][i] < Window[k] THEN passed[k][i] + 1 ELSE Window[k]]
  IN /\ hits' = [k \in Keys |-> IF k \in expired THEN 0 ELSE hits[k]]
     /\ ttl' = [k \in Keys |-> IF ttl[k] = 0 THEN 0 ELSE ttl[k] - 1]
     /\ passed' = [k \in Keys |-> Older(k)]
     /\ UNCHANGED <<todo, first, dead>>

Next ==
  \/ \E r \in Requests : Arrive(r) \/ Incr(r) \/ Expire(r) \/ Die(r)
  \/ Tick

Spec == Init /\ [][Next]_vars

\* Redis' clock runs, and a process that lives gets to its EXPIRE.
FairSpec ==
  /\ Spec
  /\ WF_vars(Tick)
  /\ \A r \in Requests : WF_vars(Expire(r))

-----------------------------------------------------------------------------
(* Properties.                                                             *)

\* A request that has made the counter of k and not set its time yet.
Maker(r, k) == r \in first /\ KeyOf(r) = k

\* Every variable has its type, and a counter without a time to live has one
\* maker, who is about to set it, or one who died: a crash between INCR and
\* EXPIRE is the only way to a key that never expires.
CountersOK ==
  /\ {hits, ttl} \subseteq [Keys -> Nat] /\ DOMAIN passed = Keys
  /\ \A k \in Keys :
       /\ hits[k] \in 0 .. Limit[k] + 1
       /\ ttl[k] \in 0 .. Window[k]
       /\ passed[k] \in [1 .. 2 * Limit[k] -> 0 .. Window[k]]
       /\ hits[k] = 0 => ttl[k] = 0
       /\ hits[k] # 0 /\ ttl[k] = 0 => k \in dead \/ \E r \in Requests : Maker(r, k)
       /\ \A r, s \in Requests : Maker(r, k) /\ Maker(s, k) => r = s
  /\ todo \in [Requests -> Seq(Keys)]
  /\ first \subseteq {r \in Requests : Busy(r)}
  /\ dead \subseteq Keys

\* Windows are fixed, not sliding: in any time as long as a window a key lets
\* pass less than twice its limit, however slow its maker is to set its time
\* (docs/05's "5/hour per phone" is nine in the worst hour).
LimitsHold == \A k \in Keys : passed[k][2 * Limit[k]] = Window[k]

\* Whoever is refused may pass later: while requests keep coming, a key has
\* room again and again, unless its maker died.
KeysComeBack == \A k \in Keys : []<>(hits[k] < Limit[k] \/ k \in dead)
=============================================================================
