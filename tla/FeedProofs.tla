------------------------------- MODULE FeedProofs -------------------------------
(***************************************************************************)
(* Proofs about LeaderboardFeed for every number of writers and visitors,  *)
(* every TTL of the cache, every interval of the poll and every bound on   *)
(* how slow a request is: how old an answer and the page can be.           *)
(***************************************************************************)
EXTENDS LeaderboardFeed, SequenceTheorems, TLAPS

AllKinds == {"settlement", "reversal", "moderation", "dispute", "get", "connect"}
StepNames == {"commit", "get", "read", "set", "publish", "delete", "answer", "subscribe"}

\* The step that is first of those left.
First(s) == IF s = <<>> THEN "none" ELSE Head(s)

\* What may come after a step.
After(step) ==
  CASE step = "commit" -> {"read", "delete", "none"}
    [] step = "get" -> {"read"}
    [] step = "read" -> {"set"}
    [] step = "set" -> {"publish", "answer"}
    [] step = "publish" -> {"delete", "none"}
    [] step = "delete" -> {"commit", "none"}
    [] step = "answer" -> {"subscribe", "none"}
    [] step = "subscribe" -> {"none"}

\* What x may have left.
Left(x) == {<<>>} \cup UNION {Rests(k) : k \in KindsOf(x)}

\* The steps that a request takes within Slow.
Timed == {"get", "read", "set", "publish", "answer"}

\* The board shows every one of some commits before t.
Fresh(times, board, t) == \A i \in DOMAIN times : times[i] < t => i <= board

\* What a request has in hand, by the step it is at.
InHand(x) ==
  /\ First(todo[x]) \in Timed => now <= hand[x].since + Slow
  /\ First(todo[x]) \in {"set", "publish"} => Fresh(commits, hand[x].board, hand[x].since)
  /\ First(todo[x]) = "answer" => Fresh(commits, hand[x].board, hand[x].since + 1 - TTL - Slow)

\* The poll is never late.
PollInv ==
  IF todo["poll"] = <<>> THEN now <= fetched + Poll ELSE hand["poll"].since <= fetched + Poll

\* A cached board was read no longer than Slow before it was cached, and what the
\* browser shows is a push or an answer.
FeedInv ==
  /\ \A x \in Requests : InHand(x)
  /\ cache # Empty => Fresh(commits, cache.board, cache.until - TTL - Slow)
  /\ Fresh(commits, shown, fetched + 1 - TTL - 2 * Slow)
  /\ PollInv

-----------------------------------------------------------------------------
(* The steps of the requests.                                              *)

\* Tuples of two, four and five steps are sequences.
LEMMA TupleFacts ==
  ASSUME NEW Z, NEW a \in Z, NEW b \in Z, NEW c \in Z, NEW d \in Z, NEW e \in Z
  PROVE  /\ <<a, b>> \in Seq(Z) /\ <<a, b, c, d>> \in Seq(Z) /\ <<a, b, c, d, e>> \in Seq(Z)
         /\ Len(<<a, b>>) = 2 /\ Len(<<a, b, c, d>>) = 4 /\ Len(<<a, b, c, d, e>>) = 5
OBVIOUS

\* After, one step at a time.
LEMMA AfterFacts ==
  /\ After("commit") = {"read", "delete", "none"}
  /\ After("get") = {"read"}
  /\ After("read") = {"set"}
  /\ After("set") = {"publish", "answer"}
  /\ After("publish") = {"delete", "none"}
  /\ After("delete") = {"commit", "none"}
  /\ After("answer") = {"subscribe", "none"}
  /\ After("subscribe") = {"none"}
BY DEF After

\* What each kind of request does, one step after the other.
LEMMA StepsFacts ==
  ASSUME NEW kind \in AllKinds
  PROVE  /\ Steps(kind) \in Seq(StepNames) /\ Len(Steps(kind)) \in {2, 4, 5}
         /\ \A i \in 1 .. Len(Steps(kind)) :
              (IF i = Len(Steps(kind)) THEN "none" ELSE Steps(kind)[i + 1]) \in After(Steps(kind)[i])
         /\ \A i \in 1 .. Len(Steps(kind)) :
              Steps(kind)[i] = "get" => i + 3 <= Len(Steps(kind)) /\ Steps(kind)[i + 3] = "answer"
         /\ kind = "get" => \A i \in 1 .. Len(Steps(kind)) : Steps(kind)[i] \in Timed \ {"publish"}
<1>0. {"commit", "get", "read", "set", "publish", "delete", "answer", "subscribe"} \subseteq StepNames
  BY DEF StepNames
<1>1. CASE kind = "settlement"
  <2>1. Steps(kind) = <<"commit", "read", "set", "publish">>
    BY <1>1 DEF Steps
  <2>2. Steps(kind) \in Seq(StepNames) /\ Len(Steps(kind)) = 4
    BY <2>1, <1>0, TupleFacts
  <2> QED BY <1>1, <2>1, <2>2, AfterFacts
<1>2. CASE kind = "reversal"
  <2>1. Steps(kind) = <<"commit", "read", "set", "publish", "delete">>
    BY <1>2 DEF Steps
  <2>2. Steps(kind) \in Seq(StepNames) /\ Len(Steps(kind)) = 5
    BY <2>1, <1>0, TupleFacts
  <2>3. ASSUME NEW i \in 1 .. Len(Steps(kind))
        PROVE  /\ (IF i = 5 THEN "none" ELSE Steps(kind)[i + 1]) \in After(Steps(kind)[i])
               /\ Steps(kind)[i] = "get" => i = 1
    <3>1. i = 1 \/ i = 2 \/ i = 3 \/ i = 4 \/ i = 5
      BY <2>2
    <3>2. CASE i = 1
      BY <2>1, <3>2, AfterFacts
    <3>3. CASE i = 2
      BY <2>1, <3>3, AfterFacts
    <3>4. CASE i = 3
      BY <2>1, <3>4, AfterFacts
    <3>5. CASE i = 4
      BY <2>1, <3>5, AfterFacts
    <3>6. CASE i = 5
      BY <2>1, <3>6, AfterFacts
    <3> QED BY <3>1, <3>2, <3>3, <3>4, <3>5, <3>6
  <2>4. Steps(kind)[4] = "answer" \/ Steps(kind)[1] # "get"
    BY <2>1
  <2> QED BY <1>2, <2>2, <2>3, <2>4
<1>3. CASE kind = "moderation"
  <2>1. Steps(kind) = <<"commit", "delete">>
    BY <1>3 DEF Steps
  <2>2. Steps(kind) \in Seq(StepNames) /\ Len(Steps(kind)) = 2
    BY <2>1, <1>0, TupleFacts
  <2> QED BY <1>3, <2>1, <2>2, AfterFacts
<1>4. CASE kind = "dispute"
  <2>1. Steps(kind) = <<"delete", "commit">>
    BY <1>4 DEF Steps
  <2>2. Steps(kind) \in Seq(StepNames) /\ Len(Steps(kind)) = 2
    BY <2>1, <1>0, TupleFacts
  <2> QED BY <1>4, <2>1, <2>2, AfterFacts
<1>5. CASE kind = "get"
  <2>1. Steps(kind) = <<"get", "read", "set", "answer">>
    BY <1>5 DEF Steps
  <2>2. Steps(kind) \in Seq(StepNames) /\ Len(Steps(kind)) = 4
    BY <2>1, <1>0, TupleFacts
  <2>3. {"get", "read", "set", "answer"} \subseteq Timed \ {"publish"}
    BY DEF Timed
  <2>4. \A i \in 1 .. Len(Steps(kind)) : Steps(kind)[i] \in {"get", "read", "set", "answer"}
    BY <2>1, <2>2
  <2>5. \A i \in 1 .. Len(Steps(kind)) :
          /\ (IF i = Len(Steps(kind)) THEN "none" ELSE Steps(kind)[i + 1]) \in After(Steps(kind)[i])
          /\ Steps(kind)[i] = "get" => i + 3 <= Len(Steps(kind)) /\ Steps(kind)[i + 3] = "answer"
    BY <2>1, <2>2, AfterFacts
  <2> QED BY <2>2, <2>3, <2>4, <2>5
<1>6. CASE kind = "connect"
  <2>1. Steps(kind) = <<"get", "read", "set", "answer", "subscribe">>
    BY <1>6 DEF Steps
  <2>2. Steps(kind) \in Seq(StepNames) /\ Len(Steps(kind)) = 5
    BY <2>1, <1>0, TupleFacts
  <2>3. ASSUME NEW i \in 1 .. Len(Steps(kind))
        PROVE  /\ (IF i = 5 THEN "none" ELSE Steps(kind)[i + 1]) \in After(Steps(kind)[i])
               /\ Steps(kind)[i] = "get" => i = 1
    <3>1. i = 1 \/ i = 2 \/ i = 3 \/ i = 4 \/ i = 5
      BY <2>2
    <3>2. CASE i = 1
      BY <2>1, <3>2, AfterFacts
    <3>3. CASE i = 2
      BY <2>1, <3>3, AfterFacts
    <3>4. CASE i = 3
      BY <2>1, <3>4, AfterFacts
    <3>5. CASE i = 4
      BY <2>1, <3>5, AfterFacts
    <3>6. CASE i = 5
      BY <2>1, <3>6, AfterFacts
    <3> QED BY <3>1, <3>2, <3>3, <3>4, <3>5, <3>6
  <2>4. Steps(kind)[4] = "answer" \/ Steps(kind)[1] # "get"
    BY <2>1
  <2> QED BY <1>6, <2>2, <2>3, <2>4
<1> QED BY <1>1, <1>2, <1>3, <1>4, <1>5, <1>6 DEF AllKinds

\* What is left of a sequence of steps.
LEMMA RestFacts ==
  ASSUME NEW Z, NEW s \in Seq(Z), NEW i \in 1 .. Len(s) + 1
  PROVE  /\ SubSeq(s, i, Len(s)) = <<>> <=> i = Len(s) + 1
         /\ i <= Len(s) => Head(SubSeq(s, i, Len(s))) = s[i]
         /\ i <= Len(s) => Tail(SubSeq(s, i, Len(s))) = SubSeq(s, i + 1, Len(s))
         /\ i + 3 <= Len(s) =>
              LET rest == SubSeq(s, i, Len(s)) IN SubSeq(rest, 4, Len(rest)) = SubSeq(s, i + 3, Len(s))
<1>1. Len(SubSeq(s, i, Len(s))) = Len(s) - i + 1 /\ SubSeq(s, i, Len(s)) \in Seq(Z)
  OBVIOUS
<1>2. i <= Len(s) => Head(SubSeq(s, i, Len(s))) = s[i]
  OBVIOUS
<1>3. i <= Len(s) => Tail(SubSeq(s, i, Len(s))) = SubSeq(s, i + 1, Len(s))
  OBVIOUS
<1>4. i + 3 <= Len(s) => SubSeq(SubSeq(s, i, Len(s)), 4, Len(s) - i + 1) = SubSeq(s, i + 3, Len(s))
  OBVIOUS
<1>5. SubSeq(s, i, Len(s)) = <<>> <=> i = Len(s) + 1
  <2>1. \A u \in Seq(Z) : u = <<>> <=> Len(u) = 0
    OBVIOUS
  <2>2. i <= Len(s) + 1 /\ Len(s) \in Nat /\ i \in Nat
    OBVIOUS
  <2> DEFINE rest == SubSeq(s, i, Len(s))
  <2>3. rest \in Seq(Z) /\ Len(rest) = Len(s) - i + 1
    BY <1>1
  <2> HIDE DEF rest
  <2>4. rest = <<>> <=> i = Len(s) + 1
    BY <2>1, <2>2, <2>3
  <2> QED BY <2>4 DEF rest
<1> QED BY <1>1, <1>2, <1>3, <1>4, <1>5

\* A request that is not done: the step it is at, and what it has left after it.
LEMMA TodoFacts ==
  ASSUME NEW x \in Requests, todo[x] \in Left(x), todo[x] # <<>>
  PROVE  /\ Tail(todo[x]) \in Left(x) /\ First(Tail(todo[x])) \in After(Head(todo[x]))
         /\ Head(todo[x]) = "get" =>
              LET hit == SubSeq(todo[x], 4, Len(todo[x])) IN hit \in Left(x) /\ First(hit) = "answer"
         /\ x = "poll" => Head(todo[x]) \in Timed \ {"publish"}
<1>1. PICK kind \in KindsOf(x) : todo[x] \in Rests(kind)
  BY DEF Left
<1>2. kind \in AllKinds /\ (x = "poll" => kind = "get")
  BY RequestsAssumption DEF KindsOf, AllKinds, Browser
<1> DEFINE s == Steps(kind)
<1>3. s \in Seq(StepNames) /\ Len(s) \in {2, 4, 5}
  BY <1>2, StepsFacts
<1>4. PICK i \in 1 .. Len(s) + 1 : todo[x] = SubSeq(s, i, Len(s))
  BY <1>1 DEF Rests
<1> HIDE DEF s
<1>5. i <= Len(s) /\ Head(todo[x]) = s[i] /\ Tail(todo[x]) = SubSeq(s, i + 1, Len(s))
  BY <1>3, <1>4, RestFacts
<1>6. \A j \in 1 .. Len(s) + 1 : SubSeq(s, j, Len(s)) \in Left(x)
  BY <1>1 DEF Left, Rests, s
<1>7. First(Tail(todo[x])) = IF i = Len(s) THEN "none" ELSE s[i + 1]
  <2>1. i + 1 \in 1 .. Len(s) + 1
    BY <1>3, <1>5
  <2>2. /\ SubSeq(s, i + 1, Len(s)) = <<>> <=> i + 1 = Len(s) + 1
        /\ i + 1 <= Len(s) => Head(SubSeq(s, i + 1, Len(s))) = s[i + 1]
    BY <2>1, <1>3, RestFacts
  <2> QED BY <2>1, <2>2, <1>3, <1>5 DEF First
<1>8. ASSUME Head(todo[x]) = "get"
      PROVE  LET hit == SubSeq(todo[x], 4, Len(todo[x])) IN hit \in Left(x) /\ First(hit) = "answer"
  <2>1. i + 3 <= Len(s) /\ s[i + 3] = "answer" /\ i + 3 \in 1 .. Len(s) + 1
    BY <1>8, <1>2, <1>3, <1>5, StepsFacts DEF s
  <2>2. SubSeq(todo[x], 4, Len(todo[x])) = SubSeq(s, i + 3, Len(s))
    BY <2>1, <1>3, <1>4, RestFacts
  <2>3. SubSeq(s, i + 3, Len(s)) # <<>> /\ Head(SubSeq(s, i + 3, Len(s))) = s[i + 3]
    BY <2>1, <1>3, RestFacts
  <2> QED BY <2>1, <2>2, <2>3, <1>6 DEF First
<1>9. First(Tail(todo[x])) \in After(Head(todo[x]))
  BY <1>2, <1>5, <1>7, StepsFacts DEF s
<1>10. Tail(todo[x]) \in Left(x)
  <2>1. i + 1 \in 1 .. Len(s) + 1
    BY <1>3, <1>5
  <2> QED BY <2>1, <1>5, <1>6
<1>11. x = "poll" => Head(todo[x]) \in Timed \ {"publish"}
  BY <1>2, <1>5, StepsFacts DEF s
<1> QED BY <1>8, <1>9, <1>10, <1>11

\* A request that begins has all of its steps left.
LEMMA BeginFacts ==
  ASSUME NEW x \in Requests, NEW kind \in KindsOf(x)
  PROVE  Steps(kind) \in Left(x) /\ Steps(kind) # <<>> /\ First(Steps(kind)) = Steps(kind)[1]
<1>1. kind \in AllKinds
  BY RequestsAssumption DEF KindsOf, AllKinds, Browser
<1> DEFINE s == Steps(kind)
<1>2. s \in Seq(StepNames) /\ Len(s) \in {2, 4, 5}
  BY <1>1, StepsFacts
<1>3. SubSeq(s, 1, Len(s)) = s /\ 1 \in 1 .. Len(s) + 1
  BY <1>2, SubSeqFull
<1>4. s \in Rests(kind)
  BY <1>3 DEF Rests
<1>5. s # <<>> /\ Head(s) = s[1]
  <2>1. \A u \in Seq(StepNames) : Len(u) # 0 => u # <<>> /\ Head(u) = u[1]
    OBVIOUS
  <2> HIDE DEF s
  <2> QED BY <1>2, <2>1
<1> QED BY <1>4, <1>5 DEF Left, First

\* A step that x takes leaves it the steps after it, and the others theirs.
LEMMA DoneFacts ==
  ASSUME TypeOK, NEW x \in Requests, NEW step, Next1(x, step), Done(x)
  PROVE  /\ DOMAIN todo' = Requests
         /\ \A y \in Requests : todo'[y] \in Left(y) /\ (y # x => todo'[y] = todo[y])
         /\ First(todo[x]) = step /\ First(todo'[x]) \in After(step)
         /\ todo[x] # <<>> /\ (x = "poll" => step \in Timed \ {"publish"})
<1>1. \A y \in Requests : todo[y] \in Left(y)
  BY DEF TypeOK, Left
<1>2. /\ todo' = [todo EXCEPT ![x] = Tail(todo[x])] /\ DOMAIN todo = Requests
      /\ todo[x] # <<>> /\ Head(todo[x]) = step
  BY DEF Done, Next1, TypeOK
<1>3. /\ Tail(todo[x]) \in Left(x) /\ First(Tail(todo[x])) \in After(step)
      /\ x = "poll" => step \in Timed \ {"publish"}
  BY <1>1, <1>2, TodoFacts
<1>4. First(todo[x]) = step
  BY <1>2 DEF First
<1>5. \A y \in Requests : todo'[y] = IF y = x THEN Tail(todo[x]) ELSE todo[y]
  BY <1>2
<1> QED BY <1>1, <1>2, <1>3, <1>4, <1>5

\* The types of the numbers.
LEMMA NumberFacts ==
  ASSUME TypeOK
  PROVE  /\ {TTL, Poll, Slow, Horizon} \subseteq Nat \ {0}
         /\ now \in Nat /\ Len(commits) \in Nat /\ commits \in [1 .. Len(commits) -> 0 .. now]
         /\ \A x \in Requests : /\ hand[x].board \in 0 .. Len(commits)
                                /\ hand[x].since \in 0 .. now
         /\ shown \in 0 .. Len(commits) /\ fetched \in 0 .. now
         /\ "poll" \in Requests /\ "socket" \in Requests
<1>1. now \in Nat /\ commits \in Seq(0 .. now)
  BY TimesAssumption DEF TypeOK
<1>2. Len(commits) \in Nat /\ commits \in [1 .. Len(commits) -> 0 .. now]
  BY <1>1, LenProperties
<1>3. \A x \in Requests : hand[x] \in [board : 0 .. Len(commits), since : 0 .. now]
  BY DEF TypeOK
<1>4. shown \in 0 .. Len(commits) /\ fetched \in 0 .. now
  BY DEF TypeOK
<1>5. "poll" \in Requests /\ "socket" \in Requests
  BY DEF Requests, Browser
<1>6. \A x \in Requests : hand[x].board \in 0 .. Len(commits) /\ hand[x].since \in 0 .. now
  BY <1>3
<1> QED BY <1>1, <1>2, <1>4, <1>5, <1>6, TimesAssumption

-----------------------------------------------------------------------------
(* Types.                                                                  *)

\* The opening state has its types.
LEMMA InitHasTypes == Init => TypeOK
<1> SUFFICES ASSUME Init PROVE TypeOK
  OBVIOUS
<1>1. commits \in Seq(0 .. now) /\ Len(commits) = 0 /\ now \in 0 .. Horizon /\ now = 0
  BY TimesAssumption DEF Init
<1>2. hand \in [Requests -> [board : 0 .. Len(commits), since : 0 .. now]]
  <2>1. Nothing \in [board : 0 .. 0, since : 0 .. 0]
    BY DEF Nothing
  <2> QED BY <2>1, <1>1 DEF Init
<1>3. DOMAIN todo = Requests
  BY DEF Init
<1>4. ASSUME NEW x \in Requests PROVE todo[x] \in Left(x)
  <2>1. CASE x \in Writers
    <3>1. todo[x] \in {Steps(k) : k \in Kinds} /\ KindsOf(x) = Kinds
      BY <2>1 DEF Init, KindsOf
    <3> QED BY <3>1, BeginFacts
  <2>2. CASE x \notin Writers
    BY <2>2 DEF Init, Left
  <2> QED BY <2>1, <2>2
<1>5. /\ cache \in {Empty} /\ socket \in {"closed", "open", "dead"}
      /\ shown \in 0 .. Len(commits) /\ fetched \in 0 .. now
  BY <1>1 DEF Init
<1> QED BY <1>1, <1>2, <1>3, <1>4, <1>5 DEF TypeOK, Left

\* Every step keeps what is in the hands of the requests typed.
LEMMA NextKeepsTypes == TypeOK /\ [Next]_vars => TypeOK'
<1> SUFFICES ASSUME TypeOK, [Next]_vars PROVE TypeOK'
  OBVIOUS
<1> DEFINE Boards == [board : 0 .. Len(commits), since : 0 .. now]
<1>1. /\ now \in Nat /\ now <= Horizon /\ Horizon \in Nat /\ TTL \in Nat \ {0}
      /\ Len(commits) \in Nat /\ commits \in Seq(0 .. now)
  BY NumberFacts, TimesAssumption DEF TypeOK
<1>2. /\ cache \in {Empty} \cup [board : 0 .. Len(commits), until : now + 1 .. now + TTL]
      /\ hand \in [Requests -> Boards] /\ DOMAIN todo = Requests
      /\ \A y \in Requests : todo[y] \in Left(y)
      /\ socket \in {"closed", "open", "dead"}
      /\ shown \in 0 .. Len(commits) /\ fetched \in 0 .. now
  BY DEF TypeOK, Left
<1>3. \A x \in Requests : hand[x].board \in 0 .. Len(commits) /\ hand[x].since \in 0 .. now
  BY NumberFacts
<1>4. ASSUME NEW x \in Requests, Drop(x) PROVE hand' \in [Requests -> Boards]
  <2>1. Nothing \in Boards
    BY <1>1 DEF Nothing
  <2> QED BY <2>1, <1>2, <1>4 DEF Drop
<1>5. ASSUME NEW x \in Requests, Commit(x) PROVE TypeOK'
  <2>1. /\ commits' = Append(commits, now) /\ now' = now /\ cache' = cache
        /\ hand' = [hand EXCEPT ![x].since = now]
        /\ socket' = socket /\ shown' = shown /\ fetched' = fetched
        /\ Next1(x, "commit") /\ Done(x)
    BY <1>5 DEF Commit
  <2>2. commits' \in Seq(0 .. now) /\ Len(commits') = Len(commits) + 1
    <3>1. now \in 0 .. now
      BY <1>1
    <3> QED BY <3>1, <2>1, <1>1
  <2>3. DOMAIN todo' = Requests /\ \A y \in Requests : todo'[y] \in Left(y)
    BY <2>1, DoneFacts
  <2>4. 0 .. Len(commits) \subseteq 0 .. Len(commits')
    BY <2>2, <1>1
  <2>5. hand' \in [Requests -> [board : 0 .. Len(commits'), since : 0 .. now]]
    <3>1. now \in 0 .. now
      BY <1>1
    <3> HIDE DEF Boards
    <3>2. \A y \in Requests : hand'[y] \in Boards
      <4>1. [hand[x] EXCEPT !.since = now] \in Boards
        BY <3>1, <1>2 DEF Boards
      <4> QED BY <4>1, <2>1, <1>2
    <3>3. Boards \subseteq [board : 0 .. Len(commits'), since : 0 .. now]
      BY <2>4 DEF Boards
    <3> QED BY <3>2, <3>3, <2>1, <1>2
  <2>6. cache' \in {Empty} \cup [board : 0 .. Len(commits'), until : now + 1 .. now + TTL]
    BY <2>1, <2>4, <1>2
  <2> QED BY <2>1, <2>2, <2>3, <2>4, <2>5, <2>6, <1>1, <1>2 DEF TypeOK, Left
<1>6. ASSUME NEW x \in Requests, Get(x) PROVE TypeOK'
  <2>1. /\ now' = now /\ commits' = commits /\ cache' = cache
        /\ socket' = socket /\ shown' = shown /\ fetched' = fetched
    BY <1>6 DEF Get
  <2>2. CASE cache # Empty
    <3>1. /\ hand' = [hand EXCEPT ![x].board = cache.board]
          /\ todo' = [todo EXCEPT ![x] = SubSeq(todo[x], 4, Len(todo[x]))]
          /\ todo[x] # <<>> /\ Head(todo[x]) = "get"
      BY <1>6, <2>2 DEF Get, Next1
    <3>2. DOMAIN todo' = Requests /\ \A y \in Requests : todo'[y] \in Left(y)
      <4>1. SubSeq(todo[x], 4, Len(todo[x])) \in Left(x)
        BY <3>1, <1>2, TodoFacts
      <4> QED BY <4>1, <3>1, <1>2
    <3>3. hand' \in [Requests -> Boards]
      <4>1. cache.board \in 0 .. Len(commits)
        BY <2>2, <1>2
      <4>2. [hand[x] EXCEPT !.board = cache.board] \in Boards
        BY <4>1, <1>2
      <4> QED BY <4>2, <3>1, <1>2
    <3> QED BY <3>2, <3>3, <2>1, <1>1, <1>2 DEF TypeOK, Left
  <2>3. CASE cache = Empty
    <3>1. hand' = hand /\ Next1(x, "get") /\ Done(x)
      BY <1>6, <2>3 DEF Get
    <3>2. DOMAIN todo' = Requests /\ \A y \in Requests : todo'[y] \in Left(y)
      BY <3>1, DoneFacts
    <3> QED BY <3>1, <3>2, <2>1, <1>1, <1>2 DEF TypeOK, Left
  <2> QED BY <2>2, <2>3
<1>7. ASSUME NEW x \in Requests, Read(x) PROVE TypeOK'
  <2>1. /\ now' = now /\ commits' = commits /\ cache' = cache
        /\ socket' = socket /\ shown' = shown /\ fetched' = fetched
        /\ hand' = [hand EXCEPT ![x].board = Len(commits)]
        /\ Next1(x, "read") /\ Done(x)
    BY <1>7 DEF Read
  <2>2. DOMAIN todo' = Requests /\ \A y \in Requests : todo'[y] \in Left(y)
    BY <2>1, DoneFacts
  <2>3. hand' \in [Requests -> Boards]
    <3>1. Len(commits) \in 0 .. Len(commits)
      BY <1>1
    <3>2. [hand[x] EXCEPT !.board = Len(commits)] \in Boards
      BY <3>1, <1>2
    <3> QED BY <3>2, <2>1, <1>2
  <2> QED BY <2>1, <2>2, <2>3, <1>1, <1>2 DEF TypeOK, Left
<1>8. ASSUME NEW x \in Requests, Set(x) PROVE TypeOK'
  <2>1. /\ now' = now /\ commits' = commits /\ hand' = hand
        /\ socket' = socket /\ shown' = shown /\ fetched' = fetched
        /\ cache' = [board |-> hand[x].board, until |-> now + TTL]
        /\ Next1(x, "set") /\ Done(x)
    BY <1>8 DEF Set
  <2>2. DOMAIN todo' = Requests /\ \A y \in Requests : todo'[y] \in Left(y)
    BY <2>1, DoneFacts
  <2>3. cache' \in [board : 0 .. Len(commits), until : now + 1 .. now + TTL]
    <3>1. now + TTL \in now + 1 .. now + TTL /\ hand[x].board \in 0 .. Len(commits)
      BY <1>1, <1>3
    <3> QED BY <3>1, <2>1
  <2> QED BY <2>1, <2>2, <2>3, <1>1, <1>2 DEF TypeOK, Left
<1>9. ASSUME NEW x \in Requests, Publish(x) \/ Answer(x) PROVE TypeOK'
  <2>1. /\ now' = now /\ commits' = commits /\ cache' = cache /\ socket' = socket
        /\ Show(hand[x].board) \/ (shown' = shown /\ fetched' = fetched)
        /\ \E step \in StepNames : Next1(x, step)
        /\ Done(x) /\ Drop(x)
    BY <1>9 DEF Publish, Answer, StepNames
  <2>2. DOMAIN todo' = Requests /\ \A y \in Requests : todo'[y] \in Left(y)
    BY <2>1, DoneFacts
  <2>3. shown' \in 0 .. Len(commits) /\ fetched' \in 0 .. now
    <3>1. now \in 0 .. now
      BY <1>1
    <3> QED BY <3>1, <2>1, <1>2, <1>3 DEF Show
  <2> QED BY <2>1, <2>2, <2>3, <1>1, <1>2, <1>4 DEF TypeOK, Left
<1>10. ASSUME NEW x \in Requests, Delete(x) \/ Subscribe(x) PROVE TypeOK'
  <2>1. /\ now' = now /\ commits' = commits /\ hand' = hand
        /\ shown' = shown /\ fetched' = fetched
        /\ cache' \in {cache, Empty} /\ socket' \in {socket, "open"}
        /\ \E step \in StepNames : Next1(x, step)
        /\ Done(x)
    BY <1>10 DEF Delete, Subscribe, StepNames
  <2>2. DOMAIN todo' = Requests /\ \A y \in Requests : todo'[y] \in Left(y)
    BY <2>1, DoneFacts
  <2> QED BY <2>1, <2>2, <1>1, <1>2 DEF TypeOK, Left
<1>11. ASSUME NEW x \in Requests, NEW kind \in KindsOf(x), Begin(x, kind) PROVE TypeOK'
  <2>1. /\ now' = now /\ commits' = commits /\ cache' = cache
        /\ socket' = socket /\ shown' = shown /\ fetched' = fetched
        /\ todo' = [todo EXCEPT ![x] = Steps(kind)]
        /\ hand' = [hand EXCEPT ![x] = [board |-> 0, since |-> now]]
    BY <1>11 DEF Begin
  <2>2. DOMAIN todo' = Requests /\ \A y \in Requests : todo'[y] \in Left(y)
    BY <2>1, <1>2, BeginFacts
  <2>3. hand' \in [Requests -> Boards]
    <3>1. 0 \in 0 .. Len(commits) /\ now \in 0 .. now
      BY <1>1
    <3> QED BY <3>1, <2>1, <1>2
  <2> QED BY <2>1, <2>2, <2>3, <1>1, <1>2 DEF TypeOK, Left
<1>12. CASE LoseSocket
  BY <1>12, <1>1, <1>2 DEF LoseSocket, TypeOK, Left
<1>13. CASE Tick
  <2>1. /\ commits' = commits /\ todo' = todo /\ hand' = hand
        /\ socket' = socket /\ shown' = shown /\ fetched' = fetched
        /\ now' = now + 1 /\ now < Horizon
        /\ cache' = IF now' < cache.until THEN cache ELSE Empty
    BY <1>13 DEF Tick
  <2>2. 0 .. now \subseteq 0 .. now' /\ now' \in 0 .. Horizon
    BY <2>1, <1>1
  <2>3. commits' \in Seq(0 .. now')
    BY <2>1, <2>2, <1>1
  <2>4. hand' \in [Requests -> [board : 0 .. Len(commits'), since : 0 .. now']]
    BY <2>1, <2>2, <1>2
  <2>5. cache' \in {Empty} \cup [board : 0 .. Len(commits'), until : now' + 1 .. now' + TTL]
    <3>1. CASE cache # Empty /\ now' < cache.until
      <4>1. cache.until \in now' + 1 .. now' + TTL
        BY <3>1, <2>1, <1>1, <1>2
      <4>2. cache \in [board : 0 .. Len(commits'), until : now' + 1 .. now' + TTL]
        BY <4>1, <3>1, <2>1, <1>2
      <4> QED BY <4>2, <3>1, <2>1
    <3>2. CASE cache = Empty \/ ~(now' < cache.until)
      BY <3>2, <2>1
    <3> QED BY <3>1, <3>2
  <2> QED BY <2>1, <2>2, <2>3, <2>4, <2>5, <1>1, <1>2 DEF TypeOK, Left
<1>14. CASE UNCHANGED vars
  BY <1>14, <1>1, <1>2 DEF vars, TypeOK, Left
<1>15. ASSUME NEW x \in Requests, Step(x) PROVE TypeOK'
  BY <1>15, <1>5, <1>6, <1>7, <1>8, <1>9, <1>10 DEF Step
<1>16. ASSUME NEW x \in Visitors, Visit(x) PROVE TypeOK'
  <2>1. x \in Requests /\ "get" \in KindsOf(x)
    BY RequestsAssumption DEF Requests, KindsOf, Browser
  <2> QED BY <2>1, <1>11, <1>16 DEF Visit
<1>17. CASE StartPoll \/ Connect
  <2>1. /\ "poll" \in Requests /\ "get" \in KindsOf("poll")
        /\ "socket" \in Requests /\ "connect" \in KindsOf("socket")
    BY RequestsAssumption DEF Requests, KindsOf, Browser
  <2> QED BY <2>1, <1>11, <1>17 DEF StartPoll, Connect
<1> QED BY <1>12, <1>13, <1>14, <1>15, <1>16, <1>17 DEF Next

\* Every variable has its type; a board is one of the database's past, and a
\* cached one goes at its time.
THEOREM FeedTypes == Spec => []TypeOK
BY InitHasTypes, NextKeepsTypes, PTL DEF Spec

-----------------------------------------------------------------------------
(* How old a board is.                                                     *)

\* A board that shows every commit before t shows those before an earlier one.
LEMMA FreshBefore ==
  ASSUME TypeOK, NEW b, NEW t \in Int, NEW u \in Int, u <= t, Fresh(commits, b, t)
  PROVE  Fresh(commits, b, u)
<1>1. \A i \in DOMAIN commits : commits[i] \in Int
  BY NumberFacts
<1> QED BY <1>1 DEF Fresh

\* A commit is later than what a board is asked to show.
LEMMA CommitKeepsFresh ==
  ASSUME TypeOK, commits' = Append(commits, now), NEW b, NEW t \in Int, t <= now, Fresh(commits, b, t)
  PROVE  Fresh(commits', b, t)
<1>1. commits \in Seq(0 .. now) /\ now \in 0 .. now
  BY NumberFacts DEF TypeOK
<1>2. /\ Len(commits) \in Nat /\ DOMAIN commits' = 1 .. Len(commits) + 1
      /\ DOMAIN commits = 1 .. Len(commits)
      /\ \A i \in 1 .. Len(commits) : commits'[i] = commits[i]
      /\ commits'[Len(commits) + 1] = now
  BY <1>1
<1>3. ASSUME NEW i \in DOMAIN commits', commits'[i] < t PROVE i <= b
  <2>1. i # Len(commits) + 1
    BY <1>1, <1>2, <1>3
  <2>2. i \in DOMAIN commits /\ commits'[i] = commits[i]
    BY <2>1, <1>2
  <2> QED BY <2>2, <1>3 DEF Fresh
<1> QED BY <1>3 DEF Fresh

\* A board that was read now shows everything.
LEMMA ReadIsFresh ==
  ASSUME TypeOK, NEW t
  PROVE  Fresh(commits, Len(commits), t)
<1>1. DOMAIN commits = 1 .. Len(commits) /\ Len(commits) \in Nat
  BY NumberFacts
<1> QED BY <1>1 DEF Fresh

\* At the start nothing is cached, and no board is older than any other.
LEMMA InitHasFeed == Init => FeedInv
<1> SUFFICES ASSUME Init PROVE FeedInv
  OBVIOUS
<1>1. commits = <<>> /\ now = 0 /\ fetched = 0 /\ cache = Empty
  BY DEF Init
<1>2. \A b, t : Fresh(commits, b, t)
  BY <1>1 DEF Fresh
<1>3. ASSUME NEW x \in Requests PROVE First(todo[x]) \notin Timed
  <2>1. CASE x \in Writers
    <3>1. PICK k \in Kinds : todo[x] = Steps(k)
      BY <2>1 DEF Init
    <3>2. k \in KindsOf(x) /\ k \in {"settlement", "reversal", "moderation", "dispute"}
      BY <2>1, RequestsAssumption DEF KindsOf
    <3>3. First(todo[x]) = Steps(k)[1]
      BY <3>1, <3>2, BeginFacts
    <3>4. Steps(k)[1] \in {"commit", "delete"}
      BY <3>2 DEF Steps
    <3> QED BY <3>3, <3>4 DEF Timed
  <2>2. CASE x \notin Writers
    <3>1. todo[x] = <<>>
      BY <2>2 DEF Init
    <3> QED BY <3>1 DEF First, Timed
  <2> QED BY <2>1, <2>2
<1>4. todo["poll"] = <<>>
  BY RequestsAssumption DEF Init, Requests, Browser
<1>5. now <= fetched + Poll
  BY <1>1, TimesAssumption
<1>6. \A x \in Requests : InHand(x)
  BY <1>2, <1>3 DEF InHand, Timed
<1> QED BY <1>1, <1>2, <1>4, <1>5, <1>6 DEF FeedInv, PollInv

\* The requests that x leaves alone have in hand what they had.
LEMMA OthersInHand ==
  ASSUME TypeOK, FeedInv, NEW x \in Requests, now' = now,
         commits' = commits \/ commits' = Append(commits, now),
         \A y \in Requests \ {x} : todo'[y] = todo[y] /\ hand'[y] = hand[y],
         InHand(x)'
  PROVE  \A y \in Requests : InHand(y)'
<1> SUFFICES ASSUME NEW y \in Requests \ {x} PROVE InHand(y)'
  OBVIOUS
<1> DEFINE b == hand[y].board
           since == hand[y].since
           early == since + 1 - TTL - Slow
<1>1. InHand(y) /\ todo'[y] = todo[y] /\ hand'[y].board = b /\ hand'[y].since = since
  BY DEF FeedInv
<1>2. since \in Int /\ since <= now /\ early \in Int /\ early <= now
  BY NumberFacts
<1> HIDE DEF b, since, early
<1>3. \A t \in Int : t <= now /\ Fresh(commits, b, t) => Fresh(commits', b, t)
  <2> SUFFICES ASSUME NEW t \in Int, t <= now, Fresh(commits, b, t) PROVE Fresh(commits', b, t)
    OBVIOUS
  <2>1. CASE commits' = commits
    BY <2>1
  <2>2. CASE commits' = Append(commits, now)
    BY <2>2, CommitKeepsFresh DEF b
  <2> QED BY <2>1, <2>2
<1>4. First(todo'[y]) \in Timed => now' <= hand'[y].since + Slow
  BY <1>1 DEF InHand, since
<1>5. First(todo'[y]) \in {"set", "publish"} => Fresh(commits', b, since)
  BY <1>1, <1>2, <1>3 DEF InHand, b, since
<1>6. First(todo'[y]) = "answer" => Fresh(commits', b, early)
  BY <1>1, <1>2, <1>3 DEF InHand, b, since, early
<1>7. hand'[y].since + 1 - TTL - Slow = early
  BY <1>1 DEF early
<1> QED BY <1>1, <1>4, <1>5, <1>6, <1>7 DEF InHand

\* The requests go on, the poll among them, whatever step one of them takes.
LEMMA PollKept ==
  ASSUME TypeOK, FeedInv, NEW x \in Requests, NEW step, Next1(x, step), Done(x), now' = now,
         \A y \in Requests \ {x} : hand'[y] = hand[y],
         hand'[x].since \in {hand[x].since, 0},
         fetched' \in {fetched, now}, step = "answer" /\ x = "poll" => fetched' = now
  PROVE  PollInv'
<1>1. PollInv /\ Poll \in Nat /\ now \in Nat /\ fetched \in 0 .. now /\ "poll" \in Requests
  BY NumberFacts DEF FeedInv
<1>2. fetched' \in Nat /\ fetched' >= fetched
  BY <1>1
<1>3. CASE x # "poll"
  <2>1. todo'["poll"] = todo["poll"] /\ hand'["poll"] = hand["poll"]
    BY <1>1, <1>3, DoneFacts
  <2>2. hand["poll"].since \in Nat
    BY <1>1, NumberFacts
  <2>3. CASE todo["poll"] = <<>>
    <3>0. now <= fetched + Poll
      BY <2>3, <1>1 DEF PollInv
    <3>1. now <= fetched' + Poll
      <4>1. CASE fetched' = fetched
        BY <3>0, <4>1
      <4>2. CASE fetched' = now
        BY <4>2, <1>1
      <4> QED BY <4>1, <4>2
    <3>2. now' <= fetched' + Poll
      BY <3>1
    <3> QED BY <3>2, <2>1, <2>3 DEF PollInv
  <2>4. CASE todo["poll"] # <<>>
    <3>1. hand["poll"].since <= fetched' + Poll
      BY <2>2, <2>4, <1>1, <1>2 DEF PollInv
    <3> QED BY <3>1, <2>1, <2>4 DEF PollInv
  <2> QED BY <2>3, <2>4
<1>4. CASE x = "poll"
  <2>1. /\ todo["poll"] # <<>> /\ step \in {"get", "read", "set", "answer"}
        /\ First(todo'["poll"]) \in After(step)
    BY <1>4, DoneFacts DEF Timed
  <2>2. hand["poll"].since \in Nat /\ hand["poll"].since <= fetched + Poll
    BY <2>1, <1>1, NumberFacts DEF PollInv
  <2>3. hand'["poll"].since <= fetched' + Poll
    BY <2>2, <1>1, <1>2, <1>4
  <2>4. CASE todo'["poll"] = <<>>
    <3>1. "none" \in After(step)
      BY <2>1, <2>4 DEF First
    <3>2. step = "answer"
      BY <2>1, <3>1, AfterFacts
    <3> QED BY <3>2, <2>4, <1>1, <1>4 DEF PollInv
  <2> QED BY <2>3, <2>4 DEF PollInv
<1> QED BY <1>3, <1>4

\* Every step keeps boards as fresh as the step they are at asks for.
LEMMA NextKeepsFeed == TypeOK /\ FeedInv /\ [Next]_vars => FeedInv'
<1> SUFFICES ASSUME TypeOK, FeedInv, [Next]_vars PROVE FeedInv'
  OBVIOUS
<1>1. /\ TTL \in Nat \ {0} /\ Poll \in Nat \ {0} /\ Slow \in Nat \ {0}
      /\ now \in Nat /\ fetched \in Nat /\ fetched <= now /\ Len(commits) \in Nat
  BY NumberFacts
<1>2. \A x \in Requests : InHand(x) /\ hand[x].since \in Nat /\ hand[x].since <= now
  BY NumberFacts DEF FeedInv
<1>3. /\ Fresh(commits, shown, fetched + 1 - TTL - 2 * Slow) /\ PollInv
      /\ fetched + 1 - TTL - 2 * Slow \in Int /\ fetched + 1 - TTL - 2 * Slow <= now
  BY <1>1 DEF FeedInv
<1>4. cache # Empty => /\ Fresh(commits, cache.board, cache.until - TTL - Slow)
                       /\ cache.until \in Nat /\ now < cache.until /\ cache.until <= now + TTL
  <2>1. cache # Empty => cache.until \in now + 1 .. now + TTL
    BY DEF TypeOK
  <2> QED BY <2>1, <1>1 DEF FeedInv
<1>5. ASSUME NEW x \in Requests, Commit(x) PROVE FeedInv'
  <2>1. /\ commits' = Append(commits, now) /\ now' = now /\ cache' = cache
        /\ hand' = [hand EXCEPT ![x].since = now]
        /\ shown' = shown /\ fetched' = fetched
        /\ Next1(x, "commit") /\ Done(x)
    BY <1>5 DEF Commit
  <2>2. /\ \A y \in Requests \ {x} : todo'[y] = todo[y] /\ hand'[y] = hand[y]
        /\ First(todo'[x]) \in {"read", "delete", "none"} /\ hand'[x].since = now
        /\ x # "poll"
    <3>1. hand \in [Requests -> [board : 0 .. Len(commits), since : 0 .. now]]
      BY DEF TypeOK
    <3>2. hand'[x].since = now /\ \A y \in Requests \ {x} : hand'[y] = hand[y]
      BY <2>1, <3>1
    <3>3. "commit" \notin Timed
      BY DEF Timed
    <3> QED BY <2>1, <3>2, <3>3, DoneFacts, AfterFacts
  <2>3. InHand(x)'
    <3>1. First(todo'[x]) \notin {"set", "publish", "answer"}
      BY <2>2
    <3>2. now' <= hand'[x].since + Slow
      BY <2>1, <2>2, <1>1
    <3> QED BY <3>1, <3>2 DEF InHand
  <2>4. \A y \in Requests : InHand(y)'
    BY <2>1, <2>2, <2>3, OthersInHand
  <2>5. cache' # Empty => Fresh(commits', cache'.board, cache'.until - TTL - Slow)
    <3> SUFFICES ASSUME cache # Empty PROVE Fresh(commits', cache.board, cache.until - TTL - Slow)
      BY <2>1
    <3>1. cache.until - TTL - Slow \in Int /\ cache.until - TTL - Slow <= now
      BY <1>1, <1>4
    <3> QED BY <3>1, <2>1, <1>4, CommitKeepsFresh
  <2>6. Fresh(commits', shown', fetched' + 1 - TTL - 2 * Slow)
    BY <2>1, <1>3, CommitKeepsFresh
  <2>7. PollInv'
    <3>1. "poll" \in Requests \ {x}
      BY <2>2, NumberFacts
    <3> QED BY <3>1, <2>1, <2>2, <1>3 DEF PollInv
  <2> QED BY <2>4, <2>5, <2>6, <2>7 DEF FeedInv
<1>6. ASSUME NEW x \in Requests, Get(x) PROVE FeedInv'
  <2>1. /\ now' = now /\ commits' = commits /\ cache' = cache
        /\ shown' = shown /\ fetched' = fetched /\ Next1(x, "get")
    BY <1>6 DEF Get
  <2>2. First(todo[x]) = "get" /\ "get" \in Timed /\ todo[x] # <<>> /\ Head(todo[x]) = "get"
    BY <2>1 DEF Next1, First, Timed
  <2>3. now <= hand[x].since + Slow
    BY <2>2, <1>2 DEF InHand
  <2>4. CASE cache # Empty
    <3>1. /\ hand' = [hand EXCEPT ![x].board = cache.board]
          /\ todo' = [todo EXCEPT ![x] = SubSeq(todo[x], 4, Len(todo[x]))]
      BY <1>6, <2>4 DEF Get
    <3>2. /\ hand'[x].board = cache.board /\ hand'[x].since = hand[x].since
          /\ \A y \in Requests \ {x} : hand'[y] = hand[y]
      <4>1. hand \in [Requests -> [board : 0 .. Len(commits), since : 0 .. now]]
        BY DEF TypeOK
      <4> QED BY <3>1, <4>1
    <3>3. First(todo'[x]) = "answer" /\ \A y \in Requests \ {x} : todo'[y] = todo[y]
      <4>1. DOMAIN todo = Requests /\ todo[x] \in Left(x)
        BY DEF TypeOK, Left
      <4> QED BY <4>1, <3>1, <2>2, TodoFacts
    <3>4. Fresh(commits, cache.board, hand[x].since + 1 - TTL - Slow)
      <4>1. /\ hand[x].since + 1 - TTL - Slow \in Int /\ cache.until - TTL - Slow \in Int
            /\ hand[x].since + 1 - TTL - Slow <= cache.until - TTL - Slow
        BY <2>4, <1>1, <1>2, <1>4
      <4> QED BY <4>1, <2>4, <1>4, FreshBefore
    <3>5. InHand(x)'
      <4>1. Fresh(commits', hand'[x].board, hand'[x].since + 1 - TTL - Slow)
        BY <3>2, <3>4, <2>1
      <4>2. now' <= hand'[x].since + Slow
        BY <3>2, <2>1, <2>3
      <4> QED BY <4>1, <4>2, <3>3 DEF InHand
    <3>6. \A y \in Requests : InHand(y)'
      BY <3>2, <3>3, <3>5, <2>1, OthersInHand
    <3>7. PollInv'
      <4>1. "poll" \in Requests /\ todo'["poll"] = <<>> <=> todo["poll"] = <<>>
        BY <3>3, <2>2, NumberFacts DEF First
      <4>2. hand'["poll"].since = hand["poll"].since
        BY <4>1, <3>2, NumberFacts
      <4> QED BY <4>1, <4>2, <2>1, <1>3, NumberFacts DEF PollInv
    <3> QED BY <3>6, <3>7, <2>1, <1>3, <1>4 DEF FeedInv
  <2>5. CASE cache = Empty
    <3>1. hand' = hand /\ Done(x)
      BY <1>6, <2>5 DEF Get
    <3>2. /\ First(todo'[x]) = "read"
          /\ \A y \in Requests \ {x} : todo'[y] = todo[y]
      BY <3>1, <2>1, DoneFacts, AfterFacts
    <3>3. InHand(x)'
      BY <3>1, <3>2, <2>1, <2>3 DEF InHand
    <3>4. \A y \in Requests : InHand(y)'
      BY <3>1, <3>2, <3>3, <2>1, OthersInHand
    <3>5. PollInv'
      BY <3>1, <2>1, PollKept
    <3> QED BY <3>4, <3>5, <2>1, <1>3, <1>4 DEF FeedInv
  <2> QED BY <2>4, <2>5
<1>7. ASSUME NEW x \in Requests, Read(x) PROVE FeedInv'
  <2>1. /\ now' = now /\ commits' = commits /\ cache' = cache
        /\ shown' = shown /\ fetched' = fetched
        /\ hand' = [hand EXCEPT ![x].board = Len(commits)]
        /\ Next1(x, "read") /\ Done(x)
    BY <1>7 DEF Read
  <2>2. /\ hand'[x].board = Len(commits) /\ hand'[x].since = hand[x].since
        /\ \A y \in Requests \ {x} : hand'[y] = hand[y]
    <3>1. hand \in [Requests -> [board : 0 .. Len(commits), since : 0 .. now]]
      BY DEF TypeOK
    <3> QED BY <2>1, <3>1
  <2>3. /\ First(todo[x]) = "read" /\ First(todo'[x]) = "set"
        /\ \A y \in Requests \ {x} : todo'[y] = todo[y]
    BY <2>1, DoneFacts, AfterFacts
  <2>4. InHand(x)'
    <3>1. now' <= hand'[x].since + Slow
      BY <2>1, <2>2, <2>3, <1>2 DEF InHand, Timed
    <3>2. Fresh(commits', hand'[x].board, hand'[x].since)
      BY <2>1, <2>2, ReadIsFresh
    <3> QED BY <3>1, <3>2, <2>3 DEF InHand
  <2>5. \A y \in Requests : InHand(y)'
    BY <2>1, <2>2, <2>3, <2>4, OthersInHand
  <2>6. PollInv'
    BY <2>1, <2>2, PollKept
  <2> QED BY <2>1, <2>5, <2>6, <1>3, <1>4 DEF FeedInv
<1>8. ASSUME NEW x \in Requests, Set(x) PROVE FeedInv'
  <2>1. /\ now' = now /\ commits' = commits /\ hand' = hand
        /\ shown' = shown /\ fetched' = fetched
        /\ cache' = [board |-> hand[x].board, until |-> now + TTL]
        /\ Next1(x, "set") /\ Done(x)
    BY <1>8 DEF Set
  <2>2. /\ First(todo[x]) = "set" /\ First(todo'[x]) \in {"publish", "answer"}
        /\ \A y \in Requests \ {x} : todo'[y] = todo[y]
    BY <2>1, DoneFacts, AfterFacts
  <2>3. now <= hand[x].since + Slow /\ Fresh(commits, hand[x].board, hand[x].since)
    BY <2>2, <1>2 DEF InHand, Timed
  <2>4. Fresh(commits, hand[x].board, hand[x].since + 1 - TTL - Slow)
    <3>1. /\ hand[x].since \in Int /\ hand[x].since + 1 - TTL - Slow \in Int
          /\ hand[x].since + 1 - TTL - Slow <= hand[x].since
      BY <1>1, <1>2
    <3> QED BY <3>1, <2>3, FreshBefore
  <2>5. InHand(x)'
    BY <2>1, <2>2, <2>3, <2>4 DEF InHand
  <2>6. \A y \in Requests : InHand(y)'
    BY <2>1, <2>2, <2>5, OthersInHand
  <2>7. Fresh(commits', cache'.board, cache'.until - TTL - Slow)
    <3>1. /\ now + TTL - TTL - Slow \in Int /\ hand[x].since \in Int
          /\ now + TTL - TTL - Slow <= hand[x].since
      BY <2>3, <1>1, <1>2
    <3>2. Fresh(commits, hand[x].board, now + TTL - TTL - Slow)
      BY <3>1, <2>3, FreshBefore
    <3>3. cache'.board = hand[x].board /\ cache'.until = now + TTL /\ commits' = commits
      BY <2>1
    <3> DEFINE t == cache'.until - TTL - Slow
    <3>4. t = now + TTL - TTL - Slow
      BY <3>3, <1>1
    <3>5. Fresh(commits', cache'.board, t)
      BY <3>2, <3>3, <3>4
    <3> QED BY <3>5
  <2>8. PollInv'
    BY <2>1, PollKept
  <2> QED BY <2>1, <2>6, <2>7, <2>8, <1>3 DEF FeedInv
<1>9. ASSUME NEW x \in Requests, Publish(x) \/ Answer(x) PROVE FeedInv'
  <2>1. PICK step \in {"publish", "answer"} : Next1(x, step) /\ (step = "answer" <=> Answer(x))
    BY <1>9 DEF Publish, Answer, Next1
  <2>2. /\ now' = now /\ commits' = commits /\ cache' = cache /\ Done(x) /\ Drop(x)
        /\ \/ shown' = hand[x].board /\ fetched' = now
           \/ shown' = shown /\ fetched' = fetched
        /\ step = "answer" /\ x = "poll" => fetched' = now
    BY <1>9, <2>1 DEF Publish, Answer, Show, Browser, Next1
  <2>3. hand'[x].since = 0 /\ \A y \in Requests \ {x} : hand'[y] = hand[y]
    <3>1. hand \in [Requests -> [board : 0 .. Len(commits), since : 0 .. now]]
      BY DEF TypeOK
    <3> QED BY <2>2, <3>1 DEF Drop, Nothing
  <2>4. /\ First(todo[x]) = step /\ First(todo'[x]) \in {"delete", "subscribe", "none"}
        /\ \A y \in Requests \ {x} : todo'[y] = todo[y]
    BY <2>1, <2>2, DoneFacts, AfterFacts
  <2>5. InHand(x)'
    BY <2>4 DEF InHand, Timed
  <2>6. \A y \in Requests : InHand(y)'
    BY <2>2, <2>3, <2>4, <2>5, OthersInHand
  <2>7. Fresh(commits, hand[x].board, now + 1 - TTL - 2 * Slow)
    <3>1. now <= hand[x].since + Slow
      BY <2>1, <2>4, <1>2 DEF InHand, Timed
    <3>2. PICK t \in {hand[x].since, hand[x].since + 1 - TTL - Slow} : Fresh(commits, hand[x].board, t)
      BY <2>1, <2>4, <1>2 DEF InHand
    <3>3. t \in Int /\ now + 1 - TTL - 2 * Slow \in Int /\ now + 1 - TTL - 2 * Slow <= t
      BY <3>1, <3>2, <1>1, <1>2
    <3> QED BY <3>2, <3>3, FreshBefore
  <2>8. Fresh(commits', shown', fetched' + 1 - TTL - 2 * Slow)
    BY <2>2, <2>7, <1>3
  <2>9. PollInv'
    BY <2>1, <2>2, <2>3, PollKept
  <2> QED BY <2>2, <2>6, <2>8, <2>9, <1>4 DEF FeedInv
<1>10. ASSUME NEW x \in Requests, Delete(x) \/ Subscribe(x) PROVE FeedInv'
  <2>1. PICK step \in {"delete", "subscribe"} : Next1(x, step)
    BY <1>10 DEF Delete, Subscribe
  <2>2. /\ now' = now /\ commits' = commits /\ hand' = hand /\ cache' \in {cache, Empty}
        /\ shown' = shown /\ fetched' = fetched /\ Done(x)
    BY <1>10 DEF Delete, Subscribe
  <2>3. /\ First(todo'[x]) \in {"commit", "none"}
        /\ \A y \in Requests \ {x} : todo'[y] = todo[y]
    BY <2>1, <2>2, DoneFacts, AfterFacts
  <2>4. InHand(x)'
    BY <2>3 DEF InHand, Timed
  <2>5. \A y \in Requests : InHand(y)'
    BY <2>2, <2>3, <2>4, OthersInHand
  <2>6. PollInv'
    BY <2>1, <2>2, PollKept
  <2> QED BY <2>2, <2>5, <2>6, <1>3, <1>4 DEF FeedInv
<1>11. ASSUME NEW x \in Requests, NEW kind \in {"get", "connect"} \cap KindsOf(x), Begin(x, kind)
       PROVE  FeedInv'
  <2>1. /\ now' = now /\ commits' = commits /\ cache' = cache
        /\ shown' = shown /\ fetched' = fetched /\ todo[x] = <<>>
        /\ todo' = [todo EXCEPT ![x] = Steps(kind)]
        /\ hand' = [hand EXCEPT ![x] = [board |-> 0, since |-> now]]
    BY <1>11 DEF Begin
  <2>2. hand'[x].since = now /\ \A y \in Requests \ {x} : hand'[y] = hand[y]
    <3>1. hand \in [Requests -> [board : 0 .. Len(commits), since : 0 .. now]]
      BY DEF TypeOK
    <3> QED BY <2>1, <3>1
  <2>3. /\ First(todo'[x]) = "get" /\ todo'[x] # <<>>
        /\ \A y \in Requests \ {x} : todo'[y] = todo[y]
    <3>1. DOMAIN todo = Requests
      BY DEF TypeOK
    <3>2. Steps(kind)[1] = "get"
      BY DEF Steps
    <3> QED BY <2>1, <3>1, <3>2, BeginFacts
  <2>4. InHand(x)'
    <3>1. now' <= hand'[x].since + Slow
      BY <2>1, <2>2, <1>1
    <3> QED BY <3>1, <2>3 DEF InHand
  <2>5. \A y \in Requests : InHand(y)'
    BY <2>1, <2>2, <2>3, <2>4, OthersInHand
  <2>6. PollInv'
    <3>1. "poll" \in Requests
      BY NumberFacts
    <3>2. CASE x = "poll"
      BY <3>2, <2>1, <2>2, <2>3, <1>3 DEF PollInv
    <3>3. CASE x # "poll"
      BY <3>1, <3>3, <2>1, <2>2, <2>3, <1>3 DEF PollInv
    <3> QED BY <3>2, <3>3
  <2> QED BY <2>1, <2>5, <2>6, <1>3, <1>4 DEF FeedInv
<1>12. CASE LoseSocket \/ UNCHANGED vars
  <2>1. /\ now' = now /\ commits' = commits /\ cache' = cache /\ todo' = todo /\ hand' = hand
        /\ shown' = shown /\ fetched' = fetched
    BY <1>12 DEF LoseSocket, vars
  <2> QED BY <2>1 DEF FeedInv, InHand, PollInv
<1>13. CASE Tick
  <2>1. /\ commits' = commits /\ todo' = todo /\ hand' = hand /\ shown' = shown
        /\ fetched' = fetched /\ now' = now + 1
        /\ cache' \in {cache, Empty}
        /\ \A x \in Requests : InTime(x)
    BY <1>13 DEF Tick
  <2>2. ASSUME NEW x \in Requests PROVE InHand(x)'
    <3>1. InHand(x) /\ hand[x].since \in Nat
      BY <1>2
    <3>2. CASE First(todo[x]) \in Timed
      <4>1. todo[x] # <<>> /\ Head(todo[x]) \notin {"commit", "delete", "subscribe"}
        BY <3>2 DEF First, Timed
      <4>2. now < hand[x].since + Slow
        BY <4>1, <2>1 DEF InTime, NotTooSlow
      <4>3. now' <= hand'[x].since + Slow
        BY <4>2, <2>1, <3>1, <1>1
      <4> QED BY <4>3, <3>1, <2>1 DEF InHand
    <3>3. CASE First(todo[x]) \notin Timed
      BY <3>3, <3>1, <2>1 DEF InHand, Timed
    <3> QED BY <3>2, <3>3
  <2>3. PollInv'
    <3>1. "poll" \in Requests /\ InTime("poll")
      BY <2>1, NumberFacts
    <3>2. CASE todo["poll"] = <<>>
      <4>1. now < fetched + Poll
        BY <3>1, <3>2 DEF InTime
      <4>2. now' <= fetched' + Poll
        BY <4>1, <2>1, <1>1
      <4> QED BY <4>2, <3>2, <2>1 DEF PollInv
    <3>3. CASE todo["poll"] # <<>>
      BY <3>3, <2>1, <1>3 DEF PollInv
    <3> QED BY <3>2, <3>3
  <2> QED BY <2>1, <2>2, <2>3, <1>3, <1>4 DEF FeedInv
<1>14. ASSUME NEW x \in Requests, Step(x) PROVE FeedInv'
  BY <1>14, <1>5, <1>6, <1>7, <1>8, <1>9, <1>10 DEF Step
<1>15. ASSUME NEW x \in Visitors, Visit(x) PROVE FeedInv'
  <2>1. x \in Requests /\ "get" \in {"get", "connect"} \cap KindsOf(x)
    BY RequestsAssumption DEF Requests, KindsOf, Browser
  <2> QED BY <2>1, <1>11, <1>15 DEF Visit
<1>16. CASE StartPoll \/ Connect
  <2>1. /\ "poll" \in Requests /\ "get" \in {"get", "connect"} \cap KindsOf("poll")
        /\ "socket" \in Requests /\ "connect" \in {"get", "connect"} \cap KindsOf("socket")
    BY RequestsAssumption DEF Requests, KindsOf, Browser
  <2> QED BY <2>1, <1>11, <1>16 DEF StartPoll, Connect
<1> QED BY <1>12, <1>13, <1>14, <1>15, <1>16 DEF Next

\* A board with every commit before t shows those that are old enough.
LEMMA FreshShows ==
  ASSUME TypeOK, NEW b, NEW t \in Int, NEW age \in Nat, Fresh(commits, b, t), now < t + age
  PROVE  Shows(b, age)
<1>1. now \in Nat /\ \A i \in DOMAIN commits : commits[i] \in Int
  BY NumberFacts
<1> QED BY <1>1 DEF Fresh, Shows

\* What is answered is no older than two slow requests and the TTL of the cache,
\* whatever writes the cache and the database in between.
THEOREM AnswersHold == Spec => []AnswersAreRecent
<1>1. ASSUME TypeOK, FeedInv PROVE AnswersAreRecent
  <2> SUFFICES ASSUME NEW x \in Visitors \cup Browser, Next1(x, "answer")
               PROVE  Shows(hand[x].board, 2 * Slow + TTL)
    BY DEF AnswersAreRecent
  <2>1. x \in Requests /\ First(todo[x]) = "answer"
    BY DEF Requests, Next1, First
  <2>2. /\ now <= hand[x].since + Slow
        /\ Fresh(commits, hand[x].board, hand[x].since + 1 - TTL - Slow)
    BY <2>1, <1>1 DEF FeedInv, InHand, Timed
  <2>3. /\ TTL \in Nat \ {0} /\ Slow \in Nat \ {0} /\ now \in Nat /\ hand[x].since \in Int
    BY <2>1, <1>1, NumberFacts
  <2> DEFINE t == hand[x].since + 1 - TTL - Slow
             age == 2 * Slow + TTL
  <2>4. t \in Int /\ age \in Nat /\ now < t + age
    BY <2>2, <2>3
  <2> QED BY <2>2, <2>4, <1>1, FreshShows
<1> QED BY <1>1, InitHasFeed, NextKeepsFeed, FeedTypes, PTL DEF Spec

\* What the browser shows is no older than that, one poll and its request, with
\* a dead socket, a missed push or an old answer after a newer push.
THEOREM ShownHolds == Spec => []ShownIsRecent
<1>1. ASSUME TypeOK, FeedInv PROVE ShownIsRecent
  <2>1. /\ TTL \in Nat \ {0} /\ Slow \in Nat \ {0} /\ Poll \in Nat \ {0}
        /\ now \in Nat /\ fetched \in Nat /\ "poll" \in Requests /\ hand["poll"].since \in Nat
        /\ todo["poll"] \in Left("poll")
    BY <1>1, NumberFacts DEF TypeOK, Left
  <2>2. now <= fetched + Poll + Slow
    <3>1. CASE todo["poll"] = <<>>
      BY <3>1, <2>1, <1>1 DEF FeedInv, PollInv
    <3>2. CASE todo["poll"] # <<>>
      <4>1. First(todo["poll"]) \in Timed
        BY <3>2, <2>1, TodoFacts DEF First
      <4>2. now <= hand["poll"].since + Slow /\ hand["poll"].since <= fetched + Poll
        BY <4>1, <3>2, <2>1, <1>1 DEF FeedInv, InHand, PollInv
      <4> QED BY <4>2, <2>1
    <3> QED BY <3>1, <3>2
  <2> DEFINE t == fetched + 1 - TTL - 2 * Slow
             age == 3 * Slow + TTL + Poll
  <2>3. t \in Int /\ age \in Nat /\ now < t + age
    BY <2>1, <2>2
  <2> QED BY <2>3, <1>1, FreshShows DEF FeedInv, ShownIsRecent
<1> QED BY <1>1, InitHasFeed, NextKeepsFeed, FeedTypes, PTL DEF Spec
=============================================================================
