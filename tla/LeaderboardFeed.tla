---------------------------- MODULE LeaderboardFeed ----------------------------
(***************************************************************************)
(* How a committed change reaches a browser: the Redis cache of GET        *)
(* /projects/leaderboard, the push over /ws/leaderboard and the poll of    *)
(* useLeaderboard.  A board is known by the number of commits that its     *)
(* oldest part shows: the first query of _compute_leaderboard or, after a  *)
(* settlement, the refresh of its project, whose columns the session keeps.*)
(*                                                                         *)
(* Every request is a sequence of steps; Tick is a clock that keeps the    *)
(* TTL of the cache, the interval of the poll and a bound on how slow a    *)
(* request may be.                                                         *)
(***************************************************************************)
EXTENDS Integers, Sequences

CONSTANTS
  Writers,   \* requests that change what the board shows
  Kinds,     \* what kind each of them is
  Visitors,  \* other visitors' GETs; each may come again
  TTL,       \* LEADERBOARD_CACHE_TTL_SECONDS
  Poll,      \* refetchInterval
  Slow,      \* bound on the time a request takes
  Horizon    \* bound on the clock

ASSUME TimesAssumption == {TTL, Poll, Slow, Horizon} \subseteq Nat \ {0}

\* What the browser runs: its poll and its socket.
Browser == {"poll", "socket"}
Requests == Writers \cup Visitors \cup Browser

ASSUME RequestsAssumption ==
  /\ Kinds \subseteq {"settlement", "reversal", "moderation", "dispute"}
  /\ Writers \cap Visitors = {} /\ (Writers \cup Visitors) \cap Browser = {}

VARIABLES
  now,
  commits,  \* the times of the commits, in their order
  cache,    \* the value under LEADERBOARD_CACHE_KEY, or empty
  todo,     \* the steps each request has left
  hand,     \* the board a request has in hand, and when it began
  socket,   \* "closed", "open", or "dead": lost without onclose
  shown,    \* the board in the browser
  fetched   \* when the query cache of the browser was last written, which
            \* starts the interval of the poll again

vars == <<now, commits, cache, todo, hand, socket, shown, fetched>>

Steps(kind) ==
  CASE kind = "settlement" -> <<"commit", "read", "set", "publish">>
    [] kind = "reversal"   -> <<"commit", "read", "set", "publish", "delete">>
    [] kind = "moderation" -> <<"commit", "delete">>
    [] kind = "dispute"    -> <<"delete", "commit">>
    [] kind = "get"        -> <<"get", "read", "set", "answer">>
    [] kind = "connect"    -> <<"get", "read", "set", "answer", "subscribe">>

Empty == [board |-> 0, until |-> 0]
Nothing == [board |-> 0, since |-> 0]

Init ==
  /\ now = 0
  /\ commits = <<>>
  /\ cache = Empty
  /\ todo \in [Requests -> {<<>>} \cup {Steps(k) : k \in Kinds}]
  /\ \A x \in Requests : todo[x] # <<>> <=> x \in Writers
  /\ hand = [x \in Requests |-> Nothing]
  /\ socket = "closed"
  /\ shown = 0
  /\ fetched = 0

-----------------------------------------------------------------------------
(* Steps of a request.                                                     *)

Next1(x, step) == todo[x] # <<>> /\ Head(todo[x]) = step
Done(x) == todo' = [todo EXCEPT ![x] = Tail(@)]
Drop(x) == hand' = [hand EXCEPT ![x] = Nothing]

Commit(x) ==
  /\ Next1(x, "commit")
  /\ commits' = Append(commits, now)
  /\ hand' = [hand EXCEPT ![x].since = now]
  /\ Done(x)
  /\ UNCHANGED <<now, cache, socket, shown, fetched>>

\* A hit needs neither the database nor the cache again.
Get(x) ==
  /\ Next1(x, "get")
  /\ IF cache # Empty
       THEN /\ hand' = [hand EXCEPT ![x].board = cache.board]
            /\ todo' = [todo EXCEPT ![x] = SubSeq(@, 4, Len(@))]
       ELSE /\ Done(x)
            /\ UNCHANGED hand
  /\ UNCHANGED <<now, commits, cache, socket, shown, fetched>>

Read(x) ==
  /\ Next1(x, "read")
  /\ hand' = [hand EXCEPT ![x].board = Len(commits)]
  /\ Done(x)
  /\ UNCHANGED <<now, commits, cache, socket, shown, fetched>>

\* Variant: the cached board has no expiry.
SetForever(x) ==
  /\ Next1(x, "set")
  /\ cache' = [board |-> hand[x].board, until |-> Horizon + 1]
  /\ Done(x)
  /\ UNCHANGED <<now, commits, hand, socket, shown, fetched>>

Set(x) ==
  /\ Next1(x, "set")
  /\ cache' = [board |-> hand[x].board, until |-> now + TTL]
  /\ Done(x)
  /\ UNCHANGED <<now, commits, hand, socket, shown, fetched>>

Show(board) == shown' = board /\ fetched' = now

\* The push and its arrival, if the socket still brings it.
Publish(x) ==
  /\ Next1(x, "publish")
  /\ IF socket = "open" THEN Show(hand[x].board) ELSE UNCHANGED <<shown, fetched>>
  /\ Done(x) /\ Drop(x)
  /\ UNCHANGED <<now, commits, cache, socket>>

Delete(x) ==
  /\ Next1(x, "delete")
  /\ cache' = Empty
  /\ Done(x)
  /\ UNCHANGED <<now, commits, hand, socket, shown, fetched>>

\* A GET is answered; the poll and the socket write it into the query cache.
Answer(x) ==
  /\ Next1(x, "answer")
  /\ IF x \in Browser THEN Show(hand[x].board) ELSE UNCHANGED <<shown, fetched>>
  /\ Done(x) /\ Drop(x)
  /\ UNCHANGED <<now, commits, cache, socket>>

\* Pushes count from here: what was published since the snapshot is missed.
Subscribe(x) ==
  /\ Next1(x, "subscribe")
  /\ socket' = "open"
  /\ Done(x)
  /\ UNCHANGED <<now, commits, cache, hand, shown, fetched>>

Step(x) ==
  \/ Commit(x) \/ Get(x) \/ Read(x) \/ Set(x) \/ Publish(x) \/ Delete(x)
  \/ Answer(x) \/ Subscribe(x)

-----------------------------------------------------------------------------
(* Requests begin, sockets are lost, time passes.                          *)

Begin(x, kind) ==
  /\ todo[x] = <<>>
  /\ todo' = [todo EXCEPT ![x] = Steps(kind)]
  /\ hand' = [hand EXCEPT ![x] = [board |-> 0, since |-> now]]
  /\ UNCHANGED <<now, commits, cache, socket, shown, fetched>>

Visit(x) == x \in Visitors /\ Begin(x, "get")

StartPoll == Begin("poll", "get")

\* On load and after onclose, with a backoff of any length.
Connect == socket = "closed" /\ Begin("socket", "connect")

\* onclose fires, or a proxy keeps it from the browser.
LoseSocket ==
  /\ socket = "open"
  /\ socket' \in {"closed", "dead"}
  /\ UNCHANGED <<now, commits, cache, todo, hand, shown, fetched>>

\* A request takes no longer than Slow from its begin, a writer's from its
\* commit.
NotTooSlow(x) ==
  Head(todo[x]) \in {"commit", "delete", "subscribe"} \/ now < hand[x].since + Slow

\* Variant: the interval of the poll runs only while there is no socket.
InTimeWithoutSocket(x) ==
  IF todo[x] = <<>> THEN x = "poll" /\ socket = "closed" => now < fetched + Poll
  ELSE NotTooSlow(x)

\* The poll begins again no later than Poll after the query cache was written.
InTime(x) ==
  IF todo[x] = <<>> THEN x = "poll" => now < fetched + Poll
  ELSE NotTooSlow(x)

Tick ==
  /\ now < Horizon
  /\ \A x \in Requests : InTime(x)
  /\ now' = now + 1
  /\ cache' = IF now' < cache.until THEN cache ELSE Empty
  /\ UNCHANGED <<commits, todo, hand, socket, shown, fetched>>

Next ==
  \/ \E x \in Requests : Step(x)
  \/ \E x \in Visitors : Visit(x)
  \/ StartPoll \/ Connect \/ LoseSocket \/ Tick

Spec == Init /\ [][Next]_vars

-----------------------------------------------------------------------------
(* Properties.                                                             *)

\* What a request of some kind may have left, and the kinds that x may be of.
Rests(kind) == {SubSeq(Steps(kind), i, Len(Steps(kind))) : i \in 1 .. Len(Steps(kind)) + 1}
KindsOf(x) ==
  IF x \in Writers THEN Kinds ELSE IF x = "socket" THEN {"connect"} ELSE {"get"}

\* Every variable has its type; a board is one of the database's past, and a
\* cached one goes at its time.
TypeOK ==
  /\ now \in 0 .. Horizon
  /\ commits \in Seq(0 .. now)
  /\ cache \in {Empty} \cup [board : 0 .. Len(commits), until : now + 1 .. now + TTL]
  /\ hand \in [Requests -> [board : 0 .. Len(commits), since : 0 .. now]]
  /\ DOMAIN todo = Requests
  /\ \A x \in Requests : todo[x] \in {<<>>} \cup UNION {Rests(k) : k \in KindsOf(x)}
  /\ socket \in {"closed", "open", "dead"}
  /\ shown \in 0 .. Len(commits) /\ fetched \in 0 .. now

\* The board shows every commit that is at least age old.
Shows(board, age) == \A i \in DOMAIN commits : commits[i] + age <= now => i <= board

\* A board that is answered is at most as old as its time in a slow
\* request, in the cache and in this request: whatever writes the cache late
\* is gone again after the TTL.
AnswersAreRecent ==
  \A x \in Visitors \cup Browser :
    Next1(x, "answer") => Shows(hand[x].board, 2 * Slow + TTL)

\* What the browser shows is at most that, one poll and its request old, even
\* when its socket is dead, when it missed a push between its snapshot and
\* its subscription, or when an older answer came after a newer push.
ShownIsRecent == Shows(shown, 3 * Slow + TTL + Poll)

=============================================================================
