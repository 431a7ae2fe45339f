---------------------------- MODULE SessionProofs ----------------------------
(***************************************************************************)
(* Proofs about Sessions for any number of tabs, calls and tokens: what a  *)
(* revocation left over, what a logout left behind and what a plainly used *)
(* session has are each inductive, once it is known that every login makes *)
(* a family of its own.                                                    *)
(***************************************************************************)
EXTENDS Sessions, FiniteSetTheorems, SequenceTheorems, TLAPS

Row == [family : Families, revoked : BOOLEAN, expired : BOOLEAN,
        replacedBy : 0 .. MaxTokens]
Used == {FamilyOf(t) : t \in DOMAIN token}

\* The families are numbered in the order of the logins, and histories are of
\* such families.
FamiliesInv ==
  /\ \E m \in 0 .. Len(token) : Used = 1 .. m
  /\ plain \subseteq Used /\ final \subseteq Used /\ gone \subseteq Used

\* A call that revokes, and knows of no rotation that overlaps, will leave no
\* token of its family unrevoked; a finally revoked family has no live one.
\* Neither has a rotation under way.
RevocationInv ==
  /\ \A c \in Calls : pc[c] = "revoke" /\ c \notin lapped =>
       /\ \A d \in Calls : pc[d] = "rotate" => FamilyOf(given[d]) # FamilyOf(given[c])
       /\ \A t \in DOMAIN token :
            FamilyOf(t) = FamilyOf(given[c]) => token[t].revoked \/ t \in doomed[c]
  /\ \A f \in final :
       /\ \A d \in Calls : pc[d] = "rotate" => FamilyOf(given[d]) # f
       /\ \A t \in DOMAIN token : FamilyOf(t) = f => token[t].revoked \/ token[t].expired

\* Only the family of its token does a call revoke.  A plainly used session
\* has one live token and at most one call that uses it; that call has the
\* token, and so has localStorage unless the token is on its way.
Sole(f) ==
  \E t \in DOMAIN token :
    /\ token[t].family = f /\ ~token[t].revoked /\ ~token[t].expired
    /\ \A u \in DOMAIN token :
         token[u].family = f => u = t \/ token[u].revoked \/ token[u].expired
    /\ \A c \in Calls :
         Uses(c, f) =>
           /\ given[c] = t
           /\ \/ pc[c] \in {"refresh", "rotate"} /\ stored = t
              \/ pc[c] = "answered" /\ reply[c] = "issued"
    /\ stored # t => \E c \in Calls : Uses(c, f) /\ reply[c] = "issued"
    /\ \A c, d \in Calls : Uses(c, f) /\ Uses(d, f) => c = d
PlainInv ==
  /\ \A c \in Calls : pc[c] = "revoke" =>
       \A t \in doomed[c] : FamilyOf(t) = FamilyOf(given[c])
  /\ \A f \in plain : Sole(f)

-----------------------------------------------------------------------------
(* The table of tokens.                                                    *)

\* A sequence and one element more.
LEMMA AppendFacts ==
  ASSUME NEW S, NEW s \in Seq(S), NEW r \in S
  PROVE  /\ Append(s, r) \in Seq(S) /\ Len(s) \in Nat
         /\ DOMAIN s = 1 .. Len(s) /\ 1 + Len(s) \notin DOMAIN s
         /\ Len(Append(s, r)) = 1 + Len(s)
         /\ DOMAIN Append(s, r) = DOMAIN s \cup {1 + Len(s)}
         /\ Append(s, r)[1 + Len(s)] = r
         /\ \A t \in DOMAIN s : Append(s, r)[t] = s[t]
OBVIOUS

\* The table of tokens is a sequence of rows, whose families have a login.
LEMMA TokenFacts ==
  ASSUME TypeOK
  PROVE  /\ token \in Seq(Row) /\ Len(token) \in Nat /\ DOMAIN token = 1 .. Len(token)
         /\ \A t \in DOMAIN token :
              /\ token[t] \in Row
              /\ token[t].family \in Families
              /\ token[t].revoked \in BOOLEAN
              /\ token[t].expired \in BOOLEAN
              /\ token[t].replacedBy \in 0 .. MaxTokens
<1>1. token \in Seq(Row)
  BY Zenon DEF TypeOK, Row
<1>2. Len(token) \in Nat /\ DOMAIN token = 1 .. Len(token)
  BY <1>1
<1>3. \A t \in DOMAIN token : token[t] \in Row
  BY <1>1
<1>4. \A r \in Row : /\ r.family \in Families /\ r.revoked \in BOOLEAN
                     /\ r.expired \in BOOLEAN /\ r.replacedBy \in 0 .. MaxTokens
  BY DEF Row
<1> QED BY <1>1, <1>2, <1>3, <1>4

\* A login adds one token, the first of the family after the last.
LEMMA LoginFacts ==
  ASSUME TypeOK, FamiliesInv, NEW b \in Tabs, Login(b)
  PROVE  \E new, f \in Families :
           /\ new = 1 + Len(token) /\ new \notin DOMAIN token /\ f \notin Used
           /\ token' \in Seq(Row) /\ Len(token') = 1 + Len(token)
           /\ DOMAIN token' = DOMAIN token \cup {new} /\ token'[new] = Fresh(f)
           /\ \A t \in DOMAIN token : token'[t] = token[t]
           /\ Used = 1 .. f - 1
           /\ held' = [held EXCEPT ![b] = new] /\ stored' = new /\ plain' = {f}
<1> DEFINE new == 1 + Len(token)
           f == 1 + Cardinality(Used)
<1>1. PICK m \in 0 .. Len(token) : Used = 1 .. m
  BY DEF FamiliesInv
<1>2. Cardinality(Used) = m
  BY <1>1, FS_Interval
<1>3. /\ new \in 1 .. MaxTokens /\ token \in Seq(Row) /\ Len(token) \in Nat
      /\ token' = Append(token, Fresh(f))
      /\ held' = [held EXCEPT ![b] = new] /\ stored' = new /\ plain' = {f}
  BY TokenFacts DEF Login, Store, Used
<1>4. f \in Families /\ f \notin Used /\ Used = 1 .. f - 1
  BY <1>1, <1>2, <1>3, CallsAssumption DEF Families
<1> HIDE DEF f
<1>5. Fresh(f) \in Row
  BY <1>4, CallsAssumption DEF Fresh, Row
<1>6. /\ token' \in Seq(Row) /\ Len(token') = 1 + Len(token)
      /\ DOMAIN token' = DOMAIN token \cup {new} /\ token'[new] = Fresh(f)
      /\ \A t \in DOMAIN token : token'[t] = token[t]
      /\ new \notin DOMAIN token
  BY <1>3, <1>5, AppendFacts
<1> QED BY <1>3, <1>4, <1>6 DEF Families

\* A rotation adds one token of the family and revokes the one it replaces.
LEMMA RotateFacts ==
  ASSUME TypeOK, NEW c \in Calls, Rotate(c)
  PROVE  LET old == given[c]
             new == 1 + Len(token)
         IN  /\ old \in DOMAIN token /\ new \notin DOMAIN token /\ new \in 1 .. MaxTokens
             /\ token' \in Seq(Row) /\ Len(token') = 1 + Len(token)
             /\ DOMAIN token' = DOMAIN token \cup {new}
             /\ token'[new] = Fresh(FamilyOf(old))
             /\ \A t \in DOMAIN token :
                  /\ token'[t].family = token[t].family
                  /\ token'[t].expired = token[t].expired
                  /\ token'[t].revoked <=> token[t].revoked \/ t = old
                  /\ token'[t].replacedBy = IF t = old THEN new ELSE token[t].replacedBy
<1> DEFINE old == given[c]
           new == 1 + Len(token)
           s == [token EXCEPT ![old].revoked = TRUE, ![old].replacedBy = new]
<1>1. /\ old \in DOMAIN token /\ token \in Seq(Row) /\ Len(token) \in Nat
      /\ new \in 1 .. MaxTokens /\ token' = Append(s, Fresh(FamilyOf(old)))
      /\ token[old] \in Row
  <2>1. old # 0 /\ old \in {0} \cup DOMAIN token
    BY DEF Rotate, TypeOK
  <2> QED BY <2>1, TokenFacts DEF Rotate
<1> DEFINE r == [token[old] EXCEPT !.revoked = TRUE, !.replacedBy = new]
<1>6. /\ r \in Row /\ r.family = token[old].family /\ r.expired = token[old].expired
      /\ r.revoked /\ r.replacedBy = new
  <2>1. \A q \in Row, n \in 0 .. MaxTokens :
          LET x == [q EXCEPT !.revoked = TRUE, !.replacedBy = n]
          IN  /\ x \in Row /\ x.family = q.family /\ x.expired = q.expired
              /\ x.revoked /\ x.replacedBy = n
    BY DEF Row
  <2>2. new \in 0 .. MaxTokens
    BY <1>1, CallsAssumption
  <2> HIDE DEF new
  <2> QED BY <1>1, <2>1, <2>2
<1>7. s = [token EXCEPT ![old] = r]
  BY <1>1
<1>2. /\ s \in Seq(Row) /\ Len(s) = Len(token) /\ DOMAIN s = DOMAIN token
      /\ \A t \in DOMAIN token \ {old} : s[t] = token[t]
      /\ s[old] = r
  <2> HIDE DEF r, s
  <2> QED BY <1>1, <1>6, <1>7
<1>3. Fresh(FamilyOf(old)) \in Row
  BY <1>1, CallsAssumption DEF Fresh, FamilyOf, Row
<1> HIDE DEF s
<1>4. /\ token' \in Seq(Row) /\ Len(token') = 1 + Len(token)
      /\ DOMAIN token' = DOMAIN token \cup {new} /\ new \notin DOMAIN token
      /\ token'[new] = Fresh(FamilyOf(old))
      /\ \A t \in DOMAIN token : token'[t] = s[t]
  BY <1>1, <1>2, <1>3, AppendFacts
<1>5. \A t \in DOMAIN token :
        /\ token'[t].family = token[t].family
        /\ token'[t].expired = token[t].expired
        /\ token'[t].revoked <=> token[t].revoked \/ t = old
        /\ token'[t].replacedBy = IF t = old THEN new ELSE token[t].replacedBy
  <2> HIDE DEF r
  <2> QED BY <1>2, <1>4, <1>6
<1> QED BY <1>1, <1>4, <1>5

\* A revocation and the passing of time change one column each.
LEMMA ColumnFacts ==
  ASSUME TypeOK,
         (\E c \in Calls : Revoke(c)) \/ (\E t \in DOMAIN token : Expire(t))
  PROVE  /\ token' \in Seq(Row) /\ DOMAIN token' = DOMAIN token /\ Len(token') = Len(token)
         /\ \A t \in DOMAIN token :
              /\ token'[t].family = token[t].family
              /\ token'[t].replacedBy = token[t].replacedBy
              /\ token[t].revoked => token'[t].revoked
              /\ token[t].expired => token'[t].expired
<1>1. token \in Seq(Row) /\ \A t \in DOMAIN token : token[t] \in Row
  BY TokenFacts
<1>2. \A r \in Row : LET q == [r EXCEPT !.expired = TRUE]
                      IN  /\ q \in Row /\ q.family = r.family /\ q.replacedBy = r.replacedBy
                          /\ q.revoked = r.revoked /\ q.expired
  BY DEF Row
<1>3. ASSUME NEW s, DOMAIN s = DOMAIN token, s \in [DOMAIN token -> Row]
      PROVE  s \in Seq(Row) /\ Len(s) = Len(token)
  BY <1>1, <1>3
<1>4. CASE \E c \in Calls : Revoke(c)
  <2>1. PICK c \in Calls : Revoke(c)
    BY <1>4
  <2>2. token' = [t \in DOMAIN token |-> [token[t] EXCEPT !.revoked = @ \/ t \in doomed[c]]]
    BY <2>1 DEF Revoke
  <2>3. ASSUME NEW t \in DOMAIN token
        PROVE  /\ token'[t] \in Row /\ token'[t].family = token[t].family
               /\ token'[t].replacedBy = token[t].replacedBy
               /\ token'[t].expired = token[t].expired
               /\ token[t].revoked => token'[t].revoked
    <3> DEFINE r == [token[t] EXCEPT !.revoked = @ \/ t \in doomed[c]]
    <3>1. /\ r \in Row /\ r.family = token[t].family /\ r.replacedBy = token[t].replacedBy
          /\ r.expired = token[t].expired /\ (token[t].revoked => r.revoked)
      BY <1>1 DEF Row
    <3>2. token'[t] = r
      BY <2>2
    <3> HIDE DEF r
    <3> QED BY <3>1, <3>2
  <2>4. token' \in [DOMAIN token -> Row]
    BY <2>2, <2>3
  <2>5. token' \in Seq(Row) /\ Len(token') = Len(token) /\ DOMAIN token' = DOMAIN token
    BY <1>3, <2>4
  <2> QED BY <2>3, <2>5
<1>5. CASE \E t \in DOMAIN token : Expire(t)
  <2>1. PICK x \in DOMAIN token : Expire(x)
    BY <1>5
  <2> DEFINE r == [token[x] EXCEPT !.expired = TRUE]
  <2>2. token' = [token EXCEPT ![x] = r]
    BY <2>1 DEF Expire
  <2>3. /\ r \in Row /\ r.family = token[x].family /\ r.replacedBy = token[x].replacedBy
        /\ r.revoked = token[x].revoked /\ r.expired
    BY <1>1, <1>2
  <2> HIDE DEF r
  <2>4. /\ token' \in [DOMAIN token -> Row] /\ token'[x] = r
        /\ \A t \in DOMAIN token \ {x} : token'[t] = token[t]
    BY <1>1, <2>2, <2>3
  <2>5. token' \in Seq(Row) /\ Len(token') = Len(token) /\ DOMAIN token' = DOMAIN token
    BY <1>3, <2>4
  <2> QED BY <2>3, <2>4, <2>5
<1> QED BY <1>4, <1>5

\* A revocation revokes the tokens it read, and nothing else.
LEMMA RevokeFacts ==
  ASSUME TypeOK, NEW c \in Calls, Revoke(c), NEW t \in DOMAIN token
  PROVE  /\ token'[t].expired = token[t].expired
         /\ token'[t].revoked <=> token[t].revoked \/ t \in doomed[c]
<1> DEFINE r == [token[t] EXCEPT !.revoked = @ \/ t \in doomed[c]]
<1>1. token[t] \in Row
  BY TokenFacts
<1>2. r.expired = token[t].expired /\ (r.revoked <=> token[t].revoked \/ t \in doomed[c])
  BY <1>1 DEF Row
<1>3. token'[t] = r
  BY DEF Revoke
<1> HIDE DEF r
<1> QED BY <1>2, <1>3

\* A token that expires changes in that alone.
LEMMA ExpireFacts ==
  ASSUME TypeOK, NEW x \in DOMAIN token, Expire(x), NEW t \in DOMAIN token
  PROVE  /\ token'[t].revoked = token[t].revoked
         /\ t # x => token'[t].expired = token[t].expired
<1>1. token[x] \in Row
  BY TokenFacts
<1>2. [token[x] EXCEPT !.expired = TRUE].revoked = token[x].revoked
  BY <1>1 DEF Row
<1> DEFINE r == [token[x] EXCEPT !.expired = TRUE]
<1>3. token' = [token EXCEPT ![x] = r]
  BY DEF Expire
<1>4. r.revoked = token[x].revoked
  BY <1>2
<1> HIDE DEF r
<1>5. token \in Seq(Row)
  BY TokenFacts
<1> QED BY <1>3, <1>4, <1>5

\* The steps that leave the table alone.
Elsewhere ==
  \/ \E b \in Tabs : Load(b) \/ ClearSession(b)
  \/ \E c \in Calls : \/ Refresh(c) \/ Logout(c) \/ Receive(c) \/ Lose(c)
                      \/ FindLive(c) \/ FindExpired(c) \/ FindFamily(c) \/ Fail(c)
  \/ UNCHANGED vars

\* Those steps do leave it alone.
LEMMA TokenStays ==
  ASSUME Elsewhere
  PROVE  token' = token
BY DEF Elsewhere, Load, ClearSession, Refresh, Logout, Begin, Receive, Lose, FindLive,
       FindExpired, FindFamily, Fail, vars

\* The other steps are logins, rotations, revocations and expiries.
LEMMA Steps ==
  ASSUME [Next]_vars
  PROVE  \/ Elsewhere
         \/ \E b \in Tabs : Login(b)
         \/ \E c \in Calls : Rotate(c) \/ Revoke(c)
         \/ \E t \in DOMAIN token : Expire(t)
BY DEF Next, Elsewhere

\* A token keeps its family, and what has ended its life.
LEMMA TokensStay ==
  ASSUME TypeOK, FamiliesInv, [Next]_vars
  PROVE  /\ DOMAIN token \subseteq DOMAIN token'
         /\ \A t \in DOMAIN token : /\ token'[t].family = token[t].family
                                    /\ token[t].revoked => token'[t].revoked
                                    /\ token[t].expired => token'[t].expired
<1>1. ASSUME NEW b \in Tabs, Login(b)
      PROVE  /\ DOMAIN token \subseteq DOMAIN token'
             /\ \A t \in DOMAIN token : token'[t] = token[t]
  BY <1>1, LoginFacts
<1>2. ASSUME NEW c \in Calls, Rotate(c)
      PROVE  /\ DOMAIN token \subseteq DOMAIN token'
             /\ \A t \in DOMAIN token : /\ token'[t].family = token[t].family
                                        /\ token[t].revoked => token'[t].revoked
                                        /\ token[t].expired => token'[t].expired
  BY <1>2, RotateFacts
<1> QED BY <1>1, <1>2, ColumnFacts, TokenStays, Steps

-----------------------------------------------------------------------------
(* Families and types.                                                     *)

\* Histories only name families that have been used.
LEMMA NextKeepsFamilies ==
  ASSUME TypeOK, FamiliesInv, [Next]_vars
  PROVE  FamiliesInv'
<1>1. /\ DOMAIN token \subseteq DOMAIN token' /\ Used \subseteq Used'
      /\ \A t \in DOMAIN token : FamilyOf(t) \in Used
  BY TokensStay DEF Used, FamilyOf
<1>2. \E m \in 0 .. Len(token') : Used' = 1 .. m
  <2>1. PICK m \in 0 .. Len(token) : Used = 1 .. m
    BY DEF FamiliesInv
  <2>2. Len(token) \in Nat
    BY TokenFacts
  <2>3. ASSUME NEW b \in Tabs, Login(b) PROVE \E n \in 0 .. Len(token') : Used' = 1 .. n
    <3>1. PICK new, f \in Families :
            /\ Len(token') = 1 + Len(token) /\ new \notin DOMAIN token
            /\ DOMAIN token' = DOMAIN token \cup {new} /\ token'[new] = Fresh(f)
            /\ \A t \in DOMAIN token : token'[t] = token[t]
            /\ Used = 1 .. f - 1
      BY <2>3, LoginFacts
    <3>2. Used' = Used \cup {f}
      BY <3>1 DEF Used, FamilyOf, Fresh
    <3>3. f \in Nat \ {0}
      BY CallsAssumption DEF Families
    <3>4. f - 1 = m
      <4>1. m \in Nat /\ f - 1 \in Nat /\ 1 .. m = 1 .. f - 1
        BY <2>1, <2>2, <3>1, <3>3
      <4>2. m > f - 1 => m \in 1 .. m /\ m \notin 1 .. f - 1
        BY <4>1
      <4>3. f - 1 > m => f - 1 \in 1 .. f - 1 /\ f - 1 \notin 1 .. m
        BY <4>1
      <4> QED BY <4>1, <4>2, <4>3
    <3>5. Used' = 1 .. f
      BY <3>1, <3>2, <3>3
    <3> QED BY <2>1, <2>2, <3>1, <3>3, <3>4, <3>5
  <2>4. ASSUME NEW c \in Calls, Rotate(c) PROVE Len(token') = 1 + Len(token) /\ Used' = Used
    <3> DEFINE new == 1 + Len(token)
    <3>1. /\ given[c] \in DOMAIN token /\ Len(token') = 1 + Len(token)
          /\ DOMAIN token' = DOMAIN token \cup {new}
          /\ token'[new] = Fresh(FamilyOf(given[c]))
          /\ \A t \in DOMAIN token : token'[t].family = token[t].family
      BY <2>4, RotateFacts
    <3> HIDE DEF new
    <3>2. token'[new].family = token[given[c]].family
      BY <3>1 DEF Fresh, FamilyOf
    <3>3. Used' = {token'[t].family : t \in DOMAIN token} \cup {token'[new].family}
      BY <3>1 DEF Used, FamilyOf
    <3> QED BY <3>1, <3>2, <3>3 DEF Used, FamilyOf
  <2>5. ASSUME (\E c \in Calls : Revoke(c)) \/ (\E t \in DOMAIN token : Expire(t))
        PROVE  Len(token') = Len(token) /\ Used' = Used
    BY <2>5, ColumnFacts DEF Used, FamilyOf
  <2>6. ASSUME Elsewhere PROVE Len(token') = Len(token) /\ Used' = Used
    BY <2>6, TokenStays DEF Used, FamilyOf
  <2> QED BY <2>1, <2>2, <2>3, <2>4, <2>5, <2>6, Steps
<1>3. \A c \in Calls : pc[c] # "idle" => FamilyOf(given[c]) \in Used
  BY <1>1 DEF TypeOK
<1>4. plain' \subseteq Used'
  <2>1. ASSUME NEW b \in Tabs, Login(b) PROVE plain' \subseteq Used'
    <3>1. PICK new, f \in Families :
            /\ DOMAIN token' = DOMAIN token \cup {new} /\ token'[new] = Fresh(f)
            /\ plain' = {f}
      BY <2>1, LoginFacts
    <3> QED BY <3>1 DEF Used, FamilyOf, Fresh
  <2>2. ASSUME ~ \E b \in Tabs : Login(b) PROVE plain' \subseteq plain
    BY <2>2 DEF Next, Load, ClearSession, Refresh, Logout, Begin, Receive, Lose, FindLive,
       FindExpired, FindFamily, Fail, Rotate, Revoke, Expire, Keeps, vars, history
  <2> QED BY <1>1, <2>1, <2>2 DEF FamiliesInv
<1>5. final' \subseteq Used'
  <2>1. final' \subseteq final \cup {FamilyOf(given[c]) : c \in {x \in Calls : pc[x] # "idle"}}
    BY DEF Next, Login, Load, ClearSession, Refresh, Logout, Begin, Receive, Lose, FindLive,
       FindExpired, FindFamily, Fail, Rotate, Revoke, Expire, vars, history
  <2> QED BY <1>1, <1>3, <2>1 DEF FamiliesInv
<1>6. gone' \subseteq Used'
  <2>1. gone' \subseteq gone \cup {FamilyOf(held[b]) : b \in {x \in Tabs : held[x] # 0}}
    BY DEF Next, Login, Load, ClearSession, Refresh, Logout, Begin, Receive, Lose, FindLive,
       FindExpired, FindFamily, Fail, Rotate, Revoke, Expire, GoneWith, vars, history
  <2>2. \A b \in Tabs : held[b] # 0 => FamilyOf(held[b]) \in Used
    BY <1>1 DEF TypeOK
  <2> QED BY <1>1, <2>1, <2>2 DEF FamiliesInv
<1> QED BY <1>2, <1>4, <1>5, <1>6 DEF FamiliesInv

\* What the table of tokens itself keeps.
LEMMA NextKeepsTable ==
  ASSUME TypeOK, FamiliesInv, [Next]_vars
  PROVE  /\ token' \in Seq(Row)
         /\ \A t \in DOMAIN token' : token'[t].replacedBy # 0 =>
              /\ token'[t].revoked
              /\ token'[t].replacedBy \in DOMAIN token'
              /\ token'[token'[t].replacedBy].family = token'[t].family
<1> DEFINE P(s) == \A t \in DOMAIN s : s[t].replacedBy # 0 =>
                     /\ s[t].revoked
                     /\ s[t].replacedBy \in DOMAIN s
                     /\ s[s[t].replacedBy].family = s[t].family
<1>1. P(token)
  BY Zenon DEF TypeOK, FamilyOf
<1>2. ASSUME NEW b \in Tabs, Login(b) PROVE token' \in Seq(Row) /\ P(token')
  <2>1. PICK new, f \in Families :
          /\ new \notin DOMAIN token /\ token' \in Seq(Row)
          /\ DOMAIN token' = DOMAIN token \cup {new} /\ token'[new] = Fresh(f)
          /\ \A t \in DOMAIN token : token'[t] = token[t]
    BY <1>2, LoginFacts
  <2>2. token'[new].replacedBy = 0
    BY <2>1 DEF Fresh
  <2> QED BY <1>1, <2>1, <2>2
<1>3. ASSUME NEW c \in Calls, Rotate(c) PROVE token' \in Seq(Row) /\ P(token')
  <2> DEFINE old == given[c]
             new == 1 + Len(token)
  <2>1. /\ old \in DOMAIN token /\ new \notin DOMAIN token /\ token' \in Seq(Row)
        /\ DOMAIN token' = DOMAIN token \cup {new}
        /\ token'[new] = Fresh(FamilyOf(old))
        /\ \A t \in DOMAIN token :
             /\ token'[t].family = token[t].family
             /\ token'[t].revoked <=> token[t].revoked \/ t = old
             /\ token'[t].replacedBy = IF t = old THEN new ELSE token[t].replacedBy
    BY <1>3, RotateFacts
  <2> HIDE DEF old, new
  <2>2. token'[new].replacedBy = 0 /\ token'[new].family = token[old].family
    BY <2>1 DEF Fresh, FamilyOf
  <2>3. ASSUME NEW t \in DOMAIN token', token'[t].replacedBy # 0
        PROVE  /\ token'[t].revoked
               /\ token'[t].replacedBy \in DOMAIN token'
               /\ token'[token'[t].replacedBy].family = token'[t].family
    <3>1. t \in DOMAIN token
      BY <2>1, <2>2, <2>3
    <3>2. CASE t = old
      BY <2>1, <2>2, <3>1, <3>2
    <3>3. CASE t # old
      BY <1>1, <2>1, <2>3, <3>1, <3>3
    <3> QED BY <3>2, <3>3
  <2> QED BY <2>1, <2>3
<1>4. ASSUME (\E c \in Calls : Revoke(c)) \/ (\E t \in DOMAIN token : Expire(t))
      PROVE  token' \in Seq(Row) /\ P(token')
  BY <1>1, <1>4, ColumnFacts
<1>5. ASSUME Elsewhere PROVE token' \in Seq(Row) /\ P(token')
  BY <1>1, <1>5, TokenStays, TokenFacts
<1> QED BY <1>2, <1>3, <1>4, <1>5, Steps

\* What the browser and the calls refer to is in the table.
LEMMA NextKeepsCalls ==
  ASSUME TypeOK, FamiliesInv, [Next]_vars
  PROVE  /\ held' \in [Tabs -> {0} \cup DOMAIN token']
         /\ stored' \in {0} \cup DOMAIN token'
         /\ given' \in [Calls -> {0} \cup DOMAIN token']
         /\ \A c \in Calls : pc'[c] # "idle" => given'[c] # 0
         /\ doomed' \in [Calls -> SUBSET DOMAIN token']
<1>1. DOMAIN token \subseteq DOMAIN token'
  BY TokensStay
<1>2. /\ held \in [Tabs -> {0} \cup DOMAIN token] /\ stored \in {0} \cup DOMAIN token
      /\ given \in [Calls -> {0} \cup DOMAIN token]
      /\ \A c \in Calls : pc[c] # "idle" => given[c] # 0
      /\ doomed \in [Calls -> SUBSET DOMAIN token] /\ TabOf \in [Calls -> Tabs]
      /\ DOMAIN pc = Calls
  BY CallsAssumption DEF TypeOK
<1>3. ASSUME NEW b \in Tabs, Login(b)
      PROVE  /\ held' \in [Tabs -> {0} \cup DOMAIN token'] /\ stored' \in DOMAIN token'
             /\ UNCHANGED call
  <2>1. PICK new, f \in Families :
          /\ DOMAIN token' = DOMAIN token \cup {new}
          /\ held' = [held EXCEPT ![b] = new] /\ stored' = new
    BY <1>3, LoginFacts
  <2> QED BY <1>2, <1>3, <2>1 DEF Login
<1>4. ASSUME NEW c \in Calls, Rotate(c)
      PROVE  /\ UNCHANGED <<browser, doomed>>
             /\ given' \in [Calls -> {0} \cup DOMAIN token']
             /\ \A d \in Calls : pc'[d] # "idle" => given'[d] # 0
  <2> DEFINE new == 1 + Len(token)
  <2>1. new \in 1 .. MaxTokens /\ DOMAIN token' = DOMAIN token \cup {new}
    BY <1>4, RotateFacts
  <2>2. new # 0
    BY <2>1, CallsAssumption
  <2>3. /\ UNCHANGED <<browser, doomed>> /\ given' = [given EXCEPT ![c] = new]
        /\ pc' = [pc EXCEPT ![c] = "answered"]
    BY <1>4 DEF Rotate, Goto
  <2> HIDE DEF new
  <2> QED BY <1>2, <2>1, <2>2, <2>3
<1>5. ASSUME NEW b \in Tabs, Load(b) \/ ClearSession(b)
      PROVE  /\ held' \in [Tabs -> {0} \cup DOMAIN token] /\ stored' \in {0} \cup DOMAIN token
             /\ UNCHANGED call
  BY <1>2, <1>5 DEF Load, ClearSession, Store
<1>6. ASSUME NEW c \in Calls, Refresh(c) \/ Logout(c)
      PROVE  /\ UNCHANGED <<browser, doomed>>
             /\ given' \in [Calls -> {0} \cup DOMAIN token]
             /\ \A d \in Calls : pc'[d] # "idle" => given'[d] # 0
  BY <1>2, <1>6 DEF Refresh, Logout, Begin
<1>7. ASSUME NEW c \in Calls, Receive(c) \/ Lose(c)
      PROVE  /\ held' \in [Tabs -> {0} \cup DOMAIN token] /\ stored' \in {0} \cup DOMAIN token
             /\ given' \in [Calls -> {0} \cup DOMAIN token]
             /\ \A d \in Calls : pc'[d] # "idle" => given'[d] # 0
             /\ doomed' \in [Calls -> SUBSET DOMAIN token]
  <2>1. CASE Receive(c)
    <3>1. given[c] \in DOMAIN token
      BY <1>2, <2>1 DEF Receive
    <3>2. held' \in [Tabs -> {0} \cup DOMAIN token] /\ stored' \in {0} \cup DOMAIN token
      <4>1. \A t \in {0} \cup DOMAIN token : [held EXCEPT ![TabOf[c]] = t]
                                               \in [Tabs -> {0} \cup DOMAIN token]
        BY <1>2
      <4>2. \/ \E t \in {0} \cup DOMAIN token :
                 held' = [held EXCEPT ![TabOf[c]] = t] /\ stored' = t
            \/ UNCHANGED <<held, stored>>
        BY <2>1, <3>1 DEF Receive, Store, browser
      <4> QED BY <1>2, <4>1, <4>2
    <3>3. /\ given' = [given EXCEPT ![c] = 0] /\ pc' = [pc EXCEPT ![c] = "idle"]
          /\ doomed' = [doomed EXCEPT ![c] = {}]
      BY <2>1 DEF Receive, End
    <3> QED BY <1>2, <3>2, <3>3
  <2>2. CASE Lose(c)
    BY <1>2, <2>2 DEF Lose, End, browser
  <2> QED BY <1>7, <2>1, <2>2
<1>8. ASSUME NEW c \in Calls,
             FindLive(c) \/ FindExpired(c) \/ FindFamily(c) \/ Fail(c) \/ Revoke(c)
      PROVE  /\ UNCHANGED <<browser, given>>
             /\ \A d \in Calls : pc'[d] # "idle" => given'[d] # 0
             /\ doomed' \in [Calls -> SUBSET DOMAIN token]
  BY <1>2, <1>8 DEF FindLive, FindExpired, FindFamily, Fail, Revoke, Goto
<1>9. ASSUME (\E t \in DOMAIN token : Expire(t)) \/ UNCHANGED vars
      PROVE  UNCHANGED <<browser, call>>
  BY <1>9 DEF Expire, vars
<1>10. \/ \E b \in Tabs : Login(b) \/ Load(b) \/ ClearSession(b)
       \/ \E c \in Calls : \/ Rotate(c) \/ Refresh(c) \/ Logout(c) \/ Receive(c) \/ Lose(c)
                           \/ FindLive(c) \/ FindExpired(c) \/ FindFamily(c) \/ Fail(c)
                           \/ Revoke(c)
       \/ (\E t \in DOMAIN token : Expire(t)) \/ UNCHANGED vars
  BY DEF Next
<1> DEFINE Q == /\ held' \in [Tabs -> {0} \cup DOMAIN token']
                /\ stored' \in {0} \cup DOMAIN token'
                /\ given' \in [Calls -> {0} \cup DOMAIN token']
                /\ \A c \in Calls : pc'[c] # "idle" => given'[c] # 0
                /\ doomed' \in [Calls -> SUBSET DOMAIN token']
<1>11. /\ \A f \in [Tabs -> {0} \cup DOMAIN token] : f \in [Tabs -> {0} \cup DOMAIN token']
       /\ \A f \in [Calls -> {0} \cup DOMAIN token] : f \in [Calls -> {0} \cup DOMAIN token']
       /\ \A f \in [Calls -> SUBSET DOMAIN token] : f \in [Calls -> SUBSET DOMAIN token']
  BY <1>1
<1>12. ASSUME NEW b \in Tabs, Login(b) \/ Load(b) \/ ClearSession(b) PROVE Q
  BY <1>1, <1>2, <1>3, <1>5, <1>11, <1>12 DEF call
<1>13. ASSUME NEW c \in Calls, Rotate(c) \/ Refresh(c) \/ Logout(c) PROVE Q
  BY <1>1, <1>2, <1>4, <1>6, <1>11, <1>13 DEF browser
<1>14. ASSUME NEW c \in Calls, Receive(c) \/ Lose(c) PROVE Q
  BY <1>1, <1>7, <1>11, <1>14
<1>15. ASSUME NEW c \in Calls,
              FindLive(c) \/ FindExpired(c) \/ FindFamily(c) \/ Fail(c) \/ Revoke(c)
       PROVE Q
  BY <1>1, <1>2, <1>8, <1>11, <1>15 DEF browser
<1>16. ASSUME (\E t \in DOMAIN token : Expire(t)) \/ UNCHANGED vars PROVE Q
  BY <1>1, <1>2, <1>9, <1>11, <1>16 DEF browser, call
<1> QED BY <1>10, <1>12, <1>13, <1>14, <1>15, <1>16

\* Every step keeps the types.
LEMMA NextKeepsTypes ==
  ASSUME TypeOK, FamiliesInv, [Next]_vars
  PROVE  TypeOK'
<1>1. /\ pc' \in [Calls -> {"idle", "refresh", "logout", "rotate", "revoke", "answered"}]
      /\ reply' \in [Calls -> {"", "issued", "reused", "refused", "loggedOut"}]
      /\ lapped' \subseteq Calls
  <2> USE DEF TypeOK, Goto, Reply, End, call, history
  <2>1. ASSUME NEW b \in Tabs, Login(b) \/ Load(b) \/ ClearSession(b)
        PROVE  UNCHANGED <<pc, reply, lapped>>
    BY <2>1 DEF Login, Load, ClearSession
  <2>2. ASSUME NEW c \in Calls, Refresh(c) \/ Logout(c) \/ Receive(c) \/ Lose(c)
        PROVE <1>1!:
    BY <2>2 DEF Refresh, Logout, Begin, Receive, Lose
  <2>3. ASSUME NEW c \in Calls, FindLive(c) \/ FindExpired(c) \/ Rotate(c) PROVE <1>1!:
    BY <2>3 DEF FindLive, FindExpired, Rotate, At
  <2>4. ASSUME NEW c \in Calls, FindFamily(c) \/ Revoke(c) \/ Fail(c) PROVE <1>1!:
    BY <2>4 DEF FindFamily, Revoke, Fail
  <2>5. ASSUME NEW t \in DOMAIN token, Expire(t) PROVE UNCHANGED <<pc, reply, lapped>>
    BY <2>5 DEF Expire
  <2> QED BY <2>1, <2>2, <2>3, <2>4, <2>5 DEF Next, vars
<1>2. FamiliesInv'
  BY NextKeepsFamilies
<1>3. Used' \subseteq Families
  <2>1. ASSUME NEW t \in DOMAIN token' PROVE token'[t].family \in Families
    <3>1. token'[t] \in Row
      BY NextKeepsTable
    <3> QED BY <3>1 DEF Row
  <2> QED BY <2>1 DEF Used, FamilyOf
<1>4. {plain', final', gone'} \subseteq SUBSET Families
  BY <1>2, <1>3 DEF FamiliesInv
<1> QED BY <1>1, <1>4, NextKeepsTable, NextKeepsCalls, Zenon DEF TypeOK, Row, FamilyOf

\* The opening state has its types.
LEMMA InitHasTypes ==
  ASSUME Init
  PROVE  TypeOK /\ FamiliesInv
<1>0. token = <<>> /\ token \in Seq(Row) /\ Len(token) = 0 /\ DOMAIN token = 1 .. 0
  <2>1. token = <<>>
    BY DEF Init
  <2>2. token \in Seq(Row) /\ Len(token) = 0
    BY <2>1
  <2> QED BY <2>1, <2>2
<1>1. DOMAIN token = {} /\ Len(token) = 0 /\ token \in Seq(Row) /\ 0 \in 0 .. Len(token)
  BY <1>0
<1>2. Used = {}
  BY <1>1 DEF Used
<1>3. Used = 1 .. 0
  BY <1>2
<1>4. FamiliesInv
  BY <1>1, <1>3 DEF FamiliesInv, Init
<1>5. TypeOK
  BY <1>1 DEF Init, TypeOK, Row
<1> QED BY <1>4, <1>5

\* Every variable keeps its type whatever the calls, the browser and the
\* clock do.
THEOREM SessionsAreTyped == Spec => [](TypeOK /\ FamiliesInv)
<1>1. Init => TypeOK /\ FamiliesInv
  BY InitHasTypes
<1>2. TypeOK /\ FamiliesInv /\ [Next]_vars => (TypeOK /\ FamiliesInv)'
  BY NextKeepsTypes, NextKeepsFamilies
<1> QED BY <1>1, <1>2, PTL DEF Spec

-----------------------------------------------------------------------------
(* Logging out.                                                            *)

\* The tokens that the tabs, localStorage and the calls have.
Carried ==
  ({held[b] : b \in Tabs} \cup {stored} \cup {given[c] : c \in {d \in Calls : pc[d] # "idle"}})
    \ {0}

\* LogoutLasts is about the tokens in tabs, in localStorage and in calls.
LEMMA LogoutMeans ==
  ASSUME TypeOK
  PROVE  /\ LogoutLasts <=> \A t \in Carried : FamilyOf(t) \notin gone
         /\ Carried \subseteq DOMAIN token
BY DEF TypeOK, LogoutLasts, Carried, Uses

\* A step hands no token around that was not there, but a login's, which is of
\* a new family, and a rotation's, which is of the family of its caller's.
LEMMA CarriedSteps ==
  ASSUME TypeOK, FamiliesInv, [Next]_vars
  PROVE  \/ Carried' \subseteq Carried /\ gone' = gone
         \/ \E b \in Tabs : ClearSession(b) /\ Carried' \subseteq Carried
         \/ /\ gone' = gone
            /\ \E t, u \in DOMAIN token' :
                 /\ Carried' \subseteq Carried \cup {t}
                 /\ \/ token'[t].family \notin Used
                    \/ u \in Carried /\ token'[t].family = token[u].family
<1>1. /\ TabOf \in [Calls -> Tabs] /\ DOMAIN pc = Calls /\ DOMAIN given = Calls
      /\ DOMAIN held = Tabs
      /\ \A c \in Calls : pc[c] # "idle" => given[c] # 0
  BY CallsAssumption DEF TypeOK
<1>2. ASSUME NEW b \in Tabs, Login(b)
      PROVE  /\ gone' = gone
             /\ \E t \in DOMAIN token' :
                  Carried' \subseteq Carried \cup {t} /\ token'[t].family \notin Used
  <2>1. PICK t, f \in Families :
          /\ DOMAIN token' = DOMAIN token \cup {t} /\ token'[t] = Fresh(f) /\ f \notin Used
          /\ held' = [held EXCEPT ![b] = t] /\ stored' = t
    BY <1>2, LoginFacts
  <2>2. Carried' \subseteq Carried \cup {t}
    BY <1>1, <1>2, <2>1 DEF Login, Carried, call
  <2>3. token'[t].family = f
    BY <2>1 DEF Fresh
  <2> QED BY <1>2, <2>1, <2>2, <2>3 DEF Login
<1>3. ASSUME NEW c \in Calls, Rotate(c)
      PROVE  /\ gone' = gone
             /\ \E t, u \in DOMAIN token' :
                  /\ Carried' \subseteq Carried \cup {t}
                  /\ u \in Carried /\ token'[t].family = token[u].family
  <2> DEFINE new == 1 + Len(token)
  <2>1. /\ given[c] \in DOMAIN token /\ DOMAIN token' = DOMAIN token \cup {new}
        /\ token'[new] = Fresh(FamilyOf(given[c]))
    BY <1>3, RotateFacts
  <2>2. /\ pc[c] = "rotate" /\ given' = [given EXCEPT ![c] = new]
        /\ pc' = [pc EXCEPT ![c] = "answered"] /\ held' = held /\ stored' = stored
        /\ gone' = gone
    BY <1>3 DEF Rotate, Goto, browser, history
  <2> HIDE DEF new
  <2>3. Carried' \subseteq Carried \cup {new} /\ given[c] \in Carried
    BY <1>1, <2>2 DEF Carried
  <2>4. token'[new].family = token[given[c]].family
    BY <2>1 DEF Fresh, FamilyOf
  <2> QED BY <2>1, <2>2, <2>3, <2>4
<1>4. ASSUME NEW b \in Tabs, Load(b) \/ ClearSession(b) PROVE Carried' \subseteq Carried
  BY <1>1, <1>4 DEF Load, ClearSession, Store, Carried, call
<1>5. ASSUME NEW c \in Calls, Refresh(c) \/ Logout(c)
      PROVE  Carried' \subseteq Carried /\ gone' = gone
  BY <1>1, <1>5 DEF Refresh, Logout, Begin, Carried, browser
<1>6. ASSUME NEW c \in Calls, Receive(c) \/ Lose(c)
      PROVE  Carried' \subseteq Carried /\ gone' = gone
  <2>1. /\ pc[c] # "idle" /\ pc' = [pc EXCEPT ![c] = "idle"] /\ given' = [given EXCEPT ![c] = 0]
        /\ gone' = gone
    BY <1>6 DEF Receive, Lose, End
  <2>2. \/ held' = held /\ stored' = stored
        \/ \E t \in {0, given[c]} : held' = [held EXCEPT ![TabOf[c]] = t] /\ stored' = t
    BY <1>6 DEF Receive, Lose, Store, browser
  <2>3. {given'[d] : d \in {e \in Calls : pc'[e] # "idle"}}
          \subseteq {given[d] : d \in {e \in Calls : pc[e] # "idle"}}
    BY <1>1, <2>1
  <2>4. {held'[b] : b \in Tabs} \cup {stored'} \subseteq Carried \cup {0}
    BY <1>1, <2>1, <2>2 DEF Carried
  <2> QED BY <2>1, <2>3, <2>4 DEF Carried
<1>7. ASSUME NEW c \in Calls,
             FindLive(c) \/ FindExpired(c) \/ FindFamily(c) \/ Fail(c) \/ Revoke(c)
      PROVE  Carried' \subseteq Carried /\ gone' = gone
  BY <1>1, <1>7 DEF FindLive, FindExpired, FindFamily, Fail, Revoke, Goto, Carried, browser,
                    history
<1>8. ASSUME (\E t \in DOMAIN token : Expire(t)) \/ UNCHANGED vars
      PROVE  Carried' = Carried /\ gone' = gone
  BY <1>8 DEF Expire, vars, Carried, browser, call, history
<1>9. ASSUME NEW b \in Tabs, Load(b) PROVE gone' = gone
  BY <1>9 DEF Load, history
<1> QED BY <1>2, <1>3, <1>4, <1>5, <1>6, <1>7, <1>8, <1>9 DEF Next

\* No step hands a token around of a family that was logged out of.
LEMMA NextKeepsLogouts ==
  ASSUME TypeOK, FamiliesInv, LogoutLasts, [Next]_vars
  PROVE  LogoutLasts'
<1>1. /\ \A t \in Carried : FamilyOf(t) \notin gone
      /\ Carried \subseteq DOMAIN token /\ gone \subseteq Used
      /\ \A t \in DOMAIN token : token'[t].family = token[t].family
  BY LogoutMeans, TokensStay DEF FamiliesInv
<1>2. TypeOK'
  BY NextKeepsTypes
<1>3. SUFFICES \A t \in Carried' : token'[t].family \notin gone'
  <2>1. \A c \in Calls : pc'[c] # "idle" => given'[c] # 0
    BY <1>2 DEF TypeOK
  <2>2. ASSUME \A t \in Carried' : token'[t].family \notin gone' PROVE LogoutLasts'
    <3>1. \A b \in Tabs : held'[b] # 0 => held'[b] \in Carried'
      BY DEF Carried
    <3>2. stored' # 0 => stored' \in Carried'
      BY DEF Carried
    <3>3. \A c \in Calls : pc'[c] # "idle" => given'[c] \in Carried'
      BY <2>1 DEF Carried
    <3> QED BY <2>2, <3>1, <3>2, <3>3 DEF LogoutLasts, Uses, FamilyOf
  <2> QED BY <2>2
<1>4. CASE Carried' \subseteq Carried /\ gone' = gone
  BY <1>1, <1>4 DEF FamilyOf
<1>5. ASSUME NEW b \in Tabs, ClearSession(b), Carried' \subseteq Carried
      PROVE  \A t \in Carried' : token'[t].family \notin gone'
  <2>1. /\ held[b] # 0 /\ held' = [held EXCEPT ![b] = 0] /\ stored' = 0
        /\ gone' = GoneWith(b) /\ pc' = pc /\ given' = given
    BY <1>5 DEF ClearSession, Store, call
  <2>2. ASSUME OnlyIn(b, FamilyOf(held[b])), NEW t \in Carried'
        PROVE  token[t].family # FamilyOf(held[b])
    <3>1. DOMAIN held = Tabs
      BY DEF TypeOK
    <3> QED BY <2>1, <2>2, <3>1 DEF Carried, OnlyIn, Uses, FamilyOf
  <2> QED BY <1>1, <1>5, <2>1, <2>2 DEF GoneWith, FamilyOf
<1>6. ASSUME NEW t \in DOMAIN token', NEW u \in DOMAIN token', gone' = gone,
             Carried' \subseteq Carried \cup {t},
             \/ token'[t].family \notin Used
             \/ u \in Carried /\ token'[t].family = token[u].family
      PROVE  \A v \in Carried' : token'[v].family \notin gone'
  BY <1>1, <1>6 DEF FamilyOf
<1> QED BY <1>4, <1>5, <1>6, CarriedSteps

\* Nothing has a token of a session again once it was logged out of in its
\* only tab, with no call of it under way.
THEOREM LogoutHolds == Spec => []LogoutLasts
<1>1. Init => LogoutLasts
  BY DEF Init, LogoutLasts
<1>2. TypeOK /\ FamiliesInv /\ LogoutLasts /\ [Next]_vars => LogoutLasts'
  BY NextKeepsLogouts
<1> QED BY <1>1, <1>2, SessionsAreTyped, PTL DEF Spec

-----------------------------------------------------------------------------
(* Revocations.                                                            *)

\* Every step keeps RevocationInv.
LEMMA NextKeepsRevocations ==
  ASSUME TypeOK, FamiliesInv, RevocationInv, [Next]_vars
  PROVE  RevocationInv'
<1> DEFINE Lone(c) ==
             /\ \A d \in Calls : pc[d] = "rotate" => token[given[d]].family # token[given[c]].family
             /\ \A t \in DOMAIN token :
                  token[t].family = token[given[c]].family => token[t].revoked \/ t \in doomed[c]
           Over(f) ==
             /\ \A d \in Calls : pc[d] = "rotate" => token[given[d]].family # f
             /\ \A t \in DOMAIN token :
                  token[t].family = f => token[t].revoked \/ token[t].expired
<1>0. SUFFICES /\ \A c \in Calls : pc'[c] = "revoke" /\ c \notin lapped' => Lone(c)'
               /\ \A f \in final' : Over(f)'
  BY DEF RevocationInv, FamilyOf
<1>1. /\ \A c \in Calls : pc[c] = "revoke" /\ c \notin lapped => Lone(c)
      /\ \A f \in final : Over(f)
  BY DEF RevocationInv, FamilyOf
<1>2. /\ pc \in [Calls -> {"idle", "refresh", "logout", "rotate", "revoke", "answered"}]
      /\ given \in [Calls -> {0} \cup DOMAIN token] /\ doomed \in [Calls -> SUBSET DOMAIN token]
      /\ \A c \in Calls : pc[c] # "idle" => given[c] \in DOMAIN token
      /\ final \subseteq Used
      /\ \A c \in Calls : pc[c] # "idle" => token[given[c]].family \in Used
      /\ \A t \in DOMAIN token : token[t].family \in Used
  BY DEF TypeOK, FamiliesInv, Used, FamilyOf
<1>3. /\ DOMAIN token \subseteq DOMAIN token'
      /\ \A t \in DOMAIN token : /\ token'[t].family = token[t].family
                                 /\ token[t].revoked => token'[t].revoked
                                 /\ token[t].expired => token'[t].expired
  BY TokensStay
<1> DEFINE Goal == /\ \A c \in Calls : pc'[c] = "revoke" /\ c \notin lapped' => Lone(c)'
                   /\ \A f \in final' : Over(f)'
<1>4. ASSUME NEW b \in Tabs, Login(b) PROVE Goal
  <2>1. PICK new, f \in Families :
          /\ DOMAIN token' = DOMAIN token \cup {new} /\ token'[new] = Fresh(f) /\ f \notin Used
    BY <1>4, LoginFacts
  <2>2. token'[new].family \notin Used
    BY <2>1 DEF Fresh
  <2>3. UNCHANGED <<call, lapped, final>>
    BY <1>4 DEF Login
  <2> QED BY <1>1, <1>2, <1>3, <2>1, <2>2, <2>3 DEF call
<1>5. ASSUME NEW c \in Calls, Rotate(c) PROVE Goal
  <2> DEFINE new == 1 + Len(token)
  <2>1. /\ DOMAIN token' = DOMAIN token \cup {new} /\ new \notin DOMAIN token
        /\ token'[new] = Fresh(FamilyOf(given[c]))
    BY <1>5, RotateFacts
  <2>2. /\ pc[c] = "rotate" /\ given' = [given EXCEPT ![c] = new]
        /\ pc' = [pc EXCEPT ![c] = "answered"] /\ doomed' = doomed
        /\ lapped' = lapped /\ final' = final
    BY <1>5 DEF Rotate, Goto, history
  <2> HIDE DEF new
  <2>3. token'[new].family = token[given[c]].family
    BY <2>1 DEF Fresh, FamilyOf
  <2> QED BY <1>1, <1>2, <1>3, <2>1, <2>2, <2>3
<1>6. ASSUME NEW b \in Tabs, Load(b) \/ ClearSession(b) PROVE Goal
  BY <1>1, <1>6 DEF Load, ClearSession, call, history
<1>7. ASSUME NEW c \in Calls, Refresh(c) \/ Logout(c) PROVE Goal
  BY <1>1, <1>2, <1>7 DEF Refresh, Logout, Begin
<1>8. ASSUME NEW c \in Calls, Receive(c) \/ Lose(c) PROVE Goal
  <2>1. /\ pc' = [pc EXCEPT ![c] = "idle"] /\ given' = [given EXCEPT ![c] = 0]
        /\ doomed' = [doomed EXCEPT ![c] = {}] /\ lapped' = lapped \ {c}
        /\ token' = token /\ final' = final
    BY <1>8 DEF Receive, Lose, End
  <2> QED BY <1>1, <1>2, <2>1
<1>9. ASSUME NEW c \in Calls, FindLive(c) PROVE Goal
  <2>1. /\ pc[c] = "refresh" /\ pc' = [pc EXCEPT ![c] = "rotate"]
        /\ given' = given /\ doomed' = doomed /\ token' = token /\ final' = final
        /\ lapped' = lapped \cup At("revoke", token[given[c]].family)
        /\ given[c] \in DOMAIN token
        /\ ~token[given[c]].revoked /\ ~token[given[c]].expired
    BY <1>9 DEF FindLive, Goto, FamilyOf, Live
  <2> QED BY <1>1, <1>2, <2>1 DEF At, FamilyOf
<1>10. ASSUME NEW c \in Calls, FindExpired(c) \/ Fail(c) PROVE Goal
  BY <1>1, <1>2, <1>10 DEF FindExpired, Fail, Goto, history
<1>11. ASSUME NEW c \in Calls, FindFamily(c) PROVE Goal
  <2>1. /\ pc[c] \in {"refresh", "logout"} /\ pc' = [pc EXCEPT ![c] = "revoke"]
        /\ given' = given /\ token' = token /\ final' = final
        /\ doomed' = [doomed EXCEPT ![c] =
             {u \in DOMAIN token : token[u].family = token[given[c]].family /\ ~token[u].revoked}]
        /\ lapped' = IF At("rotate", token[given[c]].family) = {} THEN lapped
                                                               ELSE lapped \cup {c}
    BY <1>11 DEF FindFamily, Goto, FamilyOf
  <2> QED BY <1>1, <1>2, <2>1 DEF At, FamilyOf
<1>12. ASSUME NEW c \in Calls, Revoke(c) PROVE Goal
  <2>1. /\ pc[c] = "revoke" /\ pc' = [pc EXCEPT ![c] = "answered"]
        /\ given' = given /\ doomed' = doomed /\ lapped' = lapped
        /\ final' = IF c \in lapped THEN final ELSE final \cup {token[given[c]].family}
    BY <1>12 DEF Revoke, Goto, FamilyOf
  <2>2. DOMAIN token' = DOMAIN token
    BY <1>12, ColumnFacts
  <2>3. \A t \in DOMAIN token : token'[t].revoked <=> token[t].revoked \/ t \in doomed[c]
    BY <1>12, RevokeFacts
  <2> QED BY <1>1, <1>2, <1>3, <2>1, <2>2, <2>3
<1>13. ASSUME NEW t \in DOMAIN token, Expire(t) PROVE Goal
  <2>1. DOMAIN token' = DOMAIN token
    BY <1>13, ColumnFacts
  <2>2. UNCHANGED <<call, lapped, final>>
    BY <1>13 DEF Expire
  <2> QED BY <1>1, <1>2, <1>3, <2>1, <2>2 DEF call
<1>14. ASSUME UNCHANGED vars PROVE Goal
  BY <1>1, <1>14 DEF vars, call, history
<1> HIDE DEF Goal
<1>15. Goal
  BY <1>4, <1>5, <1>6, <1>7, <1>8, <1>9, <1>10, <1>11, <1>12, <1>13, <1>14 DEF Next
<1> QED BY <1>15 DEF Goal

\* A family whose revocation overlapped no rotation never has a live token
\* again.
THEOREM RevocationsHold == Spec => []RevocationIsFinal
<1>1. Init => RevocationInv
  BY DEF Init, RevocationInv
<1>2. TypeOK /\ FamiliesInv /\ RevocationInv /\ [Next]_vars => RevocationInv'
  BY NextKeepsRevocations
<1>3. RevocationInv => RevocationIsFinal
  BY DEF RevocationInv, RevocationIsFinal, LiveOf, Live
<1> QED BY <1>1, <1>2, <1>3, SessionsAreTyped, PTL DEF Spec

-----------------------------------------------------------------------------
(* Plain use.                                                              *)

\* A call dooms tokens of its own family only.
LEMMA NextKeepsDoomed ==
  ASSUME TypeOK, FamiliesInv, PlainInv, [Next]_vars
  PROVE  \A c \in Calls : pc'[c] = "revoke" =>
           \A t \in doomed'[c] : FamilyOf(t)' = token'[given'[c]].family
<1>1. /\ DOMAIN pc = Calls /\ DOMAIN given = Calls /\ DOMAIN doomed = Calls
      /\ \A c \in Calls : pc[c] # "idle" => given[c] \in DOMAIN token
      /\ \A c \in Calls : doomed[c] \subseteq DOMAIN token
      /\ \A t \in DOMAIN token : token'[t].family = token[t].family
      /\ \A c \in Calls : pc[c] = "revoke" =>
           \A t \in doomed[c] : token[t].family = token[given[c]].family
  BY TokensStay DEF TypeOK, PlainInv, FamilyOf
<1> DEFINE Goal(c) == pc'[c] = "revoke" =>
                        \A t \in doomed'[c] : token'[t].family = token'[given'[c]].family
<1>2. ASSUME NEW b \in Tabs, Login(b) \/ Load(b) \/ ClearSession(b)
      PROVE  \A d \in Calls : Goal(d)
  BY <1>1, <1>2 DEF Login, Load, ClearSession, call
<1>3. ASSUME NEW c \in Calls, Refresh(c) \/ Logout(c) PROVE \A d \in Calls : Goal(d)
  BY <1>1, <1>3 DEF Refresh, Logout, Begin
<1>4. ASSUME NEW c \in Calls, Receive(c) \/ Lose(c) PROVE \A d \in Calls : Goal(d)
  <2>1. /\ pc' = [pc EXCEPT ![c] = "idle"] /\ given' = [given EXCEPT ![c] = 0]
        /\ doomed' = [doomed EXCEPT ![c] = {}]
    BY <1>4 DEF Receive, Lose, End
  <2> QED BY <1>1, <2>1
<1>5. ASSUME NEW c \in Calls, FindLive(c) \/ FindExpired(c) \/ Rotate(c) \/ Revoke(c) \/ Fail(c)
      PROVE  \A d \in Calls : Goal(d)
  <2>1. /\ \/ given' = given
           \/ given' = [given EXCEPT ![c] = 1 + Len(token)] /\ pc'[c] = "answered"
        /\ doomed' = doomed /\ pc'[c] # "revoke"
        /\ \A d \in Calls \ {c} : pc'[d] = pc[d]
    BY <1>1, <1>5 DEF FindLive, FindExpired, Rotate, Revoke, Fail, Goto
  <2> QED BY <1>1, <2>1
<1>6. ASSUME NEW c \in Calls, FindFamily(c) PROVE \A d \in Calls : Goal(d)
  <2>1. /\ given' = given /\ token' = token /\ \A d \in Calls \ {c} : pc'[d] = pc[d]
        /\ doomed' = [doomed EXCEPT ![c] =
             {u \in DOMAIN token : token[u].family = token[given[c]].family /\ ~token[u].revoked}]
    BY <1>1, <1>6 DEF FindFamily, Goto, FamilyOf
  <2> QED BY <1>1, <2>1
<1>7. ASSUME (\E t \in DOMAIN token : Expire(t)) \/ UNCHANGED vars
      PROVE  \A d \in Calls : Goal(d)
  BY <1>1, <1>7 DEF Expire, vars, call
<1> HIDE DEF Goal
<1>8. \A d \in Calls : Goal(d)
  BY <1>2, <1>3, <1>4, <1>5, <1>6, <1>7 DEF Next
<1> QED BY <1>8 DEF Goal, FamilyOf

\* Steps elsewhere leave a session as it is.
LEMMA SoleStays ==
  ASSUME TypeOK, NEW f, Sole(f), stored' = stored,
         DOMAIN token \subseteq DOMAIN token',
         \A t \in DOMAIN token' \ DOMAIN token : token'[t].family # f,
         \A t \in DOMAIN token :
           /\ token'[t].family = token[t].family
           /\ token[t].family = f => /\ token'[t].revoked <=> token[t].revoked
                                     /\ token'[t].expired <=> token[t].expired,
         \A c \in Calls :
           /\ Uses(c, f)' <=> Uses(c, f)
           /\ Uses(c, f) => pc'[c] = pc[c] /\ given'[c] = given[c] /\ reply'[c] = reply[c]
  PROVE  Sole(f)'
<1>1. PICK t \in DOMAIN token : Sole(f)!(t)
  BY DEF Sole
<1>2. Sole(f)!(t)'
  BY <1>1
<1> QED BY <1>2 DEF Sole

\* Every step keeps PlainInv.
LEMMA NextKeepsPlain ==
  ASSUME TypeOK, FamiliesInv, PlainInv, [Next]_vars
  PROVE  PlainInv'
<1>0. SUFFICES \A f \in plain' : Sole(f)'
  BY NextKeepsDoomed DEF PlainInv, FamilyOf
<1>1. /\ DOMAIN token \subseteq DOMAIN token'
      /\ \A t \in DOMAIN token : token'[t].family = token[t].family
  BY TokensStay
<1>2. /\ pc \in [Calls -> {"idle", "refresh", "logout", "rotate", "revoke", "answered"}]
      /\ DOMAIN given = Calls /\ DOMAIN reply = Calls /\ TabOf \in [Calls -> Tabs]
      /\ \A c \in Calls : pc[c] # "idle" => given[c] \in DOMAIN token
      /\ \A t \in DOMAIN token : token[t].family \in Used
      /\ \A f \in plain : Sole(f)
  BY CallsAssumption DEF TypeOK, Used, FamilyOf, PlainInv
<1>3. ASSUME NEW b \in Tabs, Login(b) PROVE \A f \in plain' : Sole(f)'
  <2>1. PICK new, f \in Families :
          /\ DOMAIN token' = DOMAIN token \cup {new} /\ token'[new] = Fresh(f) /\ f \notin Used
          /\ stored' = new /\ plain' = {f}
    BY <1>3, LoginFacts
  <2>2. token'[new].family = f /\ ~token'[new].revoked /\ ~token'[new].expired
    BY <2>1 DEF Fresh
  <2>3. pc' = pc /\ given' = given
    BY <1>3 DEF Login, call
  <2>4. \A c \in Calls : ~Uses(c, f)'
    BY <1>1, <1>2, <2>1, <2>3 DEF Uses, FamilyOf
  <2>5. \A u \in DOMAIN token' : token'[u].family = f => u = new
    BY <1>1, <1>2, <2>1
  <2>6. Sole(f)'
    BY <2>1, <2>2, <2>4, <2>5 DEF Sole
  <2> QED BY <2>1, <2>6
<1>4. ASSUME NEW b \in Tabs, Load(b) \/ ClearSession(b) PROVE \A f \in plain' : Sole(f)'
  <2>1. CASE Load(b)
    <3>1. UNCHANGED <<token, stored, call, plain>>
      BY <2>1 DEF Load, history
    <3> QED BY <1>2, <3>1 DEF Sole, Uses, FamilyOf, call
  <2>2. CASE ClearSession(b)
    BY <2>2 DEF ClearSession
  <2> QED BY <1>4, <2>1, <2>2
<1>5. ASSUME NEW c \in Calls, Refresh(c) \/ Logout(c) PROVE \A f \in plain' : Sole(f)'
  <2> DEFINE t == held[TabOf[c]]
  <2>1. /\ pc[c] = "idle" /\ pc'[c] \in {"refresh", "logout"}
        /\ \A d \in Calls \ {c} : pc'[d] = pc[d] /\ given'[d] = given[d]
        /\ given'[c] = t /\ token' = token /\ stored' = stored /\ reply' = reply
    BY <1>2, <1>5 DEF Refresh, Logout, Begin, browser
  <2>2. plain' \subseteq plain /\ (token[t].family \in plain' => Refresh(c) /\ Plain(c))
    BY <1>5 DEF Refresh, Logout, Begin, FamilyOf
  <2> SUFFICES ASSUME NEW f \in plain' PROVE Sole(f)'
    OBVIOUS
  <2>3. PICK s \in DOMAIN token : Sole(f)!(s)
    BY <1>2, <2>2 DEF Sole
  <2>4. CASE token[t].family # f
    BY <1>1, <1>2, <2>1, <2>2, <2>4, SoleStays DEF Uses, FamilyOf
  <2>5. CASE token[t].family = f
    <3>1. /\ t = stored /\ pc'[c] = "refresh"
          /\ \A d \in Calls \ {c} : ~Uses(d, f)
      BY <1>2, <1>5, <2>2, <2>5 DEF Plain, Refresh, Begin, FamilyOf
    <3>2. ~Uses(c, f)
      BY <2>1 DEF Uses
    <3>3. s = t
      BY <2>3, <3>1, <3>2
    <3>4. \A d \in Calls : Uses(d, f)' => d = c
      BY <2>1, <3>1 DEF Uses, FamilyOf
    <3>5. Sole(f)!(s)'
      BY <2>1, <2>3, <3>1, <3>3, <3>4
    <3> QED BY <2>1, <3>5 DEF Sole
  <2> QED BY <2>4, <2>5
<1>6. ASSUME NEW c \in Calls, Receive(c) \/ Lose(c) PROVE \A f \in plain' : Sole(f)'
  <2>1. /\ pc[c] # "idle" /\ pc'[c] = "idle" /\ token' = token
        /\ \A d \in Calls \ {c} : pc'[d] = pc[d] /\ given'[d] = given[d] /\ reply'[d] = reply[d]
    BY <1>2, <1>6 DEF Receive, Lose, End
  <2> SUFFICES ASSUME NEW f \in plain' PROVE Sole(f)'
    OBVIOUS
  <2>2. \/ f \in plain /\ stored' = stored
           /\ (~Uses(c, f) \/ (pc[c] = "answered" /\ reply[c] = "loggedOut"))
        \/ f \in plain /\ stored' = given[c] /\ FamilyOf(given[c]) = f
    BY <1>6 DEF Receive, Lose, Store, Keeps, browser, Uses, FamilyOf
  <2>3. f \in plain
    BY <2>2
  <2>4. PICK s \in DOMAIN token : Sole(f)!(s)
    BY <1>2, <2>3 DEF Sole
  <2>5. CASE stored' = stored /\ ~Uses(c, f)
    BY <1>1, <1>2, <2>1, <2>3, <2>5, SoleStays DEF Uses, FamilyOf
  <2>6. CASE stored' = given[c] /\ FamilyOf(given[c]) = f
    <3>1. Uses(c, f) /\ stored' = s
      BY <2>1, <2>4, <2>6 DEF Uses
    <3>2. \A d \in Calls : ~Uses(d, f)'
      BY <2>1, <2>4, <3>1 DEF Uses, FamilyOf
    <3> QED BY <2>1, <2>4, <3>1, <3>2 DEF Sole
  <2>7. ~(Uses(c, f) /\ reply[c] = "loggedOut" /\ pc[c] = "answered")
    BY <2>4
  <2> QED BY <2>2, <2>5, <2>6, <2>7
<1>7. ASSUME NEW c \in Calls, FindLive(c) PROVE \A f \in plain' : Sole(f)'
  <2>1. /\ pc[c] = "refresh" /\ pc'[c] = "rotate" /\ \A d \in Calls \ {c} : pc'[d] = pc[d]
        /\ UNCHANGED <<token, stored, given, reply, plain>>
    BY <1>2, <1>7 DEF FindLive, Goto, browser
  <2> SUFFICES ASSUME NEW f \in plain' PROVE Sole(f)'
    OBVIOUS
  <2>2. PICK s \in DOMAIN token : Sole(f)!(s)
    BY <1>2, <2>1 DEF Sole
  <2>3. \A d \in Calls : Uses(d, f)' <=> Uses(d, f)
    BY <2>1 DEF Uses, FamilyOf
  <2>4. Sole(f)!(s)'
    BY <2>1, <2>2, <2>3
  <2> QED BY <2>1, <2>4 DEF Sole
<1>8. ASSUME NEW c \in Calls, FindExpired(c) \/ FindFamily(c) PROVE \A f \in plain' : Sole(f)'
  <2>1. /\ \A d \in Calls \ {c} : pc'[d] = pc[d] /\ reply'[d] = reply[d]
        /\ pc[c] # "idle" /\ pc'[c] # "idle"
        /\ UNCHANGED <<token, stored, given, plain>>
        /\ pc[c] \notin {"refresh", "rotate", "answered"}
           \/ token[given[c]].revoked \/ token[given[c]].expired
    BY <1>2, <1>8 DEF FindExpired, FindFamily, Goto, Reply, browser, history
  <2> SUFFICES ASSUME NEW f \in plain' PROVE Sole(f)'
    OBVIOUS
  <2>2. ~Uses(c, f)
    BY <1>2, <2>1 DEF Sole
  <2> QED BY <1>1, <1>2, <2>1, <2>2, SoleStays DEF Uses, FamilyOf
<1>9. ASSUME NEW c \in Calls, Rotate(c) PROVE \A f \in plain' : Sole(f)'
  <2>4. PICK new, old : new = 1 + Len(token) /\ old = given[c]
    OBVIOUS
  <2>1. /\ old \in DOMAIN token /\ new \notin DOMAIN token
        /\ DOMAIN token' = DOMAIN token \cup {new} /\ token'[new] = Fresh(FamilyOf(old))
        /\ \A t \in DOMAIN token :
             /\ token'[t].expired = token[t].expired
             /\ token'[t].revoked <=> token[t].revoked \/ t = old
    BY <1>9, <2>4, RotateFacts
  <2>2. /\ pc[c] = "rotate" /\ pc'[c] = "answered" /\ reply'[c] = "issued" /\ given'[c] = new
        /\ \A d \in Calls \ {c} : pc'[d] = pc[d] /\ given'[d] = given[d] /\ reply'[d] = reply[d]
        /\ stored' = stored /\ plain' = plain
    BY <1>2, <1>9, <2>4 DEF Rotate, Goto, Reply, browser, history
  <2>3. token'[new].family = token[old].family /\ ~token'[new].revoked /\ ~token'[new].expired
    BY <2>1 DEF Fresh, FamilyOf
  <2> SUFFICES ASSUME NEW f \in plain' PROVE Sole(f)'
    OBVIOUS
  <2>5. PICK s \in DOMAIN token : Sole(f)!(s)
    BY <1>2, <2>2 DEF Sole
  <2>6. \A d \in Calls : Uses(d, f)' <=> Uses(d, f)
    BY <1>1, <1>2, <2>1, <2>2, <2>3, <2>4 DEF Uses, FamilyOf
  <2>7. CASE token[old].family # f
    <3>1. ~Uses(c, f)
      BY <2>4, <2>7 DEF Uses, FamilyOf
    <3>2. \A t \in DOMAIN token' \ DOMAIN token : token'[t].family # f
      BY <2>1, <2>3, <2>7
    <3>3. \A t \in DOMAIN token : token[t].family = f =>
            /\ token'[t].revoked <=> token[t].revoked
            /\ token'[t].expired <=> token[t].expired
      BY <2>1, <2>7
    <3> QED BY <1>1, <1>2, <2>2, <2>6, <3>1, <3>2, <3>3, SoleStays
  <2>8. CASE token[old].family = f
    <3>1. Uses(c, f) /\ s = old
      BY <2>2, <2>4, <2>5, <2>8 DEF Uses, FamilyOf
    <3>2. \A u \in DOMAIN token' :
            token'[u].family = f => u = new \/ token'[u].revoked \/ token'[u].expired
      BY <1>1, <2>1, <2>5, <3>1
    <3>3. \A d \in Calls : Uses(d, f)' => d = c
      BY <2>5, <2>6, <3>1
    <3>4. Sole(f)!(new)'
      BY <2>2, <2>3, <2>6, <2>8, <3>1, <3>2, <3>3
    <3> QED BY <2>1, <3>4 DEF Sole
  <2> QED BY <2>7, <2>8
<1>10. ASSUME NEW c \in Calls, Revoke(c) PROVE \A f \in plain' : Sole(f)'
  <2>1. /\ pc[c] = "revoke" /\ pc'[c] = "answered" /\ \A d \in Calls \ {c} : pc'[d] = pc[d]
        /\ UNCHANGED <<stored, given, reply, plain>>
    BY <1>2, <1>10 DEF Revoke, Goto, browser
  <2>2. /\ DOMAIN token' = DOMAIN token
        /\ \A t \in DOMAIN token :
             /\ token'[t].expired = token[t].expired
             /\ t \notin doomed[c] => (token'[t].revoked <=> token[t].revoked)
    BY <1>10, ColumnFacts, RevokeFacts
  <2> SUFFICES ASSUME NEW f \in plain' PROVE Sole(f)'
    OBVIOUS
  <2>3. ~Uses(c, f)
    BY <1>2, <2>1 DEF Sole
  <2>4. \A t \in DOMAIN token : token[t].family = f => t \notin doomed[c]
    BY <2>1, <2>3 DEF PlainInv, Uses, FamilyOf
  <2>5. \A t \in DOMAIN token :
          token[t].family = f => (token'[t].revoked <=> token[t].revoked)
    BY <2>2, <2>4
  <2> QED BY <1>1, <1>2, <2>1, <2>2, <2>3, <2>5, SoleStays DEF Uses, FamilyOf
<1>11. ASSUME NEW c \in Calls, Fail(c) PROVE \A f \in plain' : Sole(f)'
  <2>1. /\ \A d \in Calls \ {c} : pc'[d] = pc[d] /\ reply'[d] = reply[d]
        /\ pc[c] # "idle" /\ pc'[c] # "idle"
        /\ UNCHANGED <<token, stored, given>> /\ plain' = plain \ {FamilyOf(given[c])}
    BY <1>2, <1>11 DEF Fail, Goto, Reply, browser
  <2> QED BY <1>1, <1>2, <2>1, SoleStays DEF Uses, FamilyOf
<1>12. ASSUME NEW x \in DOMAIN token, Expire(x) PROVE \A f \in plain' : Sole(f)'
  <2>1. UNCHANGED <<pc, given, reply, stored>> /\ plain' = plain \ {FamilyOf(x)}
    BY <1>12 DEF Expire, browser, call
  <2>2. /\ DOMAIN token' = DOMAIN token
        /\ \A t \in DOMAIN token : /\ token'[t].revoked = token[t].revoked
                                   /\ t # x => token'[t].expired = token[t].expired
    BY <1>12, ColumnFacts, ExpireFacts
  <2> QED BY <1>1, <1>2, <2>1, <2>2, SoleStays DEF Uses, FamilyOf
<1>13. ASSUME UNCHANGED vars PROVE \A f \in plain' : Sole(f)'
  BY <1>2, <1>13 DEF vars, browser, call, history, Sole, Uses, FamilyOf
<1> QED BY <1>3, <1>4, <1>5, <1>6, <1>7, <1>8, <1>9, <1>10, <1>11, <1>12, <1>13 DEF Next

\* A session that one call at a time uses, with no answer lost, lives on.
THEOREM PlainUseIsSafe == Spec => []PlainUseKeepsSession
<1>1. Init => PlainInv
  BY DEF Init, PlainInv
<1>2. TypeOK /\ FamiliesInv /\ PlainInv /\ [Next]_vars => PlainInv'
  BY NextKeepsPlain
<1>3. PlainInv => PlainUseKeepsSession
  <2> SUFFICES ASSUME PlainInv, NEW f \in plain PROVE PlainUseKeepsSession!(f)
    BY DEF PlainUseKeepsSession
  <2>1. PICK t \in DOMAIN token : Sole(f)!(t)
    BY DEF PlainInv, Sole
  <2>2. LiveOf(f) = {t}
    BY <2>1 DEF LiveOf, Live, FamilyOf
  <2> QED BY <2>1, <2>2
<1> QED BY <1>1, <1>2, <1>3, SessionsAreTyped, PTL DEF Spec
=============================================================================
