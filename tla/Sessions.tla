-------------------------------- MODULE Sessions --------------------------------
(***************************************************************************)
(* Sessions: the refresh tokens of one account, their rotation and the     *)
(* revocation of a whole family when a used token comes back, beside the   *)
(* browser that holds them.  Every tab keeps its own copy of the session,  *)
(* loaded from localStorage with the page, and every API call that is      *)
(* answered 401 refreshes it on its own.                                   *)
(*                                                                         *)
(* The row a rotation inserts is invisible until it commits, so it appears *)
(* in Rotate, and a revocation takes effect in Revoke: each of the two     *)
(* waits for no lock between its first UPDATE and its commit that could    *)
(* tell the difference.                                                    *)
(***************************************************************************)
EXTENDS Integers, Sequences, FiniteSets

CONSTANTS
  Tabs,
  Calls,     \* API calls that may be in flight at the same time
  TabOf,     \* the tab that makes each call
  MaxTokens  \* bound on the tokens ever issued

ASSUME CallsAssumption == TabOf \in [Calls -> Tabs] /\ MaxTokens \in Nat

VARIABLES
  token,   \* refresh_tokens in the order of their commits
  held,    \* the token each tab holds, or 0
  stored,  \* the token in localStorage, or 0
  pc,      \* what each call does next
  given,   \* the token it presented, then the one it was issued
  doomed,  \* the tokens it is going to revoke
  reply,   \* how it is answered
  plain,   \* history: families that one call at a time used, see Plain
  lapped,  \* history: revocations that a rotation of the family overlapped
  final,   \* history: families whose revocation overlapped no rotation
  gone     \* history: families logged out of where nothing else used them

browser == <<held, stored>>
call == <<pc, given, doomed, reply>>
history == <<plain, lapped, final, gone>>
vars == <<token, browser, call, history>>

Families == 1 .. MaxTokens
FamilyOf(t) == token[t].family
Live == {t \in DOMAIN token : ~token[t].revoked /\ ~token[t].expired}
LiveOf(f) == {t \in Live : FamilyOf(t) = f}

Init ==
  /\ token = <<>>
  /\ held = [b \in Tabs |-> 0]
  /\ stored = 0
  /\ pc = [c \in Calls |-> "idle"]
  /\ given = [c \in Calls |-> 0]
  /\ doomed = [c \in Calls |-> {}]
  /\ reply = [c \in Calls |-> ""]
  /\ plain = {} /\ lapped = {} /\ final = {} /\ gone = {}

\* A row as it is inserted.
Fresh(f) == [family |-> f, revoked |-> FALSE, expired |-> FALSE, replacedBy |-> 0]

-----------------------------------------------------------------------------
(* The browser.                                                            *)

\* setSession and clearSession write the tab and localStorage alike.
Store(b, t) ==
  /\ held' = [held EXCEPT ![b] = t]
  /\ stored' = t
Keeps(t) == {f \in plain : t # 0 /\ FamilyOf(t) = f}

End(c) ==
  /\ pc' = [pc EXCEPT ![c] = "idle"]
  /\ given' = [given EXCEPT ![c] = 0]
  /\ doomed' = [doomed EXCEPT ![c] = {}]
  /\ reply' = [reply EXCEPT ![c] = ""]
  /\ lapped' = lapped \ {c}

\* verify_otp commits the first token of a new family.
Login(b) ==
  LET f == 1 + Cardinality({FamilyOf(t) : t \in DOMAIN token})
      t == 1 + Len(token)
  IN /\ t <= MaxTokens
     /\ token' = Append(token, Fresh(f))
     /\ Store(b, t)
     /\ plain' = {f}
     /\ UNCHANGED <<call, lapped, final, gone>>

\* The page is loaded (again) with no call under way.
Load(b) ==
  /\ \A c \in Calls : TabOf[c] = b => pc[c] = "idle"
  /\ held' = [held EXCEPT ![b] = stored]
  /\ UNCHANGED <<token, stored, call, history>>

Uses(c, f) == pc[c] # "idle" /\ FamilyOf(given[c]) = f

\* No tab but b has a token of the family, and no call of any tab carries one.
OnlyIn(b, f) ==
  /\ \A a \in Tabs \ {b} : held[a] # 0 => FamilyOf(held[a]) # f
  /\ \A c \in Calls : ~Uses(c, f)
GoneWith(b) == gone \cup {f \in {FamilyOf(held[b])} : OnlyIn(b, f)}

\* Variant: the tab forgets its session, localStorage does not.
ClearSessionOfTab(b) ==
  /\ held[b] # 0
  /\ held' = [held EXCEPT ![b] = 0]
  /\ plain' = {}
  /\ gone' = GoneWith(b)
  /\ UNCHANGED <<token, stored, call, lapped, final>>

\* The button "Log out", which no server hears of.
ClearSession(b) ==
  /\ held[b] # 0
  /\ Store(b, 0)
  /\ plain' = {}
  /\ gone' = GoneWith(b)
  /\ UNCHANGED <<token, call, lapped, final>>

\* Plain use: the call presents the stored token, and no other call is under
\* way with a token of its family.
Plain(c) ==
  LET t == held[TabOf[c]]
  IN t = stored /\ \A d \in Calls \ {c} : ~Uses(d, FamilyOf(t))

Begin(c, label) ==
  LET t == held[TabOf[c]]
  IN /\ pc[c] = "idle"
     /\ t # 0
     /\ pc' = [pc EXCEPT ![c] = label]
     /\ given' = [given EXCEPT ![c] = t]
     /\ plain' = IF label = "refresh" /\ Plain(c) THEN plain
                                                  ELSE plain \ {FamilyOf(t)}
     /\ UNCHANGED <<token, browser, doomed, reply, lapped, final, gone>>

\* refreshAccessToken, once an API call was answered 401.
Refresh(c) == Begin(c, "refresh")
\* POST /auth/logout, by a client that does more than the button.
Logout(c) == Begin(c, "logout")

\* refreshAccessToken stores what it is issued, and clears the session on
\* any refusal, whatever was stored meanwhile.
Receive(c) ==
  LET b == TabOf[c]
  IN /\ pc[c] = "answered"
     /\ \/ reply[c] = "issued" /\ Store(b, given[c]) /\ plain' = Keeps(given[c])
        \/ reply[c] \in {"reused", "refused"} /\ Store(b, 0) /\ plain' = {}
        \/ reply[c] = "loggedOut" /\ UNCHANGED <<browser, plain>>
     /\ End(c)
     /\ UNCHANGED <<token, final, gone>>

\* The request or its answer is lost: fetch throws, the session is kept.
Lose(c) ==
  /\ pc[c] # "idle"
  /\ plain' = plain \ {FamilyOf(given[c])}
  /\ End(c)
  /\ UNCHANGED <<token, browser, final, gone>>

-----------------------------------------------------------------------------
(* The server: rotate_refresh_token and logout.                            *)

Goto(c, label) == pc' = [pc EXCEPT ![c] = label]
Reply(c, label) == reply' = [reply EXCEPT ![c] = label]
At(label, f) == {c \in Calls : pc[c] = label /\ FamilyOf(given[c]) = f}

\* A token that is good: it will be exchanged.
FindLive(c) ==
  /\ pc[c] = "refresh"
  /\ given[c] \in Live
  /\ Goto(c, "rotate")
  /\ lapped' = lapped \cup At("revoke", FamilyOf(given[c]))
  /\ UNCHANGED <<token, browser, given, doomed, reply, plain, final, gone>>

\* An expired token.
FindExpired(c) ==
  /\ pc[c] = "refresh"
  /\ token[given[c]].expired /\ ~token[given[c]].revoked
  /\ Goto(c, "answered") /\ Reply(c, "refused")
  /\ UNCHANGED <<token, browser, given, doomed, history>>

\* Variant: the old token points to its successor and is not revoked.
RotateKeepingOld(c) ==
  LET old == given[c]
      new == 1 + Len(token)
  IN /\ pc[c] = "rotate"
     /\ new <= MaxTokens
     /\ token' = Append([token EXCEPT ![old].replacedBy = new], Fresh(FamilyOf(old)))
     /\ given' = [given EXCEPT ![c] = new]
     /\ Goto(c, "answered") /\ Reply(c, "issued")
     /\ UNCHANGED <<browser, doomed, history>>

\* The old token is revoked and points to its successor.
Rotate(c) ==
  LET old == given[c]
      new == 1 + Len(token)
  IN /\ pc[c] = "rotate"
     /\ new <= MaxTokens
     /\ token' = Append([token EXCEPT ![old].revoked = TRUE, ![old].replacedBy = new],
                        Fresh(FamilyOf(old)))
     /\ given' = [given EXCEPT ![c] = new]
     /\ Goto(c, "answered") /\ Reply(c, "issued")
     /\ UNCHANGED <<browser, doomed, history>>

\* A token that is revoked already, or a logout: read what its family has
\* left.  A token that was exchanged for another one has been reused.
FindFamily(c) ==
  LET t == given[c]
  IN /\ \/ /\ pc[c] = "refresh" /\ token[t].revoked
           /\ Reply(c, IF token[t].replacedBy = 0 THEN "refused" ELSE "reused")
        \/ /\ pc[c] = "logout"
           /\ Reply(c, "loggedOut")
     /\ doomed' = [doomed EXCEPT ![c] =
                     {u \in DOMAIN token : FamilyOf(u) = FamilyOf(t) /\ ~token[u].revoked}]
     /\ Goto(c, "revoke")
     /\ lapped' = IF At("rotate", FamilyOf(t)) = {} THEN lapped ELSE lapped \cup {c}
     /\ UNCHANGED <<token, browser, given, plain, final, gone>>

\* Variant: only the token that was presented is revoked.
RevokeOne(c) ==
  /\ pc[c] = "revoke"
  /\ token' = [token EXCEPT ![given[c]].revoked = TRUE]
  /\ Goto(c, "answered")
  /\ final' = IF c \in lapped THEN final ELSE final \cup {FamilyOf(given[c])}
  /\ UNCHANGED <<browser, given, doomed, reply, plain, lapped, gone>>

\* _revoke_family and its commit.
Revoke(c) ==
  /\ pc[c] = "revoke"
  /\ token' = [t \in DOMAIN token |->
                 [token[t] EXCEPT !.revoked = @ \/ t \in doomed[c]]]
  /\ Goto(c, "answered")
  /\ final' = IF c \in lapped THEN final ELSE final \cup {FamilyOf(given[c])}
  /\ UNCHANGED <<browser, given, doomed, reply, plain, lapped, gone>>

\* The transaction fails and is rolled back; the browser clears its session.
Fail(c) ==
  /\ pc[c] \in {"refresh", "rotate", "revoke", "logout"}
  /\ Goto(c, "answered") /\ Reply(c, "refused")
  /\ plain' = plain \ {FamilyOf(given[c])}
  /\ UNCHANGED <<token, browser, given, doomed, lapped, final, gone>>

\* REFRESH_TOKEN_TTL_DAYS pass.
Expire(t) ==
  /\ ~token[t].expired
  /\ token' = [token EXCEPT ![t].expired = TRUE]
  /\ plain' = plain \ {FamilyOf(t)}
  /\ UNCHANGED <<browser, call, lapped, final, gone>>

-----------------------------------------------------------------------------
Next ==
  \/ \E b \in Tabs : Login(b) \/ Load(b) \/ ClearSession(b)
  \/ \E c \in Calls :
       \/ Refresh(c) \/ Logout(c) \/ Receive(c) \/ Lose(c)
       \/ FindLive(c) \/ FindExpired(c) \/ Rotate(c) \/ FindFamily(c)
       \/ Revoke(c) \/ Fail(c)
  \/ \E t \in DOMAIN token : Expire(t)

Spec == Init /\ [][Next]_vars

-----------------------------------------------------------------------------
(* Properties.                                                             *)

\* Every variable has its type; a token that was exchanged is revoked, and
\* for a token of its own family.
TypeOK ==
  /\ token \in Seq([family : Families, revoked : BOOLEAN, expired : BOOLEAN,
                     replacedBy : 0 .. MaxTokens])
  /\ \A t \in DOMAIN token : token[t].replacedBy # 0 =>
       /\ token[t].revoked
       /\ token[t].replacedBy \in DOMAIN token
       /\ FamilyOf(token[t].replacedBy) = FamilyOf(t)
  /\ held \in [Tabs -> {0} \cup DOMAIN token]
  /\ stored \in {0} \cup DOMAIN token
  /\ pc \in [Calls -> {"idle", "refresh", "logout", "rotate", "revoke", "answered"}]
  /\ given \in [Calls -> {0} \cup DOMAIN token]
  /\ \A c \in Calls : pc[c] # "idle" => given[c] # 0
  /\ doomed \in [Calls -> SUBSET DOMAIN token]
  /\ reply \in [Calls -> {"", "issued", "reused", "refused", "loggedOut"}]
  /\ {plain, final, gone} \subseteq SUBSET Families /\ lapped \subseteq Calls

\* A session that one call at a time uses, with no answer lost, lives on:
\* its family has exactly one live token, and the browser has it stored or
\* is being sent it.
PlainUseKeepsSession ==
  \A f \in plain :
    \E t \in LiveOf(f) :
      /\ LiveOf(f) = {t}
      /\ \/ t = stored
         \/ \E c \in Calls : reply[c] = "issued" /\ given[c] = t

\* A revocation that no rotation of the family overlapped is final: the
\* family has no live token then, and never gets one (the docstring's "the
\* entire family is revoked").
RevocationIsFinal == \A f \in final : LiveOf(f) = {}

\* Log out lasts: once the button was pressed in the only tab of a session,
\* with none of its calls under way, neither a tab nor localStorage nor a call
\* has a token of it again, whatever answers, reloads and logins follow.
LogoutLasts ==
  \A f \in gone :
    /\ \A b \in Tabs : held[b] # 0 => FamilyOf(held[b]) # f
    /\ stored # 0 => FamilyOf(stored) # f
    /\ \A c \in Calls : ~Uses(c, f)

\* A browser's own calls are never taken for the replay of a stolen token
\* (the docstring on reuse detection).
NoFalseReuse == \A c \in Calls : reply[c] # "reused"
=============================================================================
