-------------------------------- MODULE Accounts --------------------------------
(***************************************************************************)
(* Accounts: the users table and the one-time codes people log in with.    *)
(* Verifications of codes run side by side, each in a transaction of its   *)
(* own that holds its rows in memory from its first SELECT to its commit.  *)
(*                                                                         *)
(* A handler's UPDATEs name the columns it changed and no others.  A wrong *)
(* guess flushes and commits in one call, so no lock of its own outlives   *)
(* the step; the right code is flushed before the account is looked up, so *)
(* its row stays locked until the transaction ends.                        *)
(***************************************************************************)
EXTENDS Postings, Functions

CONSTANTS
  Users,       \* ids of accounts
  Contacts,    \* phone numbers, or addresses
  NoContact,   \* NULL in both columns
  Codes,       \* rows of otp_requests
  Verifiers,   \* verifications that may run at the same time
  MaxAttempts  \* OTP_MAX_ATTEMPTS

ASSUME AccountsAssumption == NoContact \notin Contacts /\ MaxAttempts \in Nat \ {0}

VARIABLES
  users,   \* the committed rows, by id
  codes,   \* the committed rows, by id
  verify,  \* the verification each of Verifiers is in
  shared,  \* history: verifications that overlapped another of their code
  guessed, \* history: wrong guesses of each code that overlapped no other
  opened   \* history: sessions opened by each code and the account they are of

accounts == <<users, codes, verify, shared, guessed, opened>>

Account == [contact : Contacts \cup {NoContact}, role : {"user", "developer"},
            verified : BOOLEAN, erased : BOOLEAN]
\* attempts stops at the limit verify_otp checks it against.
Code == [contact : Contacts, attempts : 0 .. MaxAttempts, consumed : BOOLEAN, expired : BOOLEAN]
NewAccount(x, verified) ==
  [contact |-> x, role |-> "user", verified |-> verified, erased |-> FALSE]
Holders(x) == {u \in DOMAIN users : users[u].contact = x}

Idle == [step |-> "idle"]
Working(v) == verify[v].step # "idle"
CodeOf(v) == verify[v].code
ContactOf(v) == codes[CodeOf(v)].contact
\* Another transaction has the row of this code in an UPDATE of its own.
CodeLocked(v) == \E w \in Verifiers \ {v} :
                   verify[w].step \in {"insert", "open"} /\ CodeOf(w) = CodeOf(v)

AccountsInit ==
  /\ \E at \in UNION {[S -> Contacts] : S \in SUBSET Users} :
       /\ IsInjective(at)
       /\ users = [u \in DOMAIN at |-> NewAccount(at[u], FALSE)]
  /\ codes = <<>>
  /\ verify = [v \in Verifiers |-> Idle]
  /\ shared = {}
  /\ guessed = [c \in Codes |-> 0]
  /\ opened = [c \in Codes |-> {}]

\* Past the rate limits and the CAPTCHA, which change none of this.
RequestOtp(c, x) ==
  /\ c \notin DOMAIN codes
  /\ codes' = Insert(codes, c, [contact |-> x, attempts |-> 0,
                                 consumed |-> FALSE, expired |-> FALSE])
  /\ UNCHANGED <<users, verify, shared, guessed, opened>>

Expire(c) ==
  /\ c \in DOMAIN codes
  /\ codes' = [codes EXCEPT ![c].expired = TRUE]
  /\ UNCHANGED <<users, verify, shared, guessed, opened>>

\* Variant: one guess more than the limit.
UsableOnceMore(c) ==
  ~codes[c].consumed /\ ~codes[c].expired /\ codes[c].attempts <= MaxAttempts
Usable(c) == ~codes[c].consumed /\ ~codes[c].expired /\ codes[c].attempts < MaxAttempts

\* From here on neither the newcomer nor the calls it met are alone.
Begin(v, c, step) ==
  LET met == {w \in Verifiers : Working(w) /\ CodeOf(w) = c}
  IN /\ verify' = [verify EXCEPT ![v] = [step |-> step, code |-> c, seen |-> codes[c].attempts]]
     /\ shared' = IF met = {} THEN shared ELSE shared \cup met \cup {v}
End(v) ==
  /\ verify' = [verify EXCEPT ![v] = Idle]
  /\ shared' = shared \ {v}

\* The row is loaded and the guess compared with what was loaded.
Load(v, c, right) ==
  /\ ~Working(v)
  /\ c \in DOMAIN codes
  /\ Usable(c)
  /\ Begin(v, c, IF right THEN "use" ELSE "count")
  /\ UNCHANGED <<users, codes, guessed, opened>>

\* Variant: the error is raised before the commit, which the rollback then undoes.
CountGuessUncommitted(v) ==
  /\ verify[v].step = "count"
  /\ ~CodeLocked(v)
  /\ guessed' = [guessed EXCEPT ![CodeOf(v)] = @ + IF v \in shared THEN 0 ELSE 1]
  /\ End(v)
  /\ UNCHANGED <<users, codes, opened>>

CountGuess(v) ==
  LET c == CodeOf(v)
  IN /\ verify[v].step = "count"
     /\ ~CodeLocked(v)
     /\ codes' = [codes EXCEPT ![c].attempts = verify[v].seen + 1]
     /\ guessed' = [guessed EXCEPT ![c] = @ + IF v \in shared THEN 0 ELSE 1]
     /\ End(v)
     /\ UNCHANGED <<users, opened>>

\* Variant: looked up by phone or address, of which a code has one only, and
\* every account that lacks the other is taken to match.
FindAccountByEither(v) ==
  /\ verify[v].step = "use"
  /\ ~CodeLocked(v)
  /\ verify' = [verify EXCEPT ![v] =
       IF DOMAIN users = {} THEN [step |-> "insert", code |-> CodeOf(v)]
       ELSE [step |-> "open", code |-> CodeOf(v), new |-> FALSE,
             user |-> CHOOSE u \in DOMAIN users : TRUE]]
  /\ UNCHANGED <<users, codes, shared, guessed, opened>>

\* The code is flushed as consumed and the account looked up.
FindAccount(v) ==
  /\ verify[v].step = "use"
  /\ ~CodeLocked(v)
  /\ verify' = [verify EXCEPT ![v] =
       IF Holders(ContactOf(v)) = {}
       THEN [step |-> "insert", code |-> CodeOf(v)]
       ELSE [step |-> "open", code |-> CodeOf(v), new |-> FALSE,
             user |-> CHOOSE u \in Holders(ContactOf(v)) : TRUE]]
  /\ UNCHANGED <<users, codes, shared, guessed, opened>>

\* Transactions that have inserted an account and not ended.
Inserting == {v \in Verifiers : verify[v].step = "open" /\ verify[v].new}
\* Variant: no unique key on the contact.
InsertNeverWaits(v) == FALSE
\* The unique key makes the INSERT wait for one of the same contact.
InsertWaits(v) == \E w \in Inserting : ContactOf(w) = ContactOf(v)

InsertAccount(v, u) ==
  /\ verify[v].step = "insert"
  /\ ~InsertWaits(v)
  /\ u \in Users \ (DOMAIN users \cup {verify[w].user : w \in Inserting})
  /\ Holders(ContactOf(v)) = {}
  /\ verify' = [verify EXCEPT ![v] =
       [step |-> "open", code |-> CodeOf(v), new |-> TRUE, user |-> u]]
  /\ UNCHANGED <<users, codes, shared, guessed, opened>>

\* IntegrityError, which nothing handles: a 500, and the code is not consumed.
InsertFails(v) ==
  /\ verify[v].step = "insert"
  /\ ~InsertWaits(v)
  /\ Holders(ContactOf(v)) # {}
  /\ End(v)
  /\ UNCHANGED <<users, codes, guessed, opened>>

\* Variant: the row is saved whole, with the contact it had when it was loaded.
SavedWhole(v) ==
  LET u == verify[v].user
  IN IF verify[v].new THEN Insert(users, u, NewAccount(ContactOf(v), TRUE))
     ELSE [users EXCEPT ![u].verified = TRUE, ![u].contact = ContactOf(v)]
\* What the commit leaves of the accounts: a new row, or one column of an old one.
Saved(v) ==
  LET u == verify[v].user
  IN IF verify[v].new THEN Insert(users, u, NewAccount(ContactOf(v), TRUE))
     ELSE [users EXCEPT ![u].verified = TRUE]

\* Variant: consumed is set on a row the session does not track.
OpenSessionReusable(v) ==
  /\ verify[v].step = "open"
  /\ users' = Saved(v)
  /\ opened' = [opened EXCEPT ![CodeOf(v)] =
       @ \cup {[user |-> verify[v].user, call |-> v, alone |-> v \notin shared]}]
  /\ End(v)
  /\ UNCHANGED <<codes, guessed>>

\* The refresh token is inserted and everything commits.
OpenSession(v) ==
  LET c == CodeOf(v)
      u == verify[v].user
  IN /\ verify[v].step = "open"
     /\ users' = Saved(v)
     /\ codes' = [codes EXCEPT ![c].consumed = TRUE]
     /\ opened' = [opened EXCEPT ![c] = @ \cup {[user |-> u, call |-> v, alone |-> v \notin shared]}]
     /\ End(v)
     /\ UNCHANGED guessed

\* The process or its connection is lost, and the transaction with it.
Die(v) ==
  /\ Working(v)
  /\ End(v)
  /\ UNCHANGED <<users, codes, guessed, opened>>

VerifyStep(v) ==
  \/ \E c \in Codes, right \in BOOLEAN : Load(v, c, right)
  \/ CountGuess(v)
  \/ FindAccount(v)
  \/ \E u \in Users : InsertAccount(v, u)
  \/ InsertFails(v)
  \/ OpenSession(v)
  \/ Die(v)

AccountsNext ==
  \/ \E c \in Codes, x \in Contacts : RequestOtp(c, x)
  \/ \E c \in Codes : Expire(c)
  \/ \E v \in Verifiers : VerifyStep(v)

-----------------------------------------------------------------------------
\* Rows and calls are well formed, and a code counts no more than it allows.
AccountsOK ==
  /\ DOMAIN users \subseteq Users /\ \A u \in DOMAIN users : users[u] \in Account
  /\ DOMAIN codes \subseteq Codes
  /\ \A c \in DOMAIN codes : codes[c] \in Code
  /\ \A v \in Verifiers : Working(v) => CodeOf(v) \in DOMAIN codes

\* Two people never share a contact, and two transactions never insert accounts
\* for one: verify_otp's SELECT ... scalar_one_or_none relies on it.
ContactsAreUnique ==
  /\ \A x \in Contacts : Cardinality(Holders(x)) <= 1
  /\ \A v, w \in Inserting : ContactOf(v) = ContactOf(w) => v = w
  /\ \A v \in Inserting : Holders(ContactOf(v)) = {}

\* verify_otp opens a session for the account of the contact the code was sent
\* to, unless that account has been erased by now.
SessionsFitTheCode ==
  /\ \A v \in Verifiers :
       verify[v].step = "open" /\ ~verify[v].new =>
         \/ users[verify[v].user].contact = ContactOf(v)
         \/ users[verify[v].user].erased
  /\ \A c \in Codes : \A o \in opened[c] :
       users[o.user].contact = codes[c].contact \/ users[o.user].erased

\* "This OTP has already been used": of the verifications that overlapped no
\* other of the same code, one at most opens a session, and the code is consumed.
OneCodeOneSession ==
  \A c \in Codes :
    /\ opened[c] # {} => codes[c].consumed
    /\ Cardinality({o \in opened[c] : o.alone}) <= 1

\* A wrong guess that overlapped no other is counted for good, whatever the
\* calls that overlap write over the counter: there are at most MaxAttempts.
LoneGuessesCount ==
  \A c \in Codes : guessed[c] > 0 => guessed[c] <= codes[c].attempts
=============================================================================
