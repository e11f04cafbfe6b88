--------------------------------- MODULE Sessions ---------------------------------
(* One account, its password and its sessions: app/api/auth.py, app/deps.py, the     *)
(* administrator's reset of app/api/users.py, app/core/security.py.                  *)
(*                                                                                   *)
(* A request loads the user's row, works on it (a password takes long to verify),    *)
(* and commits the columns that it has changed; others run in between.  A session is *)
(* a pair of tokens that hold the row's token_version: no request has to find it     *)
(* anywhere, it is good as long as the row still has that number.  A refresh gives   *)
(* the same number again, and so changes nothing here.                               *)
EXTENDS Integers, FiniteSets

CONSTANTS
  Requests,
  MAX_LOGIN_ATTEMPTS,
  MaxPasswords,       \* bound: passwords that the account has in turn
  MaxTokens,          \* bound: reset tokens
  MaxCalls            \* bound: requests

VARIABLES
  account,            \* the row: hash, version, must, fails, locked
  token,              \* token[t]: a password_reset_tokens row, if it has one
  mailed,             \* the tokens that the user has received
  sessions,           \* the sessions that were opened: version; history: the password given
  chosen,             \* passwords chosen so far; each is a new one
  asked,              \* reset tokens made so far
  uses,               \* history: uses[t], the resets that t has served for
  stale,              \* history: a request has changed, or let in, what was changed under it
  doubled,            \* history: two requests for a token were in their transactions at once
  calls, work         \* work[r]: what request r has in its session

vars == <<account, token, mailed, sessions, chosen, asked, uses, stale, doubled, calls, work>>

SessionsConstants ==
  /\ IsFiniteSet(Requests) /\ MAX_LOGIN_ATTEMPTS \in Nat \ {0}
  /\ MaxPasswords \in Nat \ {0} /\ MaxTokens \in Nat /\ MaxCalls \in Nat

\* A legacy hash is one without the digest before bcrypt.
Passwords == 1..MaxPasswords
Tokens == 1..MaxTokens
Hashes == [of : Passwords, legacy : BOOLEAN]
Accounts == [hash : Hashes, version : Nat \ {0}, must : BOOLEAN,
             fails : 0..MAX_LOGIN_ATTEMPTS - 1, locked : BOOLEAN]
Idle == [op |-> "none"]

TypeOK ==
  /\ account \in Accounts
  /\ token \in [Tokens -> {"none", "live", "old", "used"}] /\ mailed \subseteq Tokens
  /\ sessions \subseteq [version : Nat \ {0}, by : Passwords]
  /\ chosen \in Passwords /\ asked \in 0..MaxTokens /\ uses \in [Tokens -> Nat]
  /\ {stale, doubled} \subseteq BOOLEAN /\ calls \in 0..MaxCalls

Init ==
  /\ \E legacy, must \in BOOLEAN :
       account = [hash |-> [of |-> 1, legacy |-> legacy], version |-> 1, must |-> must,
                  fails |-> 0, locked |-> FALSE]
  /\ token = [t \in Tokens |-> "none"] /\ mailed = {}
  /\ sessions = {} /\ chosen = 1 /\ asked = 0
  /\ uses = [t \in Tokens |-> 0] /\ stale = FALSE /\ doubled = FALSE
  /\ calls = 0 /\ work = [r \in Requests |-> Idle]

-----------------------------------------------------------------------------------
(* Requests                                                                        *)

Valid(s) == s.version = account.version

\* The row is loaded, with what else the request is given.
Begin(r, op, given) ==
  /\ work[r] = Idle /\ calls < MaxCalls /\ calls' = calls + 1
  /\ work' = [work EXCEPT ![r] = [op |-> op, row |-> account, given |-> given]]
  /\ UNCHANGED <<account, token, mailed, sessions, chosen, asked, uses, stale, doubled>>
Goes(r, op) == work' = [work EXCEPT ![r].op = op]
Ends(r) == work' = [work EXCEPT ![r] = Idle]

\* A commit writes the columns that differ from what was loaded: whoever changes the
\* password or the version does so over what it loaded.
Outdated(row, new) ==
  /\ new.hash # row.hash \/ new.version # row.version
  /\ account.hash # row.hash \/ account.version # row.version
Save_AllColumns(r, new) ==
  account' = new /\ stale' = (stale \/ Outdated(work[r].row, new))
Save(r, new) ==
  /\ account' = [c \in DOMAIN account |->
                   IF new[c] # work[r].row[c] THEN new[c] ELSE account[c]]
  /\ stale' = (stale \/ Outdated(work[r].row, new))

\* A password takes the place of the one that was loaded: every session ends.
Renewed_KeepsSessions(row, must) ==
  [row EXCEPT !.hash = [of |-> chosen + 1, legacy |-> FALSE], !.must = must]
Renewed(row, must) ==
  [row EXCEPT !.hash = [of |-> chosen + 1, legacy |-> FALSE], !.must = must,
              !.version = @ + 1]
Choose == chosen < MaxPasswords /\ chosen' = chosen + 1

-----------------------------------------------------------------------------------
(* Login                                                                           *)

BeginLogin(r, p) == ~account.locked /\ Begin(r, "login", p)

Failed(row) ==
  IF row.fails + 1 >= MAX_LOGIN_ATTEMPTS
  THEN [row EXCEPT !.fails = 0, !.locked = TRUE] ELSE [row EXCEPT !.fails = @ + 1]

EndLogin(r) ==
  /\ work[r].op = "login"
  /\ LET row == work[r].row
         p == work[r].given
     IN IF p = row.hash.of
        THEN /\ Save(r, [row EXCEPT !.fails = 0, !.locked = FALSE, !.hash.legacy = FALSE])
             /\ Goes(r, "issue")
        ELSE Save(r, Failed(row)) /\ Ends(r)
  /\ UNCHANGED <<token, mailed, sessions, chosen, asked, uses, doubled, calls>>

\* The commit has expired the row: the tokens are made from what it is now.
Issue(r) ==
  /\ work[r].op = "issue"
  /\ sessions' = sessions \cup {[version |-> account.version, by |-> work[r].given]}
  /\ stale' = (stale \/ account.version # work[r].row.version
                     \/ account.hash.of # work[r].given)
  /\ Ends(r)
  /\ UNCHANGED <<account, token, mailed, chosen, asked, uses, doubled, calls>>

LockExpires ==
  /\ account.locked /\ account' = [account EXCEPT !.locked = FALSE]
  /\ UNCHANGED <<token, mailed, sessions, chosen, asked, uses, stale, doubled, calls, work>>

-----------------------------------------------------------------------------------
(* Logout, and the changes of the password                                         *)

BeginLogout(r, s) == Valid(s) /\ ~account.must /\ Begin(r, "logout", s.by)
EndLogout(r) ==
  /\ work[r].op = "logout"
  /\ Save(r, [work[r].row EXCEPT !.version = @ + 1])
  /\ Ends(r)
  /\ UNCHANGED <<token, mailed, sessions, chosen, asked, uses, doubled, calls>>

\* The current password is given again; it is wrong or not.
BeginChange(r, s, p) == Valid(s) /\ p = account.hash.of /\ Begin(r, "change", p)
EndChange(r) ==
  /\ work[r].op = "change"
  /\ Choose /\ Save(r, Renewed(work[r].row, FALSE))
  /\ Ends(r)
  /\ UNCHANGED <<token, mailed, sessions, asked, uses, doubled, calls>>

BeginAdminReset(r) == Begin(r, "admin", account.hash.of)
EndAdminReset(r) ==
  /\ work[r].op = "admin"
  /\ \E must \in BOOLEAN :
       Choose /\ Save(r, [Renewed(work[r].row, must) EXCEPT !.fails = 0, !.locked = FALSE])
  /\ Ends(r)
  /\ UNCHANGED <<token, mailed, sessions, asked, uses, doubled, calls>>

-----------------------------------------------------------------------------------
(* A forgotten password                                                            *)

BeginForgot(r) == Begin(r, "forgot", account.hash.of)

\* The tokens that were not used go, then a new one comes, in one transaction: on SQLite it
\* keeps another out, elsewhere the other neither sees the one nor misses the others.
Unused == {t \in Tokens : token[t] \in {"live", "old"}}
Discarded_Mailed == Unused \ mailed
Discarded == Unused
Discard(r) ==
  /\ work[r].op = "forgot"
  /\ doubled' = (doubled \/ \E o \in Requests : work[o].op = "make")
  /\ work' = [work EXCEPT ![r].op = "make", ![r].given = Discarded]
  /\ UNCHANGED <<account, token, mailed, sessions, chosen, asked, uses, stale, calls>>
Make(r) ==
  /\ work[r].op = "make" /\ asked < MaxTokens
  /\ asked' = asked + 1
  /\ token' = [t \in Tokens |-> IF t = asked + 1 THEN "live"
                                ELSE IF t \in work[r].given THEN "none" ELSE token[t]]
  /\ work' = [work EXCEPT ![r].op = "mail", ![r].given = asked + 1]
  /\ UNCHANGED <<account, mailed, sessions, chosen, uses, stale, doubled, calls>>

\* A message that cannot be sent takes its token with it.
Mail(r) ==
  /\ work[r].op = "mail"
  /\ \/ mailed' = mailed \cup {work[r].given} /\ token' = token
     \/ mailed' = mailed /\ token' = [token EXCEPT ![work[r].given] = "none"]
  /\ Ends(r)
  /\ UNCHANGED <<account, sessions, chosen, asked, uses, stale, doubled, calls>>

BeginReset(r, t) == t \in mailed /\ token[t] = "live" /\ Begin(r, "reset", t)

\* One transaction: without its token's row it is undone.
EndReset(r) ==
  /\ work[r].op = "reset" /\ Ends(r)
  /\ LET t == work[r].given IN
     IF token[t] = "none" THEN UNCHANGED <<account, token, chosen, uses, stale>>
     ELSE /\ Choose /\ Save(r, Renewed(work[r].row, FALSE))
          /\ token' = [token EXCEPT ![t] = "used"]
          /\ uses' = [uses EXCEPT ![t] = @ + 1]
  /\ UNCHANGED <<mailed, sessions, asked, doubled, calls>>

\* A token is too old for what has not loaded it yet.
TokenExpires ==
  /\ \E t \in Tokens : token[t] = "live" /\ token' = [token EXCEPT ![t] = "old"]
  /\ UNCHANGED <<account, mailed, sessions, chosen, asked, uses, stale, doubled, calls, work>>

-----------------------------------------------------------------------------------
Next ==
  \/ \E r \in Requests :
       \/ \E p \in 1..chosen : BeginLogin(r, p)
       \/ \E s \in sessions : BeginLogout(r, s) \/ \E p \in Passwords : BeginChange(r, s, p)
       \/ BeginAdminReset(r) \/ BeginForgot(r) \/ \E t \in Tokens : BeginReset(r, t)
       \/ EndLogin(r) \/ Issue(r) \/ EndLogout(r) \/ EndChange(r) \/ EndAdminReset(r)
       \/ Discard(r) \/ Make(r) \/ Mail(r) \/ EndReset(r)
  \/ LockExpires \/ TokenExpires

Spec == Init /\ [][Next]_vars

-----------------------------------------------------------------------------------
(* Properties                                                                      *)

\* «Reconnectez-vous avec votre nouveau mot de passe»: however requests follow and cross,
\* as long as none of them has gone on with a password or a version that was changed under
\* it, the sessions that are good were opened with the password that the account has.
NewPasswordOnly == ~stale => \A s \in sessions : Valid(s) => s.by = account.hash.of

\* Nor does a session that has ended come back.
EndedForGood == [][~stale' => \A s \in sessions : ~Valid(s) => ~Valid(s)']_vars

\* «Un seul jeton actif par utilisateur»: unless two requests for one were in their
\* transactions at once; and without a crossing on the password each serves for one reset.
OneResetToken ==
  /\ ~doubled => Cardinality(Unused) <= 1
  /\ ~stale => \A t \in Tokens : uses[t] <= 1
===================================================================================
