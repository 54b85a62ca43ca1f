------------------------------ MODULE Sessions ------------------------------
(***************************************************************************)
(* Sessions and refresh tokens: SessionService, and the operations of        *)
(* AuthService, UsersService and JwtAuthGuard that create, use and end       *)
(* sessions, as READ COMMITTED transactions of concurrent HTTP calls.        *)
(*                                                                         *)
(* Statements that cannot wait for anything but what their transaction has  *)
(* locked are one action with the statement before them.  A refresh token   *)
(* lives as long as its session (REFRESH_TOKEN_TTL_MS = SESSION_TTL_MS).    *)
(***************************************************************************)
EXTENDS Integers, FiniteSets

CONSTANTS
    Users, Passwords,
    Sessions, Tokens,       \* ids of rows of sessions and refresh_tokens
    Resets,                 \* rows of password_reset_tokens
    ResetOwner,             \* the user each of them was sent to
    FirstOwner,             \* the sessions there are at the start: their user
    FirstFamily,            \* the tokens there are at the start: their session
    FirstPassword,          \* each user's password at the start
    Calls, Requests, Null

VARIABLES
    status, password,       \* committed columns of users
    owner, revoked, expired,\* sessions: user; the revoked rows, of tokens too; past expires_at
    family, used, next,     \* refresh_tokens: session, used_at, replaced_by
    spent,                  \* password_reset_tokens with used_at
    lock,                   \* the call whose transaction holds a row
    call                    \* control state and uncommitted writes of each call

accounts == <<status, password, spent>>
tokens   == <<family, used, next>>
vars     == <<accounts, owner, revoked, expired, tokens, lock, call>>

Rows     == Users \cup Sessions \cup Tokens
Statuses == {"ACTIVE", "PENDING", "SUSPENDED"}

ASSUME SessionsAssumption ==
    /\ FirstOwner \in [Sessions -> Users \cup {Null}]
    /\ FirstFamily \in [Tokens -> Sessions \cup {Null}]
    /\ \A t, x \in Tokens : t # x /\ FirstFamily[t] # Null => FirstFamily[t] # FirstFamily[x]
    /\ \A t \in Tokens : FirstFamily[t] # Null => FirstOwner[FirstFamily[t]] # Null
    /\ FirstPassword \in [Users -> Passwords] /\ ResetOwner \in [Resets -> Users]
    /\ Null \notin Calls /\ Null \notin Rows
    /\ Null \notin {"ok", "rejected", "reused", "aborted"}

ASSUME SeparateRows ==
    Users \cap Sessions = {} /\ Users \cap Tokens = {} /\ Sessions \cap Tokens = {}

\* Ids never run out: whatever ids the other calls have, there is one for this call.
ASSUME IdsAssumption ==
    \A c \in Calls :
        /\ \A f \in [Calls -> Tokens \cup {Null}] :
              \E t \in Tokens : FirstFamily[t] = Null /\ \A d \in Calls \ {c} : f[d] # t
        /\ \A f \in [Calls -> Sessions \cup {Null}] :
              \E s \in Sessions : FirstOwner[s] = Null /\ \A d \in Calls \ {c} : f[d] # s

\* What each kind of request names; "session" is the sid of an access token, or the
\* session a sign-out found in the cookie.
ASSUME RequestsAssumption ==
    /\ Requests \subseteq
          [kind: {"login", "refresh", "use", "logout", "status", "reset", "change"},
           user: Users \cup {Null}, password: Passwords \cup {Null}, new: Passwords \cup {Null},
           web: BOOLEAN, session: Sessions \cup {Null}, token: Tokens \cup {Null},
           status: Statuses \cup {Null}, reset: Resets \cup {Null}]
    /\ \A q \in Requests :
          /\ q.kind \in {"login", "status", "change"} => q.user \in Users
          /\ q.kind \in {"reset", "change"} => q.new \in Passwords
          /\ q.kind = "status" => q.status \in Statuses
          /\ (q.reset \in Resets) <=> (q.kind = "reset")
          /\ (q.session \in Sessions) <=> (q.kind \in {"use", "logout", "change"})
          /\ q.token # Null => q.kind = "refresh"

----------------------------------------------------------------------------
Req(c)       == call[c].req
At(c, step)  == call[c].pc = step
Is(c, kind)  == call[c].req.kind = kind
Goto(c, step) == call' = [call EXCEPT ![c].pc = step]
LockFree(c, row) == lock[row] \in {Null, c}

Issued(t)   == family[t] # Null
Created(s)  == owner[s] # Null
Live(s)     == Created(s) /\ s \notin revoked \cup expired

\* The user whose account a request is about.
Account(q) == IF q.kind = "reset" THEN ResetOwner[q.reset] ELSE q.user

\* Ids no row and no open transaction has.
NewToken   == CHOOSE t \in Tokens : ~Issued(t) /\ \A c \in Calls : call[c].fresh # t
NewSession == CHOOSE s \in Sessions : ~Created(s)

\* What a client can present: what it had at the start or was answered with.
Answered      == {c \in Calls : call[c].answer = "ok"}
KnownTokens   == {t \in Tokens : FirstFamily[t] # Null \/ \E c \in Answered : call[c].fresh = t}
KnownSessions == {s \in Sessions : FirstOwner[s] # Null \/ \E c \in Answered : call[c].session = s}

Unlocked(c) == [r \in Rows |-> IF lock[r] = c THEN Null ELSE lock[r]]
Reply(c, answer) == call' = [call EXCEPT ![c].pc = "done", ![c].answer = answer]

\* A failed statement, a lost connection, a crash: ROLLBACK and an error.
Fail(c, answer) == lock' = Unlocked(c) /\ Reply(c, answer)

Free == {c \in Calls : At(c, "free")}

\* The request arrives.  "late" remembers that the session it relies on was already
\* revoked or expired, or its reset token spent, "had" the user's sessions.
Receive(c, q) ==
    /\ LET s == IF q.token # Null THEN family[q.token] ELSE q.session
           u == IF s # Null THEN owner[s] ELSE Account(q)
       IN  call' = [call EXCEPT ![c].req = q, ![c].pc = "check", ![c].session = s,
                      ![c].late = (s # Null /\ ~Live(s)) \/ q.reset \in spent,
                      ![c].had = {x \in Sessions : Created(x) /\ owner[x] = u}]
    /\ UNCHANGED <<accounts, owner, revoked, expired, tokens, lock>>

Begin(c) ==
    /\ c \in Free
    /\ \E q \in Requests :
          /\ q.token \in KnownTokens \cup {Null} /\ q.session \in KnownSessions \cup {Null}
          /\ q.kind = "change" => owner[q.session] = q.user
          /\ Receive(c, q)

----------------------------------------------------------------------------
(* login *)

\* One read of the user; the password is compared and the status tested on it.
LoginCheck(c) ==
    /\ At(c, "check") /\ Is(c, "login")
    /\ LET valid == /\ password[Req(c).user] = Req(c).password
                    /\ status[Req(c).user] = "ACTIVE"
       IN  \/ valid /\ Goto(c, "create")
           \/ ~valid /\ Reply(c, "rejected")
    /\ UNCHANGED <<accounts, owner, revoked, expired, tokens, lock>>

LoginCreate(c) ==
    /\ At(c, "create")
    /\ owner' = [owner EXCEPT ![NewSession] = Req(c).user]
    /\ call' = [call EXCEPT ![c].session = NewSession, ![c].pc = "issue"]
    /\ UNCHANGED <<accounts, revoked, expired, tokens, lock>>

\* Only a web client gets a refresh token.
LoginIssue(c) ==
    /\ At(c, "issue")
    /\ \/ /\ Req(c).web
          /\ family' = [family EXCEPT ![NewToken] = call[c].session]
          /\ call' = [call EXCEPT ![c].fresh = NewToken, ![c].pc = "done", ![c].answer = "ok"]
       \/ ~Req(c).web /\ Reply(c, "ok") /\ UNCHANGED family
    /\ UNCHANGED <<accounts, owner, revoked, expired, used, next, lock>>

----------------------------------------------------------------------------
(* refresh: consumeForRotation, then the user's status *)

\* Faulty variant: a used token is refused like an unknown one.
RefreshReadLenient(c) ==
    /\ At(c, "check") /\ Is(c, "refresh")
    /\ LET t == Req(c).token
       IN  \/ t \in revoked \cup used \cup {Null} /\ Reply(c, "rejected")
           \/ t # Null /\ family[t] \in expired /\ Reply(c, "rejected")
           \/ /\ t # Null /\ t \notin revoked \cup used /\ family[t] \notin expired
              /\ call' = [call EXCEPT ![c].pc = "claim", ![c].sawDead = family[t] \in revoked]
    /\ UNCHANGED <<accounts, owner, revoked, expired, tokens, lock>>

\* No cookie; or the token and its session as they are when the transaction begins.
RefreshRead(c) ==
    /\ At(c, "check") /\ Is(c, "refresh")
    /\ LET t == Req(c).token
       IN  \/ t \in revoked \cup {Null} /\ Reply(c, "rejected")
           \/ t \notin revoked /\ t \in used /\ Goto(c, "find")
           \/ t \notin revoked \cup used \cup {Null} /\ family[t] \in expired /\ Reply(c, "rejected")
           \/ /\ t \notin revoked \cup used \cup {Null} /\ family[t] \notin expired
              /\ call' = [call EXCEPT ![c].pc = "claim", ![c].sawDead = family[t] \in revoked]
    /\ UNCHANGED <<accounts, owner, revoked, expired, tokens, lock>>

\* Faulty variants: the token is claimed without testing it again; the session's
\* state as it was read is ignored.
RefreshClaimUnconditional(c) ==
    /\ At(c, "claim")
    /\ LockFree(c, Req(c).token)
    /\ lock' = [lock EXCEPT ![Req(c).token] = c]
    /\ call' = [call EXCEPT ![c].pc = "touch", ![c].fresh = NewToken]
    /\ UNCHANGED <<accounts, owner, revoked, expired, tokens>>

RefreshClaimOfDead(c) ==
    /\ At(c, "claim")
    /\ LockFree(c, Req(c).token)
    /\ \/ /\ Req(c).token \in used \cup revoked
          /\ Goto(c, "find")
          /\ UNCHANGED lock
       \/ /\ Req(c).token \notin used \cup revoked
          /\ lock' = [lock EXCEPT ![Req(c).token] = c]
          /\ call' = [call EXCEPT ![c].pc = "touch", ![c].fresh = NewToken]
    /\ UNCHANGED <<accounts, owner, revoked, expired, tokens>>

\* UPDATE ... WHERE used_at IS NULL AND revoked_at IS NULL.  Losing it counts as a replay.
\* In a session that was read as revoked the token is spent without a successor;
\* otherwise the successor is inserted, which nobody else can see yet.
RefreshClaim(c) ==
    /\ At(c, "claim")
    /\ LockFree(c, Req(c).token)
    /\ \/ /\ Req(c).token \in used \cup revoked
          /\ Goto(c, "find")
          /\ UNCHANGED <<used, lock>>
       \/ /\ Req(c).token \notin used \cup revoked /\ call[c].sawDead
          /\ used' = used \cup {Req(c).token}
          /\ Reply(c, "rejected")
          /\ UNCHANGED lock
       \/ /\ Req(c).token \notin used \cup revoked /\ ~call[c].sawDead
          /\ lock' = [lock EXCEPT ![Req(c).token] = c]
          /\ call' = [call EXCEPT ![c].pc = "touch", ![c].fresh = NewToken]
          /\ UNCHANGED used
    /\ UNCHANGED <<accounts, owner, revoked, expired, family, next>>

Rotate(c) ==
    /\ used'   = used \cup {Req(c).token}
    /\ next'   = [next EXCEPT ![Req(c).token] = call[c].fresh]
    /\ family' = [family EXCEPT ![call[c].fresh] = call[c].session]
    /\ lock'   = Unlocked(c)
    /\ Goto(c, "user")
    /\ UNCHANGED <<accounts, owner, revoked, expired>>

\* Faulty variant: the session row is not written.
RefreshCommitUntouched(c) == At(c, "touch") /\ Rotate(c)

\* The session's last_used_at is written, which waits for its row; COMMIT.
RefreshCommit(c) ==
    /\ At(c, "touch")
    /\ LockFree(c, call[c].session)
    /\ Rotate(c)

\* The rotation stands; a user who is not active any more loses the session.
RefreshUser(c) ==
    /\ At(c, "user")
    /\ \/ status[owner[call[c].session]] = "ACTIVE" /\ Reply(c, "ok")
       \/ status[owner[call[c].session]] # "ACTIVE" /\ Goto(c, "find")
    /\ UNCHANGED <<accounts, owner, revoked, expired, tokens, lock>>

----------------------------------------------------------------------------
(* the guard of every request: the user, then the session *)

UseUser(c) ==
    /\ At(c, "check") /\ Is(c, "use")
    /\ LET active == status[owner[call[c].session]] = "ACTIVE"
       IN  \/ active /\ Goto(c, "session")
           \/ ~active /\ Reply(c, "rejected")
    /\ UNCHANGED <<accounts, owner, revoked, expired, tokens, lock>>

\* A session that was not used for a minute is touched before the request goes on.
UseSession(c) ==
    /\ At(c, "session")
    /\ \/ Live(call[c].session) /\ Reply(c, "ok")
       \/ Live(call[c].session) /\ Goto(c, "stamp")
       \/ ~Live(call[c].session) /\ Reply(c, "rejected")
    /\ UNCHANGED <<accounts, owner, revoked, expired, tokens, lock>>

\* last_used_at, which waits for the session's row.
UseTouch(c) ==
    /\ At(c, "stamp")
    /\ LockFree(c, call[c].session)
    /\ Reply(c, "ok")
    /\ UNCHANGED <<accounts, owner, revoked, expired, tokens, lock>>

----------------------------------------------------------------------------
(* logout, and the changes of an account that end its sessions *)

LogoutFind(c) ==
    /\ At(c, "check") /\ Is(c, "logout")
    /\ Goto(c, "find")
    /\ UNCHANGED <<accounts, owner, revoked, expired, tokens, lock>>

\* updateStatus: refused by the rules about roles, or the user's row is locked until the
\* sessions are revoked too.
SetStatus(c) ==
    /\ At(c, "check") /\ Is(c, "status")
    /\ \/ Reply(c, "rejected") /\ UNCHANGED <<status, lock>>
       \/ /\ Req(c).status = "ACTIVE" /\ LockFree(c, Req(c).user)
          /\ status' = [status EXCEPT ![Req(c).user] = "ACTIVE"]
          /\ Reply(c, "ok")
          /\ UNCHANGED lock
       \/ /\ Req(c).status # "ACTIVE" /\ LockFree(c, Req(c).user)
          /\ lock' = [lock EXCEPT ![Req(c).user] = c]
          /\ Goto(c, "find")
          /\ UNCHANGED status
    /\ UNCHANGED <<password, spent, owner, revoked, expired, tokens>>

\* resetPassword: the reset token is read before the transaction.  It is refused when
\* it is used, too old, or the new password against the policy.
ResetCheck(c) ==
    /\ At(c, "check") /\ Is(c, "reset")
    /\ \/ Reply(c, "rejected")
       \/ Req(c).reset \notin spent /\ Goto(c, "write")
    /\ UNCHANGED <<accounts, owner, revoked, expired, tokens, lock>>

\* changePassword: the current password is compared before it is replaced.
ChangeCheck(c) ==
    /\ At(c, "check") /\ Is(c, "change")
    /\ \/ Reply(c, "rejected")
       \/ password[Req(c).user] = Req(c).password /\ Goto(c, "write")
    /\ UNCHANGED <<accounts, owner, revoked, expired, tokens, lock>>

\* The password, and used_at of a reset token; the sessions follow in a transaction
\* of their own.
WritePassword(c) ==
    /\ At(c, "write")
    /\ LockFree(c, Account(Req(c)))
    /\ password' = [password EXCEPT ![Account(Req(c))] = Req(c).new]
    /\ spent' = IF Is(c, "reset") THEN spent \cup {Req(c).reset} ELSE spent
    /\ Goto(c, "find")
    /\ UNCHANGED <<status, owner, revoked, expired, tokens, lock>>

----------------------------------------------------------------------------
(* revokeSession and revokeAllSessionsForUser *)

Outcome(c) ==
    CASE Is(c, "refresh") -> IF call[c].fresh = Null THEN "reused" ELSE "rejected"
      [] OTHER            -> "ok"

\* Faulty variant: every revocation ends the session of the request only.
RevocableBySession(c) == {call[c].session}

\* The sessions to end: one, or those of the user but the one a password change keeps.
Revocable(c) ==
    CASE Is(c, "refresh") \/ Is(c, "logout") -> {call[c].session}
      [] OTHER -> {s \in Sessions : Created(s) /\ owner[s] = Account(Req(c)) /\ s # call[c].session}

\* Faulty variant: only sessions that can still be refreshed are looked for.
RevokeFindRefreshable(c) ==
    /\ At(c, "find")
    /\ LET live == {family[t] : t \in Tokens \ (used \cup revoked)}
       IN  call' = [call EXCEPT ![c].todo = (Revocable(c) \ revoked) \cap live, ![c].pc = "kill"]
    /\ UNCHANGED <<accounts, owner, revoked, expired, tokens, lock>>

\* The sessions that are not revoked, by what is committed now.
RevokeFind(c) ==
    /\ At(c, "find")
    /\ call' = [call EXCEPT ![c].todo = Revocable(c) \ revoked, ![c].pc = "kill"]
    /\ UNCHANGED <<accounts, owner, revoked, expired, tokens, lock>>

ToLock(c)   == {s \in call[c].todo : lock[s] # c}
TokensOf(c) == {t \in Tokens : family[t] \in call[c].todo /\ t \notin revoked}

\* One UPDATE, which locks the rows one after the other.  The next one, of their
\* tokens, sees the tokens there are when it begins, whatever it waits for then.
RevokeSessions(c) ==
    /\ At(c, "kill")
    /\ \/ \E s \in ToLock(c) : LockFree(c, s) /\ lock' = [lock EXCEPT ![s] = c] /\ UNCHANGED call
       \/ /\ ToLock(c) = {}
          /\ call' = [call EXCEPT ![c].pc = "tokens", ![c].found = TokensOf(c)]
          /\ UNCHANGED lock
    /\ UNCHANGED <<accounts, owner, revoked, expired, tokens>>

\* The tokens of those sessions; COMMIT.
RevokeTokens(c) ==
    /\ At(c, "tokens")
    /\ \A t \in call[c].found : LockFree(c, t)
    /\ revoked' = revoked \cup call[c].todo \cup call[c].found
    /\ status' = IF Is(c, "status") THEN [status EXCEPT ![Req(c).user] = Req(c).status]
                                    ELSE status
    /\ lock' = Unlocked(c)
    /\ Reply(c, Outcome(c))
    /\ UNCHANGED <<password, spent, owner, expired, tokens>>

----------------------------------------------------------------------------
\* A session reaches its expires_at.
Expire(s) ==
    /\ Created(s)
    /\ expired' = expired \cup {s}
    /\ UNCHANGED <<accounts, owner, revoked, tokens, lock, call>>

Abort(c) ==
    /\ call[c].pc \notin {"free", "done"}
    /\ Fail(c, "aborted")
    /\ UNCHANGED <<accounts, owner, revoked, expired, tokens>>

\* The calls whose transactions the next statement of c waits for.
WaitsFor(c) ==
    LET rows == CASE At(c, "claim")  -> {Req(c).token}
                  [] At(c, "touch") \/ At(c, "stamp") -> {call[c].session}
                  [] At(c, "kill")   -> call[c].todo
                  [] At(c, "tokens") -> call[c].found
                  [] At(c, "write") \/ (At(c, "check") /\ Is(c, "status")) -> {Account(Req(c))}
                  [] OTHER           -> {}
    IN  {lock[r] : r \in rows} \ {Null, c}

\* c waits, directly or not, for itself.
Deadlocked(c) ==
    \E S \in SUBSET Calls :
        /\ c \in S
        /\ \A d \in S : S \cap WaitsFor(d) # {} /\ \E e \in S : d \in WaitsFor(e)

AbortDeadlocked(c) ==
    /\ Deadlocked(c)
    /\ Fail(c, "aborted")
    /\ UNCHANGED <<accounts, owner, revoked, expired, tokens>>

Step(c) ==
    \/ LoginCheck(c) \/ LoginCreate(c) \/ LoginIssue(c)
    \/ RefreshRead(c) \/ RefreshClaim(c) \/ RefreshCommit(c) \/ RefreshUser(c)
    \/ UseUser(c) \/ UseSession(c) \/ UseTouch(c)
    \/ LogoutFind(c) \/ SetStatus(c) \/ ResetCheck(c) \/ ChangeCheck(c) \/ WritePassword(c)
    \/ RevokeFind(c) \/ RevokeSessions(c) \/ RevokeTokens(c)

Finished == (\A c \in Calls : call[c].pc = "done") /\ UNCHANGED vars

Serve == \E c \in Calls : Step(c) \/ Abort(c) \/ AbortDeadlocked(c)

Next ==
    \/ Serve
    \/ \E c \in Calls : Begin(c)
    \/ \E s \in Sessions : Expire(s)
    \/ Finished

Init ==
    /\ status   = [u \in Users |-> "ACTIVE"]
    /\ password = FirstPassword
    /\ owner    = FirstOwner
    /\ revoked  = {}
    /\ expired  = {}
    /\ family   = FirstFamily
    /\ used     = {}
    /\ next     = [t \in Tokens |-> Null]
    /\ spent    = {}
    /\ lock     = [r \in Rows |-> Null]
    /\ call     = [c \in Calls |-> [req |-> Null, pc |-> "free", session |-> Null, fresh |-> Null,
                      sawDead |-> FALSE, todo |-> {}, found |-> {}, answer |-> Null,
                      late |-> FALSE, had |-> {}]]

Spec == Init /\ [][Next]_vars

----------------------------------------------------------------------------
Steps   == {"free", "check", "create", "issue", "claim", "touch", "user", "session", "stamp",
            "write", "find", "kill", "tokens", "done"}
Answers == {Null, "ok", "rejected", "reused", "aborted"}

SessionsTypeOK ==
    /\ status \in [Users -> Statuses] /\ password \in [Users -> Passwords]
    /\ owner \in [Sessions -> Users \cup {Null}]
    /\ revoked \subseteq Sessions \cup Tokens /\ expired \subseteq Sessions
    /\ family \in [Tokens -> Sessions \cup {Null}]
    /\ used \subseteq Tokens /\ next \in [Tokens -> Tokens \cup {Null}]
    /\ spent \subseteq Resets
    /\ lock \in [Rows -> Calls \cup {Null}]
    /\ call \in [Calls -> [req: Requests \cup {Null}, pc: Steps, session: Sessions \cup {Null},
          fresh: Tokens \cup {Null}, sawDead: BOOLEAN, todo: SUBSET Sessions,
          found: SUBSET Tokens, answer: Answers, late: BOOLEAN, had: SUBSET Sessions]]

\* "A refresh token is consumed **at most once**, even under concurrent requests"
\* (session.service.ts:49): two refreshes of one token never both succeed, and at any
\* moment a session has at most one token that could still be rotated, so the tokens of
\* a session form a line and never branch.
ConsumedAtMostOnce ==
    /\ \A c, d \in Calls :
          c # d /\ call[c].answer = "ok" /\ call[d].answer = "ok"
          /\ call[c].req.kind = "refresh" /\ call[d].req.kind = "refresh"
          => call[c].req.token # call[d].req.token
    /\ \A s \in Sessions :
          Cardinality({t \in Tokens : family[t] = s /\ t \notin used \cup revoked}) <= 1

\* "Revocation is per session (the family)" (session.service.ts:51): it takes the tokens
\* of a session together, whatever rotation overlaps it.  The successor of a revoked
\* token is revoked, although the revocation may have looked for the tokens before
\* the successor was committed.
FamilyDiesTogether ==
    \A t \in Tokens \cap revoked : next[t] # Null => next[t] \in revoked

\* "A replayed token additionally revokes the whole session family"
\* (auth.service.ts:519-521): whenever one of two refreshes of a token was answered with
\* its successor and the other was answered too, in whatever order their statements ran,
\* the session is over: the winner's as well.
ReplayEndsSession ==
    \A c, d \in Calls :
        /\ c # d /\ call[c].answer = "ok" /\ call[d].answer \notin {Null, "aborted"}
        /\ call[c].req.kind = "refresh" /\ call[d].req.kind = "refresh"
        /\ call[c].req.token = call[d].req.token
        => call[c].session \in revoked \cup expired

\* A suspension, a password reset or a password change that is answered with success has
\* ended every session the user had when it arrived, but the one a change keeps
\* (users.service.ts:213-214, auth.service.ts:225-226, 277-280).  The end is "immediately
\* effective" (jwt-auth.guard.ts:60-63): a request or a refresh that arrives after it is
\* refused, also one with a token the revocation missed because the login had not issued
\* it yet.  So is a reset by a token spent before it arrives, "single-use"
\* (auth.service.ts:178); of two resets at the same time both may succeed.
AccessChangeEndsSessions ==
    \A c \in Calls : call[c].answer = "ok" =>
        /\ call[c].req.kind \in {"status", "reset", "change"} /\ call[c].req.status # "ACTIVE"
           => \A s \in call[c].had : s \in revoked \/ s = call[c].session
        /\ call[c].req.kind \in {"refresh", "use", "reset"} => ~call[c].late

\* A suspended account holds no session that "a later reactivation could make usable
\* again" (users.service.ts:213-214).
InactiveHasNoSession ==
    \A s \in Sessions : Created(s) /\ status[owner[s]] # "ACTIVE" => s \in revoked

=============================================================================
