--------------------------- MODULE SessionsProofs ---------------------------
(***************************************************************************)
(* Proofs about module Sessions, for any users, sessions, tokens, requests  *)
(* and number of concurrent calls.                                          *)
(*                                                                         *)
(* The argument is one of rely and guarantee: CallInv(c) is what a call      *)
(* knows of itself and of the tables, Rely(d) what a step of another call    *)
(* leaves to call d (Stable), and each step re-establishes CallInv of the    *)
(* call that takes it.                                                      *)
(***************************************************************************)
EXTENDS Sessions, FiniteSetTheorems, TLAPS

CallStates ==
    [req: Requests \cup {Null}, pc: Steps, session: Sessions \cup {Null},
     fresh: Tokens \cup {Null}, sawDead: BOOLEAN, todo: SUBSET Sessions,
     found: SUBSET Tokens, answer: Answers, late: BOOLEAN, had: SUBSET Sessions]

\* The ids of sessions and tokens are given out once: the token a call issues is its
\* own, and an id no call and no row of the start has is still free.
IdsInv ==
    /\ \A c, d \in Calls : c # d /\ call[c].fresh # Null => call[c].fresh # call[d].fresh
    /\ \A t \in Tokens : Issued(t) => FirstFamily[t] # Null \/ \E c \in Calls : call[c].fresh = t
    /\ \A t \in Tokens : FirstFamily[t] # Null =>
          family[t] = FirstFamily[t] /\ \A c \in Calls : call[c].fresh # t
    /\ \A s \in Sessions : Created(s) => FirstOwner[s] # Null \/ \E c \in Calls : call[c].session = s
    /\ \A s \in Sessions : FirstOwner[s] # Null => Created(s)

\* The tokens of a session form a line, of which at most the last is not used, and which
\* is revoked together with the session and to its end.
LineInv ==
    /\ \A t \in Tokens : Issued(t) => Created(family[t])
    /\ \A t \in used : Issued(t)
    /\ \A t \in Tokens : next[t] # Null =>
          t \in used /\ Issued(next[t]) /\ family[next[t]] = family[t]
    /\ \A t \in Tokens \cap revoked :
          /\ Issued(t) /\ family[t] \in revoked
          /\ next[t] # Null => next[t] \in revoked
    /\ \A t, x \in Tokens :
          t # x /\ Issued(t) /\ family[t] = family[x] => t \in used \cup revoked \/ x \in used \cup revoked
    /\ \A c, d \in Calls :
          c # d /\ At(c, "issue") /\ At(d, "issue") => call[c].session # call[d].session

----------------------------------------------------------------------------
(* What is known of one call. *)

FreeInv(c) == At(c, "free") =>
    /\ call[c].session = Null /\ call[c].fresh = Null /\ call[c].answer = Null
    /\ call[c].todo = {} /\ call[c].found = {} /\ ~call[c].sawDead

ArrivedInv(c) == ~At(c, "free") =>
    /\ Req(c) \in Requests
    /\ ~At(c, "done") => call[c].answer = Null
    /\ call[c].session # Null => Created(call[c].session)
    /\ Req(c).kind \in {"use", "logout", "change"} => call[c].session = Req(c).session
    /\ Req(c).kind \in {"status", "reset"} => call[c].session = Null
    /\ Req(c).kind \notin {"login", "refresh"} => call[c].fresh = Null
    /\ Is(c, "logout") => call[c].pc \in {"check", "find", "kill", "tokens", "done"}

\* The session a login creates has no token before it issues one.
LoginInv(c) == ~At(c, "free") /\ Is(c, "login") =>
    /\ call[c].pc \in {"check", "create", "issue", "done"}
    /\ call[c].pc \in {"check", "create"} => call[c].session = Null
    /\ ~At(c, "done") => call[c].fresh = Null
    /\ At(c, "issue") => call[c].session # Null /\ \A t \in Tokens : family[t] # call[c].session
    /\ call[c].answer = "ok" /\ call[c].fresh # Null => Issued(call[c].fresh)

\* A refresh that is refused, for whatever reason, leaves a dead session behind.
RefusedInv(c) ==
    /\ call[c].answer \in {"rejected", "reused"} /\ Req(c).token # Null =>
          call[c].session \in revoked \cup expired
    /\ call[c].pc \in {"kill", "tokens"} => call[c].session \in revoked \cup call[c].todo

\* A refresh holds the row of the token it claimed until it commits the successor.
RefreshInv(c) == ~At(c, "free") /\ Is(c, "refresh") =>
    /\ call[c].pc \in {"check", "claim", "touch", "user", "find", "kill", "tokens", "done"}
    /\ IF Req(c).token = Null
       THEN call[c].session = Null /\ call[c].pc \in {"check", "done"} /\ call[c].answer # "ok"
       ELSE Issued(Req(c).token) /\ call[c].session = family[Req(c).token]
    /\ call[c].pc \in {"check", "claim"} => call[c].fresh = Null
    /\ call[c].late => call[c].session \in revoked \cup expired
    /\ At(c, "claim") /\ call[c].late => call[c].sawDead
    /\ call[c].sawDead => call[c].session \in revoked
    /\ At(c, "touch") =>
          /\ call[c].fresh # Null /\ ~Issued(call[c].fresh) /\ ~call[c].late
          /\ lock[Req(c).token] = c /\ Req(c).token \notin used \cup revoked
    /\ At(c, "user") \/ call[c].answer = "ok" =>
          /\ Req(c).token \in used /\ next[Req(c).token] = call[c].fresh
          /\ call[c].fresh # Null /\ ~call[c].late
    /\ RefusedInv(c)

UseInv(c) == ~At(c, "free") /\ Is(c, "use") =>
    /\ call[c].pc \in {"check", "session", "stamp", "done"}
    /\ call[c].late => call[c].session \in revoked \cup expired
    /\ At(c, "stamp") \/ call[c].answer = "ok" => ~call[c].late

\* A call that ends the sessions of a user has, from the moment it looked for them, all
\* it has to end among the revoked or on its list.
Doomed(c) == call[c].had \ {call[c].session}

EndsInv(c) == ~At(c, "free") /\ Req(c).kind \in {"status", "reset", "change"} =>
    /\ call[c].pc \in {"check", "write", "find", "kill", "tokens", "done"}
    /\ Is(c, "status") => ~At(c, "write")
    /\ \A s \in call[c].had : Created(s) /\ owner[s] = Account(Req(c))
    /\ call[c].pc \in {"kill", "tokens"} => Doomed(c) \subseteq revoked \cup call[c].todo
    /\ call[c].answer = "ok" /\ Req(c).status # "ACTIVE" => Doomed(c) \subseteq revoked
    /\ Is(c, "reset") =>
          /\ call[c].late => Req(c).reset \in spent
          /\ call[c].pc \in {"write", "find", "kill", "tokens"} \/ call[c].answer = "ok" => ~call[c].late

\* A revocation holds the sessions on its list, so that no token it found can get a
\* successor it did not find.
RevokeInv(c) == At(c, "tokens") =>
    /\ \A s \in call[c].todo : lock[s] = c
    /\ \A t \in call[c].found :
          /\ Issued(t) /\ family[t] \in call[c].todo
          /\ next[t] # Null => next[t] \in revoked \cup call[c].found

CallInv(c) ==
    /\ FreeInv(c) /\ ArrivedInv(c) /\ LoginInv(c) /\ RefreshInv(c)
    /\ UseInv(c) /\ EndsInv(c) /\ RevokeInv(c)

Inv ==
    /\ SessionsTypeOK
    /\ IdsInv
    /\ LineInv
    /\ \A c \in Calls : CallInv(c)

----------------------------------------------------------------------------
(* How a step changes its own call. *)

Others(c) == \A d \in Calls \ {c} : call'[d] = call[d]

\* Call c goes on at step pc with an answer, and keeps everything else.
Moved(c, pc, answer) ==
    /\ Others(c)
    /\ call'[c].pc = pc /\ call'[c].answer = answer
    /\ call'[c].req = call[c].req /\ call'[c].session = call[c].session
    /\ call'[c].fresh = call[c].fresh /\ call'[c].sawDead = call[c].sawDead
    /\ call'[c].todo = call[c].todo /\ call'[c].found = call[c].found
    /\ call'[c].late = call[c].late /\ call'[c].had = call[c].had

LEMMA CallTyped ==
    ASSUME SessionsTypeOK
    PROVE  call \in [Calls -> CallStates]
BY DEF SessionsTypeOK, CallStates

LEMMA GotoMoves ==
    ASSUME SessionsTypeOK, NEW c \in Calls, NEW step \in Steps, Goto(c, step)
    PROVE  Moved(c, step, call[c].answer) /\ call' \in [Calls -> CallStates]
BY CallTyped DEF Goto, Moved, Others, CallStates

LEMMA ReplyMoves ==
    ASSUME SessionsTypeOK, NEW c \in Calls, NEW answer \in Answers, Reply(c, answer)
    PROVE  Moved(c, "done", answer) /\ call' \in [Calls -> CallStates]
<1>1. call \in [Calls -> CallStates] /\ "done" \in Steps
  BY CallTyped DEF Steps
<1>2. [call[c] EXCEPT !.pc = "done", !.answer = answer] \in CallStates
  BY <1>1 DEF CallStates
<1>. QED  BY <1>1, <1>2 DEF Reply, Moved, Others, CallStates

----------------------------------------------------------------------------
(* What a step leaves to the other calls. *)

Keeps(c) == \A r \in Rows, d \in Calls \ {c} : lock[r] = d => lock'[r] = d

LEMMA TakeKeeps ==
    ASSUME SessionsTypeOK, NEW c \in Calls, NEW row \in Rows, LockFree(c, row),
           lock' = [lock EXCEPT ![row] = c]
    PROVE  Keeps(c) /\ lock' \in [Rows -> Calls \cup {Null}]
BY SessionsAssumption DEF Keeps, LockFree, SessionsTypeOK

LEMMA UnlockKeeps ==
    ASSUME SessionsTypeOK, NEW c \in Calls, lock' = Unlocked(c)
    PROVE  Keeps(c) /\ lock' \in [Rows -> Calls \cup {Null}]
BY DEF Keeps, Unlocked, SessionsTypeOK

\* The tables only grow, and what call d has locked stays as it is.
Rely(d) ==
    /\ call'[d] = call[d]
    /\ \A t \in Tokens : Issued(t) => family'[t] = family[t]
    /\ \A s \in Sessions : Created(s) => owner'[s] = owner[s]
    /\ revoked \subseteq revoked' /\ expired \subseteq expired'
    /\ used \subseteq used' /\ spent \subseteq spent'
    /\ \A t \in used : next'[t] = next[t]
    /\ \A r \in Rows : lock[r] = d => lock'[r] = d
    /\ \A t \in Tokens : lock[t] = d /\ t \notin used \cup revoked => t \notin used' \cup revoked'
    /\ \A t \in Tokens : ~Issued(t) /\ family'[t] # Null =>
          t # call[d].fresh /\ (At(d, "issue") => family'[t] # call[d].session)
    /\ \A t \in Tokens : Issued(t) /\ lock[family[t]] = d => next'[t] = next[t]

LEMMA Stable ==
    ASSUME Inv, SessionsTypeOK', NEW d \in Calls, Rely(d)
    PROVE  CallInv(d)'
<1>0. CallInv(d) /\ SessionsTypeOK /\ call \in [Calls -> CallStates]
  BY CallTyped DEF Inv
<1>. /\ call[d].session \in Sessions \cup {Null} /\ call[d].fresh \in Tokens \cup {Null}
     /\ call[d].todo \in SUBSET Sessions /\ call[d].found \in SUBSET Tokens
     /\ call[d].had \in SUBSET Sessions
  BY <1>0 DEF CallStates
<1>r. call[d].pc # "free" => Req(d) \in Requests
  BY <1>0 DEF CallInv, ArrivedInv, At
<1>t. call[d].pc # "free" => Req(d).token \in Tokens \cup {Null}
  BY <1>r, RequestsAssumption
<1>1. FreeInv(d)'
  BY <1>0 DEF CallInv, FreeInv, Rely, At
<1>2. ArrivedInv(d)'
  BY <1>0, <1>r DEF CallInv, ArrivedInv, Rely, At, Is, Req, Created
<1>3. LoginInv(d)'
  BY <1>0, SessionsAssumption DEF CallInv, LoginInv, Rely, At, Is, Req, Issued, SessionsTypeOK
<1>4. RefreshInv(d)'
  BY <1>0, <1>t, SessionsAssumption
  DEF CallInv, RefreshInv, RefusedInv, Rely, At, Is, Req, Issued, SessionsTypeOK, Rows
<1>5. UseInv(d)'
  BY <1>0 DEF CallInv, UseInv, Rely, At, Is, Req
<1>6. EndsInv(d)'
  BY <1>0 DEF CallInv, EndsInv, Doomed, Rely, At, Is, Req, Created, Account
<1>7. RevokeInv(d)'
  <2>. SUFFICES ASSUME At(d, "tokens")
                PROVE  /\ \A s \in call[d].todo : lock'[s] = d
                       /\ \A t \in call[d].found :
                             /\ Issued(t)' /\ family'[t] \in call[d].todo
                             /\ next'[t] # Null => next'[t] \in revoked' \cup call[d].found
    BY DEF RevokeInv, Rely, At
  <2>1. \A s \in call[d].todo : lock[s] = d
    BY <1>0 DEF CallInv, RevokeInv
  <2>2. ASSUME NEW t \in call[d].found
        PROVE  /\ Issued(t)' /\ family'[t] \in call[d].todo
               /\ next'[t] # Null => next'[t] \in revoked' \cup call[d].found
    BY <2>1, <1>0 DEF CallInv, RevokeInv, Rely, Issued
  <2>. QED  BY <2>1, <2>2 DEF Rely, Rows
<1>. QED  BY <1>1, <1>2, <1>3, <1>4, <1>5, <1>6, <1>7 DEF CallInv

LEMMA StepPreserves ==
    ASSUME Inv, NEW c \in Calls, SessionsTypeOK', IdsInv', LineInv', CallInv(c)',
           \A d \in Calls \ {c} : Rely(d)
    PROVE  Inv'
BY Stable DEF Inv

LEMMA QuietRely ==
    ASSUME SessionsTypeOK, UNCHANGED <<owner, revoked, expired, tokens>>, spent \subseteq spent',
           NEW c \in Calls, Others(c), Keeps(c)
    PROVE  \A d \in Calls \ {c} : Rely(d)
BY DEF Rely, Others, Keeps, tokens, Issued, Created

\* A step that writes neither sessions nor tokens.
Quiet(c) ==
    /\ Others(c)
    /\ call'[c].fresh = call[c].fresh
    /\ call'[c].session = call[c].session
    /\ call'[c].pc # "issue"

LEMMA QuietTables ==
    ASSUME Inv, UNCHANGED <<owner, revoked, tokens>>, NEW c \in Calls, Quiet(c)
    PROVE  IdsInv' /\ LineInv'
<1>1. \A d \in Calls : call'[d].fresh = call[d].fresh /\ call'[d].session = call[d].session
  BY DEF Quiet, Others
<1>2. \A d \in Calls : call'[d].pc = "issue" => call[d].pc = "issue"
  BY DEF Quiet, Others
<1>3. IdsInv'
  BY <1>1 DEF Inv, IdsInv, Issued, Created, tokens
<1>4. LineInv'
  BY <1>1, <1>2 DEF Inv, LineInv, Issued, Created, At, tokens
<1>. QED  BY <1>3, <1>4

\* The same, put together: it remains to look at the call itself.
LEMMA QuietStep ==
    ASSUME Inv, UNCHANGED <<owner, revoked, expired, tokens>>, spent \subseteq spent',
           NEW c \in Calls, Quiet(c), Keeps(c), SessionsTypeOK', CallInv(c)'
    PROVE  Inv'
BY QuietRely, QuietTables, StepPreserves DEF Inv, Quiet


\* The step a call is at tells what kind of request it serves.
LEMMA KindAt ==
    ASSUME NEW c \in Calls, CallInv(c)
    PROVE  /\ call[c].pc \in {"create", "issue"} => Is(c, "login")
           /\ call[c].pc \in {"claim", "touch", "user"} => Is(c, "refresh")
           /\ call[c].pc \in {"session", "stamp"} => Is(c, "use")
           /\ call[c].pc = "write" => Req(c).kind \in {"reset", "change"}
           /\ call[c].pc \in {"find", "kill", "tokens"} =>
                 Req(c).kind \in {"refresh", "logout", "status", "reset", "change"}
<1>1. CASE call[c].pc = "free"
  BY <1>1
<1>2. CASE call[c].pc # "free"
  <2>1. Req(c) \in Requests
    BY <1>2 DEF CallInv, ArrivedInv, At
  <2>2. Req(c).kind \in {"login", "refresh", "use", "logout", "status", "reset", "change"}
    BY <2>1, RequestsAssumption
  <2>. QED
    BY <1>2, <2>2 DEF CallInv, ArrivedInv, LoginInv, RefreshInv, UseInv, EndsInv, At, Is, Req
<1>. QED  BY <1>1, <1>2

\* ... or only the call.
LEMMA LocalStep ==
    ASSUME Inv, UNCHANGED <<accounts, owner, revoked, expired, tokens, lock>>, NEW c \in Calls,
           call' \in [Calls -> CallStates], Quiet(c), CallInv(c)'
    PROVE  Inv'
<1>1. SessionsTypeOK' /\ Keeps(c)
  BY DEF Inv, SessionsTypeOK, CallStates, accounts, tokens, Keeps
<1>. QED  BY <1>1, QuietStep DEF accounts, tokens

----------------------------------------------------------------------------
(* Steps that write neither sessions nor tokens. *)

LEMMA LoginCheckInv ==
    ASSUME Inv, NEW c \in Calls, LoginCheck(c)
    PROVE  Inv'
<1>. /\ SessionsTypeOK /\ CallInv(c) /\ call \in [Calls -> CallStates]
     /\ call[c].pc = "check" /\ Is(c, "login")
  BY CallTyped DEF Inv, LoginCheck, At
<1>1. \/ Moved(c, "create", call[c].answer) /\ call' \in [Calls -> CallStates]
      \/ Moved(c, "done", "rejected") /\ call' \in [Calls -> CallStates]
  BY GotoMoves, ReplyMoves DEF LoginCheck, Steps, Answers
<1>2. Quiet(c)
  BY <1>1 DEF Quiet, Moved
<1>3. CallInv(c)'
  BY <1>1, KindAt DEF LoginCheck, Moved, Live, accounts, tokens, CallInv, FreeInv, ArrivedInv, LoginInv, RefreshInv, RefusedInv,
     UseInv, EndsInv, Doomed, RevokeInv, At, Is, Req, Issued, Created
<1>. QED  BY <1>1, <1>2, <1>3, LocalStep DEF LoginCheck

LEMMA RefreshUserInv ==
    ASSUME Inv, NEW c \in Calls, RefreshUser(c)
    PROVE  Inv'
<1>. /\ SessionsTypeOK /\ CallInv(c) /\ call \in [Calls -> CallStates]
     /\ call[c].pc = "user"
  BY CallTyped DEF Inv, RefreshUser, At
<1>1. \/ Moved(c, "done", "ok") /\ call' \in [Calls -> CallStates]
      \/ Moved(c, "find", call[c].answer) /\ call' \in [Calls -> CallStates]
  BY GotoMoves, ReplyMoves DEF RefreshUser, Steps, Answers
<1>2. Quiet(c)
  BY <1>1 DEF Quiet, Moved
<1>3. CallInv(c)'
  BY <1>1, KindAt DEF RefreshUser, Moved, Live, accounts, tokens, CallInv, FreeInv, ArrivedInv, LoginInv, RefreshInv, RefusedInv,
     UseInv, EndsInv, Doomed, RevokeInv, At, Is, Req, Issued, Created
<1>. QED  BY <1>1, <1>2, <1>3, LocalStep DEF RefreshUser

LEMMA UseUserInv ==
    ASSUME Inv, NEW c \in Calls, UseUser(c)
    PROVE  Inv'
<1>. /\ SessionsTypeOK /\ CallInv(c) /\ call \in [Calls -> CallStates]
     /\ call[c].pc = "check" /\ Is(c, "use")
  BY CallTyped DEF Inv, UseUser, At
<1>1. \/ Moved(c, "session", call[c].answer) /\ call' \in [Calls -> CallStates]
      \/ Moved(c, "done", "rejected") /\ call' \in [Calls -> CallStates]
  BY GotoMoves, ReplyMoves DEF UseUser, Steps, Answers
<1>2. Quiet(c)
  BY <1>1 DEF Quiet, Moved
<1>3. CallInv(c)'
  BY <1>1, KindAt DEF UseUser, Moved, Live, accounts, tokens, CallInv, FreeInv, ArrivedInv, LoginInv, RefreshInv, RefusedInv,
     UseInv, EndsInv, Doomed, RevokeInv, At, Is, Req, Issued, Created
<1>. QED  BY <1>1, <1>2, <1>3, LocalStep DEF UseUser

LEMMA UseSessionInv ==
    ASSUME Inv, NEW c \in Calls, UseSession(c)
    PROVE  Inv'
<1>. /\ SessionsTypeOK /\ CallInv(c) /\ call \in [Calls -> CallStates]
     /\ call[c].pc = "session"
  BY CallTyped DEF Inv, UseSession, At
<1>k. Is(c, "use") /\ (Live(call[c].session) => ~call[c].late)
  BY KindAt DEF CallInv, UseInv, Live, At
<1>1. \/ Moved(c, "done", "ok") /\ ~call[c].late /\ call' \in [Calls -> CallStates]
      \/ Moved(c, "stamp", call[c].answer) /\ ~call[c].late /\ call' \in [Calls -> CallStates]
      \/ Moved(c, "done", "rejected") /\ call' \in [Calls -> CallStates]
  BY GotoMoves, ReplyMoves, <1>k DEF UseSession, Steps, Answers
<1>2. Quiet(c)
  BY <1>1 DEF Quiet, Moved
<1>3. CallInv(c)'
  BY <1>1, KindAt DEF UseSession, Moved, accounts, tokens, CallInv, FreeInv, ArrivedInv, LoginInv, RefreshInv, RefusedInv,
     UseInv, EndsInv, Doomed, RevokeInv, At, Is, Req, Issued, Created
<1>. QED  BY <1>1, <1>2, <1>3, LocalStep DEF UseSession

LEMMA UseTouchInv ==
    ASSUME Inv, NEW c \in Calls, UseTouch(c)
    PROVE  Inv'
<1>. /\ SessionsTypeOK /\ CallInv(c) /\ call \in [Calls -> CallStates]
     /\ call[c].pc = "stamp"
  BY CallTyped DEF Inv, UseTouch, At
<1>1. Moved(c, "done", "ok") /\ call' \in [Calls -> CallStates]
  BY GotoMoves, ReplyMoves DEF UseTouch, Steps, Answers
<1>2. Quiet(c)
  BY <1>1 DEF Quiet, Moved
<1>3. CallInv(c)'
  BY <1>1, KindAt DEF UseTouch, Moved, Live, accounts, tokens, CallInv, FreeInv, ArrivedInv, LoginInv, RefreshInv, RefusedInv,
     UseInv, EndsInv, Doomed, RevokeInv, At, Is, Req, Issued, Created
<1>. QED  BY <1>1, <1>2, <1>3, LocalStep DEF UseTouch

LEMMA LogoutFindInv ==
    ASSUME Inv, NEW c \in Calls, LogoutFind(c)
    PROVE  Inv'
<1>. /\ SessionsTypeOK /\ CallInv(c) /\ call \in [Calls -> CallStates]
     /\ call[c].pc = "check" /\ Is(c, "logout")
  BY CallTyped DEF Inv, LogoutFind, At
<1>1. Moved(c, "find", call[c].answer) /\ call' \in [Calls -> CallStates]
  BY GotoMoves, ReplyMoves DEF LogoutFind, Steps, Answers
<1>2. Quiet(c)
  BY <1>1 DEF Quiet, Moved
<1>3. CallInv(c)'
  BY <1>1, KindAt DEF LogoutFind, Moved, Live, accounts, tokens, CallInv, FreeInv, ArrivedInv, LoginInv, RefreshInv, RefusedInv,
     UseInv, EndsInv, Doomed, RevokeInv, At, Is, Req, Issued, Created
<1>. QED  BY <1>1, <1>2, <1>3, LocalStep DEF LogoutFind

LEMMA ResetCheckInv ==
    ASSUME Inv, NEW c \in Calls, ResetCheck(c)
    PROVE  Inv'
<1>. /\ SessionsTypeOK /\ CallInv(c) /\ call \in [Calls -> CallStates]
     /\ call[c].pc = "check" /\ Is(c, "reset")
  BY CallTyped DEF Inv, ResetCheck, At
<1>k. Req(c).reset \notin spent => ~call[c].late
  BY DEF CallInv, EndsInv, Is, At, Req
<1>1. \/ Moved(c, "done", "rejected") /\ call' \in [Calls -> CallStates]
      \/ Moved(c, "write", call[c].answer) /\ ~call[c].late /\ call' \in [Calls -> CallStates]
  BY GotoMoves, ReplyMoves, <1>k DEF ResetCheck, Steps, Answers
<1>2. Quiet(c)
  BY <1>1 DEF Quiet, Moved
<1>3. CallInv(c)'
  BY <1>1, KindAt DEF ResetCheck, Moved, Live, accounts, tokens, CallInv, FreeInv, ArrivedInv, LoginInv, RefreshInv, RefusedInv,
     UseInv, EndsInv, Doomed, RevokeInv, At, Is, Req, Issued, Created
<1>. QED  BY <1>1, <1>2, <1>3, LocalStep DEF ResetCheck

LEMMA ChangeCheckInv ==
    ASSUME Inv, NEW c \in Calls, ChangeCheck(c)
    PROVE  Inv'
<1>. /\ SessionsTypeOK /\ CallInv(c) /\ call \in [Calls -> CallStates]
     /\ call[c].pc = "check" /\ Is(c, "change")
  BY CallTyped DEF Inv, ChangeCheck, At
<1>1. \/ Moved(c, "done", "rejected") /\ call' \in [Calls -> CallStates]
      \/ Moved(c, "write", call[c].answer) /\ call' \in [Calls -> CallStates]
  BY GotoMoves, ReplyMoves DEF ChangeCheck, Steps, Answers
<1>2. Quiet(c)
  BY <1>1 DEF Quiet, Moved
<1>3. CallInv(c)'
  BY <1>1, KindAt DEF ChangeCheck, Moved, Live, accounts, tokens, CallInv, FreeInv, ArrivedInv, LoginInv, RefreshInv, RefusedInv,
     UseInv, EndsInv, Doomed, RevokeInv, At, Is, Req, Issued, Created
<1>. QED  BY <1>1, <1>2, <1>3, LocalStep DEF ChangeCheck

\* The session of a refresh that is refused at once is over: a revoked token's session is
\* revoked.  In a session that was revoked when the token arrived, sawDead is noted.
LEMMA RefreshReadInv ==
    ASSUME Inv, NEW c \in Calls, RefreshRead(c)
    PROVE  Inv'
<1>. DEFINE t == Req(c).token
<1>0. /\ SessionsTypeOK /\ LineInv /\ CallInv(c) /\ call \in [Calls -> CallStates]
      /\ call[c].pc = "check" /\ Is(c, "refresh")
  BY CallTyped DEF Inv, RefreshRead, At
<1>1. /\ t # Null => t \in Tokens /\ Issued(t) /\ call[c].session = family[t]
      /\ t = Null => call[c].session = Null
      /\ t \in revoked /\ t # Null => family[t] \in revoked
      /\ call[c].late => call[c].session \in revoked \cup expired
      /\ call[c].fresh = Null /\ call[c].answer = Null /\ ~At(c, "free")
  <2>1. ~At(c, "free") /\ Req(c) \in Requests /\ call[c].answer = Null
    BY <1>0 DEF CallInv, ArrivedInv, At
  <2>2. t \in Tokens \cup {Null}
    BY <2>1, RequestsAssumption
  <2>3. /\ call[c].fresh = Null
        /\ IF t = Null THEN call[c].session = Null ELSE Issued(t) /\ call[c].session = family[t]
        /\ call[c].late => call[c].session \in revoked \cup expired
    BY <1>0, <2>1 DEF CallInv, RefreshInv, At
  <2>. QED  BY <1>0, <2>1, <2>2, <2>3 DEF LineInv
<1>n. Null \notin used
  BY <1>0, SessionsAssumption DEF SessionsTypeOK, Rows
<1>2. CASE t \in revoked \cup {Null} /\ Reply(c, "rejected")
  <2>1. Moved(c, "done", "rejected") /\ call' \in [Calls -> CallStates]
    BY <1>0, <1>2, ReplyMoves DEF Answers
  <2>2. CallInv(c)'
    BY <1>0, <1>1, <1>2, <2>1 DEF RefreshRead, Moved, accounts, tokens, CallInv, FreeInv, ArrivedInv, LoginInv, RefreshInv, RefusedInv,
     UseInv, EndsInv, Doomed, RevokeInv, At, Is, Req, Issued, Created
  <2>. QED  BY <2>1, <2>2, LocalStep DEF RefreshRead, Quiet, Moved
<1>3. CASE t \notin revoked /\ t \in used /\ Goto(c, "find")
  <2>1. Moved(c, "find", Null) /\ call' \in [Calls -> CallStates]
    BY <1>0, <1>1, <1>3, GotoMoves DEF Steps
  <2>2. CallInv(c)'
    BY <1>0, <1>1, <1>3, <1>n, <2>1 DEF RefreshRead, Moved, accounts, tokens, CallInv, FreeInv, ArrivedInv, LoginInv, RefreshInv, RefusedInv,
     UseInv, EndsInv, Doomed, RevokeInv, At, Is, Req, Issued, Created
  <2>. QED  BY <2>1, <2>2, LocalStep DEF RefreshRead, Quiet, Moved
<1>4. CASE t \notin revoked \cup used \cup {Null} /\ family[t] \in expired /\ Reply(c, "rejected")
  <2>1. Moved(c, "done", "rejected") /\ call' \in [Calls -> CallStates]
    BY <1>0, <1>4, ReplyMoves DEF Answers
  <2>2. CallInv(c)'
    BY <1>0, <1>1, <1>4, <2>1 DEF RefreshRead, Moved, accounts, tokens, CallInv, FreeInv, ArrivedInv, LoginInv, RefreshInv, RefusedInv,
     UseInv, EndsInv, Doomed, RevokeInv, At, Is, Req, Issued, Created
  <2>. QED  BY <2>1, <2>2, LocalStep DEF RefreshRead, Quiet, Moved
<1>5. CASE /\ t \notin revoked \cup used \cup {Null} /\ family[t] \notin expired
           /\ call' = [call EXCEPT ![c].pc = "claim", ![c].sawDead = family[t] \in revoked]
  <2>. DEFINE dead == family[t] \in revoked
  <2>1. /\ call' \in [Calls -> CallStates]
        /\ Others(c)
        /\ call'[c] = [call[c] EXCEPT !.pc = "claim", !.sawDead = dead]
    <3>1. \A b \in BOOLEAN : [call[c] EXCEPT !.pc = "claim", !.sawDead = b] \in CallStates
      BY <1>0 DEF CallStates, Steps
    <3>2. dead \in BOOLEAN
      OBVIOUS
    <3>3. [call[c] EXCEPT !.pc = "claim", !.sawDead = dead] \in CallStates
      BY <3>1, <3>2, Zenon
    <3>4. call' = [call EXCEPT ![c] = [call[c] EXCEPT !.pc = "claim", !.sawDead = dead]]
      BY <1>5
    <3>. QED  BY <1>0, <3>3, <3>4 DEF Others
  <2>2. CallInv(c)'
    BY <1>0, <1>1, <1>5, <2>1 DEF CallStates, RefreshRead, accounts, tokens, CallInv, FreeInv, ArrivedInv, LoginInv, RefreshInv, RefusedInv,
     UseInv, EndsInv, Doomed, RevokeInv, At, Is, Req, Issued, Created
  <2>3. Quiet(c)
    BY <1>0, <2>1 DEF Quiet, CallStates
  <2>. QED  BY <2>1, <2>2, <2>3, LocalStep DEF RefreshRead
<1>. QED  BY <1>2, <1>3, <1>4, <1>5 DEF RefreshRead

\* updateStatus: only its own row is written before the sessions are looked for.
LEMMA SetStatusInv ==
    ASSUME Inv, NEW c \in Calls, SetStatus(c)
    PROVE  Inv'
<1>0. /\ SessionsTypeOK /\ CallInv(c) /\ call \in [Calls -> CallStates]
      /\ call[c].pc = "check" /\ Is(c, "status")
  BY CallTyped DEF Inv, SetStatus, At
<1>1. Req(c).user \in Users /\ Req(c).user \in Rows
  <2>1. Req(c) \in Requests
    BY <1>0 DEF CallInv, ArrivedInv, At
  <2>. QED  BY <1>0, <2>1, RequestsAssumption DEF Is, Req, Rows
<1>2. /\ \/ Moved(c, "done", "rejected")
         \/ Moved(c, "done", "ok") /\ Req(c).status = "ACTIVE"
         \/ Moved(c, "find", call[c].answer)
      /\ call' \in [Calls -> CallStates]
  BY <1>0, GotoMoves, ReplyMoves DEF SetStatus, Steps, Answers
<1>3. Keeps(c) /\ lock' \in [Rows -> Calls \cup {Null}]
  <2>1. CASE UNCHANGED lock
    BY <1>0, <2>1 DEF Keeps, SessionsTypeOK
  <2>2. CASE LockFree(c, Req(c).user) /\ lock' = [lock EXCEPT ![Req(c).user] = c]
    BY <1>0, <1>1, <2>2, TakeKeeps
  <2>. QED  BY <2>1, <2>2 DEF SetStatus
<1>4. SessionsTypeOK'
  <2>1. status' \in [Users -> Statuses]
    BY <1>0 DEF SetStatus, SessionsTypeOK, Statuses
  <2>. QED  BY <1>0, <1>2, <1>3, <2>1 DEF SetStatus, SessionsTypeOK, CallStates, tokens
<1>5. CallInv(c)'
  BY <1>0, <1>2 DEF SetStatus, Moved, tokens, CallInv, FreeInv, ArrivedInv, LoginInv, RefreshInv, RefusedInv,
     UseInv, EndsInv, Doomed, RevokeInv, At, Is, Req, Issued, Created
<1>6. Quiet(c)
  BY <1>2 DEF Quiet, Moved
<1>. QED  BY <1>3, <1>4, <1>5, <1>6, QuietStep DEF SetStatus

LEMMA WritePasswordInv ==
    ASSUME Inv, NEW c \in Calls, WritePassword(c)
    PROVE  Inv'
<1>0. /\ SessionsTypeOK /\ CallInv(c) /\ call \in [Calls -> CallStates]
      /\ call[c].pc = "write" /\ Req(c).kind \in {"reset", "change"}
  BY CallTyped, KindAt DEF Inv, WritePassword, At
<1>1. Req(c) \in Requests /\ Req(c).new \in Passwords /\ (Is(c, "reset") => Req(c).reset \in Resets)
  <2>1. Req(c) \in Requests
    BY <1>0 DEF CallInv, ArrivedInv, At
  <2>. QED  BY <1>0, <2>1, RequestsAssumption DEF Is, Req
<1>2. Moved(c, "find", call[c].answer) /\ call' \in [Calls -> CallStates]
  BY <1>0, GotoMoves DEF WritePassword, Steps
<1>3. SessionsTypeOK' /\ spent \subseteq spent'
  <2>1. password' \in [Users -> Passwords]
    BY <1>0, <1>1 DEF WritePassword, SessionsTypeOK
  <2>2. spent' \subseteq Resets /\ spent \subseteq spent'
    BY <1>0, <1>1 DEF WritePassword, SessionsTypeOK
  <2>. QED  BY <1>0, <1>2, <2>1, <2>2 DEF WritePassword, SessionsTypeOK, CallStates, tokens
<1>4. CallInv(c)'
  BY <1>0, <1>2, <1>3 DEF WritePassword, Moved, tokens, CallInv, FreeInv, ArrivedInv, LoginInv, RefreshInv, RefusedInv,
     UseInv, EndsInv, Doomed, RevokeInv, At, Is, Req, Issued, Created
<1>5. Quiet(c) /\ Keeps(c)
  BY <1>2 DEF Quiet, Moved, Keeps, WritePassword
<1>. QED  BY <1>3, <1>4, <1>5, QuietStep DEF WritePassword

\* A rollback gives the locks back.
LEMMA FailInv ==
    ASSUME Inv, NEW c \in Calls, call[c].pc # "free", Fail(c, "aborted"),
           UNCHANGED <<accounts, owner, revoked, expired, tokens>>
    PROVE  Inv'
<1>0. SessionsTypeOK /\ CallInv(c) /\ call \in [Calls -> CallStates]
  BY CallTyped DEF Inv
<1>1. Moved(c, "done", "aborted") /\ call' \in [Calls -> CallStates]
  BY <1>0, ReplyMoves DEF Fail, Answers
<1>2. Keeps(c) /\ lock' \in [Rows -> Calls \cup {Null}]
  BY <1>0, UnlockKeeps DEF Fail
<1>3. SessionsTypeOK'
  BY <1>0, <1>1, <1>2 DEF SessionsTypeOK, CallStates, accounts, tokens
<1>4. CallInv(c)'
  BY <1>0, <1>1 DEF Moved, accounts, tokens, CallInv, FreeInv, ArrivedInv, LoginInv, RefreshInv, RefusedInv,
     UseInv, EndsInv, Doomed, RevokeInv, At, Is, Req, Issued, Created
<1>5. Quiet(c)
  BY <1>1 DEF Quiet, Moved
<1>. QED  BY <1>2, <1>3, <1>4, <1>5, QuietStep DEF accounts, tokens

----------------------------------------------------------------------------
(* Steps that write sessions and tokens. *)

\* There is always an id for a new token, and nobody has it.
LEMMA NewTokenIsNew ==
    ASSUME Inv, NEW c \in Calls, call[c].fresh = Null
    PROVE  /\ NewToken \in Tokens /\ ~Issued(NewToken) /\ FirstFamily[NewToken] = Null
           /\ \A d \in Calls : call[d].fresh # NewToken
<1>0. SessionsTypeOK /\ IdsInv /\ call \in [Calls -> CallStates]
  BY CallTyped DEF Inv
<1>. DEFINE f == [d \in Calls |-> call[d].fresh]
<1>1. f \in [Calls -> Tokens \cup {Null}]
  BY <1>0 DEF CallStates
<1>2. PICK t \in Tokens : FirstFamily[t] = Null /\ \A d \in Calls \ {c} : f[d] # t
  BY <1>1, IdsAssumption
<1>3. \A d \in Calls : call[d].fresh # t
  BY <1>2, SessionsAssumption DEF Rows
<1>4. ~Issued(t)
  BY <1>0, <1>2, <1>3 DEF IdsInv
<1>5. NewToken \in Tokens /\ ~Issued(NewToken) /\ \A d \in Calls : call[d].fresh # NewToken
  BY <1>3, <1>4 DEF NewToken
<1>. QED  BY <1>0, <1>5 DEF IdsInv, Issued

LEMMA NewSessionIsNew ==
    ASSUME Inv, NEW c \in Calls, call[c].session = Null
    PROVE  NewSession \in Sessions /\ ~Created(NewSession)
<1>0. SessionsTypeOK /\ IdsInv /\ call \in [Calls -> CallStates]
  BY CallTyped DEF Inv
<1>. DEFINE f == [d \in Calls |-> call[d].session]
<1>1. f \in [Calls -> Sessions \cup {Null}]
  BY <1>0 DEF CallStates
<1>2. PICK s \in Sessions : FirstOwner[s] = Null /\ \A d \in Calls \ {c} : f[d] # s
  BY <1>1, IdsAssumption
<1>3. \A d \in Calls : call[d].session # s
  BY <1>2, SessionsAssumption DEF Rows
<1>4. ~Created(s)
  BY <1>0, <1>2, <1>3 DEF IdsInv
<1>. QED  BY <1>4 DEF NewSession

LEMMA LoginCreateInv ==
    ASSUME Inv, NEW c \in Calls, LoginCreate(c)
    PROVE  Inv'
<1>0. /\ SessionsTypeOK /\ IdsInv /\ LineInv /\ CallInv(c) /\ call \in [Calls -> CallStates]
      /\ call[c].pc = "create" /\ Is(c, "login")
  BY CallTyped, KindAt DEF Inv, LoginCreate, At
<1>1. Req(c) \in Requests /\ Req(c).user \in Users /\ call[c].session = Null
      /\ call[c].fresh = Null /\ call[c].answer = Null
  <2>1. Req(c) \in Requests /\ call[c].answer = Null
    BY <1>0 DEF CallInv, ArrivedInv, At
  <2>. QED  BY <1>0, <2>1, RequestsAssumption DEF CallInv, LoginInv, At, Is, Req
<1>. DEFINE n == NewSession
<1>2. n \in Sessions /\ owner[n] = Null
  BY <1>1, NewSessionIsNew DEF Created
<1>n. Null \notin Users /\ Null \notin Sessions
  BY SessionsAssumption DEF Rows
<1>3. /\ call' \in [Calls -> CallStates] /\ Others(c)
      /\ call'[c] = [call[c] EXCEPT !.session = n, !.pc = "issue"]
  <2>1. \A s \in Sessions : [call[c] EXCEPT !.session = s, !.pc = "issue"] \in CallStates
    BY <1>0 DEF CallStates, Steps
  <2>2. call' = [call EXCEPT ![c] = [call[c] EXCEPT !.session = n, !.pc = "issue"]]
    BY DEF LoginCreate
  <2>. QED  BY <1>0, <1>2, <2>1, <2>2 DEF Others
<1>4. /\ owner' \in [Sessions -> Users \cup {Null}]
      /\ \A s \in Sessions : s # n => owner'[s] = owner[s]
      /\ owner'[n] = Req(c).user /\ owner'[n] # Null
  BY <1>0, <1>1, <1>2, <1>n DEF LoginCreate, SessionsTypeOK
<1>5. SessionsTypeOK'
  BY <1>0, <1>3, <1>4 DEF LoginCreate, SessionsTypeOK, CallStates, accounts, tokens
<1>6. \A t \in Tokens : family[t] # n
  BY <1>0, <1>2, <1>n DEF LineInv, Issued, Created
<1>7. \A d \in Calls : call[d].session # n
  <2>. SUFFICES ASSUME NEW d \in Calls, call[d].session = n
                PROVE  FALSE
    OBVIOUS
  <2>1. call[d].pc # "free"
    BY <1>2, <1>n DEF Inv, CallInv, FreeInv, At
  <2>. QED  BY <1>2, <1>n, <2>1 DEF Inv, CallInv, ArrivedInv, At, Created
<1>8. call'[c].session = n /\ call'[c].pc = "issue" /\ call'[c].fresh = call[c].fresh
  BY <1>0, <1>3 DEF CallStates
<1>9. IdsInv'
  <2>1. \A d \in Calls : call'[d].fresh = call[d].fresh
    BY <1>3, <1>8 DEF Others
  <2>2. \A d \in Calls : call[d].session # Null => call'[d].session = call[d].session
    BY <1>1, <1>3 DEF Others
  <2>3. \A s \in Sessions : Created(s)' => FirstOwner[s] # Null \/ \E d \in Calls : call'[d].session = s
    BY <1>0, <1>n, <1>4, <1>8, <2>2 DEF IdsInv, Created
  <2>. QED  BY <1>0, <1>4, <2>1, <2>3 DEF IdsInv, Issued, Created, LoginCreate, tokens
<1>10. LineInv'
  <2>1. \A t \in Tokens : (Issued(t) => Created(family[t]))'
    BY <1>0, <1>4, <1>6 DEF LineInv, LoginCreate, tokens, Issued, Created, SessionsTypeOK
  <2>2. \A d \in Calls : d # c => call'[d] = call[d]
    BY <1>3 DEF Others
  <2>3. \A d, e \in Calls :
           d # e /\ At(d, "issue")' /\ At(e, "issue")' => call'[d].session # call'[e].session
    BY <1>0, <1>7, <1>8, <2>2 DEF LineInv, At
  <2>4. UNCHANGED <<family, used, next, revoked>>
    BY DEF LoginCreate, tokens
  <2>. QED  BY <1>0, <2>1, <2>3, <2>4 DEF LineInv, Issued
<1>11. CallInv(c)'
  BY <1>0, <1>1, <1>2, <1>3, <1>4, <1>6, <1>n DEF CallStates, LoginCreate, tokens, CallInv, FreeInv, ArrivedInv, LoginInv, RefreshInv, RefusedInv,
     UseInv, EndsInv, Doomed, RevokeInv, At, Is, Req, Issued, Created
<1>12. \A d \in Calls \ {c} : Rely(d)
  BY <1>2, <1>3, <1>4 DEF Rely, Others, LoginCreate, accounts, tokens, Issued, Created
<1>. QED  BY <1>5, <1>9, <1>10, <1>11, <1>12, StepPreserves

LEMMA LoginIssueInv ==
    ASSUME Inv, NEW c \in Calls, LoginIssue(c)
    PROVE  Inv'
<1>0. /\ SessionsTypeOK /\ IdsInv /\ LineInv /\ CallInv(c) /\ call \in [Calls -> CallStates]
      /\ call[c].pc = "issue" /\ Is(c, "login")
  BY CallTyped, KindAt DEF Inv, LoginIssue, At
<1>n. Null \notin Tokens /\ Null \notin Sessions
  BY SessionsAssumption DEF Rows
<1>1. /\ call[c].session \in Sessions /\ Created(call[c].session) /\ call[c].fresh = Null
      /\ \A t \in Tokens : family[t] # call[c].session
      /\ Req(c) \in Requests
  BY <1>0 DEF CallInv, ArrivedInv, LoginInv, At, CallStates
<1>2. CASE ~Req(c).web /\ Reply(c, "ok") /\ UNCHANGED family
  <2>1. Moved(c, "done", "ok") /\ call' \in [Calls -> CallStates]
    BY <1>0, <1>2, ReplyMoves DEF Answers
  <2>2. CallInv(c)'
    BY <1>0, <1>1, <1>2, <2>1 DEF LoginIssue, Moved, accounts, CallInv, FreeInv, ArrivedInv, LoginInv, RefreshInv, RefusedInv,
     UseInv, EndsInv, Doomed, RevokeInv, At, Is, Req, Issued, Created
  <2>. QED  BY <1>2, <2>1, <2>2, LocalStep DEF LoginIssue, Quiet, Moved, tokens
<1>3. CASE /\ Req(c).web
           /\ family' = [family EXCEPT ![NewToken] = call[c].session]
           /\ call' = [call EXCEPT ![c].fresh = NewToken, ![c].pc = "done", ![c].answer = "ok"]
  <2>. DEFINE n == NewToken
  <2>1. /\ n \in Tokens /\ family[n] = Null /\ FirstFamily[n] = Null
        /\ \A d \in Calls : call[d].fresh # n
    BY <1>1, NewTokenIsNew DEF Issued
  <2>2. /\ call' \in [Calls -> CallStates] /\ Others(c)
        /\ call'[c] = [call[c] EXCEPT !.fresh = n, !.pc = "done", !.answer = "ok"]
    <3>1. [call[c] EXCEPT !.fresh = n, !.pc = "done", !.answer = "ok"] \in CallStates
      BY <1>0, <2>1 DEF CallStates, Steps, Answers
    <3>2. call' = [call EXCEPT ![c] = [call[c] EXCEPT !.fresh = n, !.pc = "done", !.answer = "ok"]]
      BY <1>3
    <3>. QED  BY <1>0, <3>1, <3>2 DEF Others
  <2>3. call'[c].session = call[c].session /\ call'[c].pc = "done" /\ call'[c].fresh = n
    BY <1>0, <2>2 DEF CallStates
  <2>4. /\ family' \in [Tokens -> Sessions \cup {Null}]
        /\ family'[n] = call[c].session
        /\ \A t \in Tokens : t # n => family'[t] = family[t]
    BY <1>0, <1>1, <1>3, <2>1 DEF SessionsTypeOK
  <2>5. SessionsTypeOK'
    BY <1>0, <2>2, <2>4 DEF LoginIssue, SessionsTypeOK, CallStates, accounts
  <2>6. IdsInv'
    <3>1. \A d \in Calls : call'[d].session = call[d].session
      BY <2>2, <2>3 DEF Others
    <3>2. \A d \in Calls : d # c => call'[d].fresh = call[d].fresh
      BY <2>2 DEF Others
    <3>3. \A d, e \in Calls : d # e /\ call'[d].fresh # Null => call'[d].fresh # call'[e].fresh
      BY <1>0, <2>1, <2>3, <3>2 DEF IdsInv
    <3>4. \A t \in Tokens : Issued(t)' => FirstFamily[t] # Null \/ \E d \in Calls : call'[d].fresh = t
      BY <1>0, <1>1, <1>n, <2>3, <2>4, <3>2 DEF IdsInv, Issued
    <3>5. \A t \in Tokens : FirstFamily[t] # Null =>
             family'[t] = FirstFamily[t] /\ \A d \in Calls : call'[d].fresh # t
      BY <1>0, <2>1, <2>3, <2>4, <3>2 DEF IdsInv
    <3>. QED  BY <1>0, <3>1, <3>3, <3>4, <3>5 DEF IdsInv, Created, LoginIssue
  <2>7. LineInv'
    <3>1. \A d \in Calls : d # c => call'[d] = call[d]
      BY <2>2 DEF Others
    <3>. QED
      BY <1>0, <1>1, <1>n, <2>1, <2>3, <2>4, <3>1
      DEF LineInv, Issued, Created, At, LoginIssue, SessionsTypeOK
  <2>8. CallInv(c)'
    BY <1>0, <1>1, <1>n, <2>1, <2>2, <2>4 DEF CallStates, LoginIssue, CallInv, FreeInv, ArrivedInv, LoginInv, RefreshInv, RefusedInv,
     UseInv, EndsInv, Doomed, RevokeInv, At, Is, Req, Issued, Created
  <2>9. \A d \in Calls \ {c} : Rely(d)
    <3>. SUFFICES ASSUME NEW d \in Calls \ {c}
                  PROVE  Rely(d)
      OBVIOUS
    <3>1. At(d, "issue") => call[d].session # call[c].session
      BY <1>0 DEF LineInv, At
    <3>. QED  BY <2>1, <2>2, <2>4, <3>1 DEF Rely, Others, Issued, LoginIssue, accounts
  <2>. QED  BY <2>5, <2>6, <2>7, <2>8, <2>9, StepPreserves
<1>. QED  BY <1>2, <1>3 DEF LoginIssue

\* What a refresh that has a token knows of it.
LEMMA RefreshFacts ==
    ASSUME SessionsTypeOK, NEW c \in Calls, CallInv(c), Is(c, "refresh"),
           call[c].pc \in {"claim", "touch", "user", "find", "kill", "tokens"}
    PROVE  /\ Req(c).token \in Tokens /\ Issued(Req(c).token)
           /\ call[c].session = family[Req(c).token] /\ call[c].session \in Sessions
<1>1. Req(c) \in Requests
  BY DEF CallInv, ArrivedInv, At
<1>2. Req(c).token \in Tokens \cup {Null}
  BY <1>1, RequestsAssumption
<1>3. Req(c).token # Null /\ Issued(Req(c).token) /\ call[c].session = family[Req(c).token]
  BY DEF CallInv, RefreshInv, At
<1>. QED  BY <1>2, <1>3 DEF SessionsTypeOK, Issued

\* The claim: lost, spent for nothing in a dead session, or won with the row locked.
LEMMA RefreshClaimInv ==
    ASSUME Inv, NEW c \in Calls, RefreshClaim(c)
    PROVE  Inv'
<1>. DEFINE t == Req(c).token
<1>0. /\ SessionsTypeOK /\ IdsInv /\ LineInv /\ CallInv(c) /\ call \in [Calls -> CallStates]
      /\ call[c].pc = "claim" /\ Is(c, "refresh")
  BY CallTyped, KindAt DEF Inv, RefreshClaim, At
<1>1. /\ t \in Tokens /\ Issued(t) /\ call[c].session = family[t] /\ call[c].session \in Sessions
      /\ call[c].fresh = Null /\ call[c].answer = Null
      /\ call[c].sawDead => call[c].session \in revoked
      /\ call[c].late => call[c].sawDead
  <2>1. /\ call[c].fresh = Null
        /\ call[c].sawDead => call[c].session \in revoked
        /\ call[c].late => call[c].sawDead
    BY <1>0 DEF CallInv, RefreshInv, At
  <2>2. call[c].answer = Null
    BY <1>0 DEF CallInv, ArrivedInv, At
  <2>. QED  BY <1>0, <2>1, <2>2, RefreshFacts
<1>n. Null \notin Tokens /\ Null \notin Sessions /\ Null \notin Calls
  BY SessionsAssumption DEF Rows
<1>2. CASE t \in used \cup revoked /\ Goto(c, "find") /\ UNCHANGED <<used, lock>>
  <2>1. Moved(c, "find", Null) /\ call' \in [Calls -> CallStates]
    BY <1>0, <1>1, <1>2, GotoMoves DEF Steps
  <2>2. CallInv(c)'
    BY <1>0, <1>1, <1>2, <1>n, <2>1 DEF RefreshClaim, Moved, accounts, CallInv, FreeInv, ArrivedInv, LoginInv, RefreshInv, RefusedInv,
     UseInv, EndsInv, Doomed, RevokeInv, At, Is, Req, Issued, Created
  <2>. QED  BY <1>2, <2>1, <2>2, LocalStep DEF RefreshClaim, Quiet, Moved, tokens
<1>3. CASE /\ t \notin used \cup revoked /\ call[c].sawDead
           /\ used' = used \cup {t}
           /\ Reply(c, "rejected")
           /\ UNCHANGED lock
  <2>1. Moved(c, "done", "rejected") /\ call' \in [Calls -> CallStates]
    BY <1>0, <1>3, ReplyMoves DEF Answers
  <2>2. SessionsTypeOK'
    BY <1>0, <1>1, <1>3, <2>1 DEF RefreshClaim, SessionsTypeOK, CallStates, accounts
  <2>3. CallInv(c)'
    BY <1>0, <1>1, <1>3, <1>n, <2>1 DEF RefreshClaim, Moved, accounts, CallInv, FreeInv, ArrivedInv, LoginInv, RefreshInv, RefusedInv,
     UseInv, EndsInv, Doomed, RevokeInv, At, Is, Req, Issued, Created
  <2>4. /\ \A d \in Calls : call'[d].fresh = call[d].fresh /\ call'[d].session = call[d].session
        /\ \A d \in Calls : call'[d].pc = "issue" => call[d].pc = "issue"
    BY <2>1 DEF Moved, Others
  <2>5. IdsInv'
    BY <1>0, <2>4 DEF IdsInv, Issued, Created, RefreshClaim
  <2>6. LineInv'
    BY <1>0, <1>1, <1>3, <2>4 DEF LineInv, Issued, Created, At, RefreshClaim
  <2>7. \A d \in Calls \ {c} : Rely(d)
    BY <1>0, <1>n, <1>3, <2>1 DEF Rely, Moved, Others, Issued, Created, LockFree, RefreshClaim, accounts
  <2>. QED  BY <2>2, <2>3, <2>5, <2>6, <2>7, StepPreserves
<1>4. CASE /\ t \notin used \cup revoked /\ ~call[c].sawDead
           /\ lock' = [lock EXCEPT ![t] = c]
           /\ call' = [call EXCEPT ![c].pc = "touch", ![c].fresh = NewToken]
           /\ UNCHANGED used
  <2>. DEFINE n == NewToken
  <2>1. /\ n \in Tokens /\ family[n] = Null /\ FirstFamily[n] = Null
        /\ \A d \in Calls : call[d].fresh # n
    BY <1>1, NewTokenIsNew DEF Issued
  <2>2. /\ call' \in [Calls -> CallStates] /\ Others(c)
        /\ call'[c] = [call[c] EXCEPT !.pc = "touch", !.fresh = n]
    <3>1. \A x \in Tokens : [call[c] EXCEPT !.pc = "touch", !.fresh = x] \in CallStates
      BY <1>0 DEF CallStates, Steps
    <3>2. call' = [call EXCEPT ![c] = [call[c] EXCEPT !.pc = "touch", !.fresh = n]]
      BY <1>4
    <3>. QED  BY <1>0, <2>1, <3>1, <3>2 DEF Others
  <2>3. call'[c].session = call[c].session /\ call'[c].pc = "touch" /\ call'[c].fresh = n
    BY <1>0, <2>2 DEF CallStates
  <2>4. Keeps(c) /\ lock' \in [Rows -> Calls \cup {Null}] /\ lock'[t] = c
    <3>1. t \in Rows
      BY <1>1 DEF Rows
    <3>2. Keeps(c) /\ lock' \in [Rows -> Calls \cup {Null}]
      BY <1>0, <1>4, <3>1, TakeKeeps DEF RefreshClaim
    <3>. QED  BY <1>0, <1>4, <3>1, <3>2 DEF SessionsTypeOK
  <2>5. SessionsTypeOK'
    BY <1>0, <1>4, <2>2, <2>4 DEF RefreshClaim, SessionsTypeOK, CallStates, accounts
  <2>6. IdsInv'
    <3>1. \A d \in Calls : call'[d].session = call[d].session
      BY <2>2, <2>3 DEF Others
    <3>2. \A d \in Calls : d # c => call'[d].fresh = call[d].fresh
      BY <2>2 DEF Others
    <3>. QED
      BY <1>0, <1>1, <1>n, <2>1, <2>3, <3>1, <3>2 DEF IdsInv, Issued, Created, RefreshClaim
  <2>7. LineInv'
    <3>1. \A d \in Calls : call'[d].pc = "issue" => call'[d] = call[d] /\ call[d].pc = "issue"
      BY <2>2, <2>3 DEF Others
    <3>. QED  BY <1>0, <1>4, <3>1 DEF LineInv, Issued, Created, At, RefreshClaim
  <2>8. CallInv(c)'
    BY <1>0, <1>1, <1>4, <1>n, <2>1, <2>2, <2>4 DEF CallStates, RefreshClaim, accounts, CallInv, FreeInv, ArrivedInv, LoginInv, RefreshInv, RefusedInv,
     UseInv, EndsInv, Doomed, RevokeInv, At, Is, Req, Issued, Created
  <2>9. \A d \in Calls \ {c} : Rely(d)
    BY <1>0, <1>4, <2>2, <2>4, QuietRely DEF RefreshClaim, tokens, accounts
  <2>. QED  BY <2>5, <2>6, <2>7, <2>8, <2>9, StepPreserves
<1>. QED  BY <1>2, <1>3, <1>4 DEF RefreshClaim

\* The rotation: the token that is locked is the last of its line, and gets its successor
\* while no revocation holds the session.
LEMMA RefreshCommitInv ==
    ASSUME Inv, NEW c \in Calls, RefreshCommit(c)
    PROVE  Inv'
<1>. DEFINE t == Req(c).token
            n == call[c].fresh
<1>0. /\ SessionsTypeOK /\ IdsInv /\ LineInv /\ CallInv(c) /\ call \in [Calls -> CallStates]
      /\ call[c].pc = "touch" /\ Is(c, "refresh")
  BY CallTyped, KindAt DEF Inv, RefreshCommit, At
<1>1. /\ t \in Tokens /\ Issued(t) /\ call[c].session = family[t] /\ call[c].session \in Sessions
      /\ n \in Tokens /\ family[n] = Null /\ n # t
      /\ lock[t] = c /\ t \notin used \cup revoked /\ ~call[c].late
      /\ call[c].answer = Null
  <2>1. n # Null /\ ~Issued(n) /\ lock[t] = c /\ t \notin used \cup revoked /\ ~call[c].late
    BY <1>0 DEF CallInv, RefreshInv, At
  <2>2. call[c].answer = Null
    BY <1>0 DEF CallInv, ArrivedInv, At
  <2>3. n \in Tokens
    BY <1>0, <2>1 DEF CallStates
  <2>. QED  BY <1>0, <2>1, <2>2, <2>3, RefreshFacts DEF Issued
<1>n. Null \notin Tokens /\ Null \notin Sessions /\ Null \notin Calls
  BY SessionsAssumption DEF Rows
<1>2. Moved(c, "user", Null) /\ call' \in [Calls -> CallStates]
  BY <1>0, <1>1, GotoMoves DEF RefreshCommit, Rotate, Steps
<1>3. /\ used' = used \cup {t}
      /\ next' \in [Tokens -> Tokens \cup {Null}] /\ next'[t] = n
      /\ \A x \in Tokens : x # t => next'[x] = next[x]
      /\ family' \in [Tokens -> Sessions \cup {Null}] /\ family'[n] = family[t]
      /\ \A x \in Tokens : x # n => family'[x] = family[x]
  BY <1>0, <1>1 DEF RefreshCommit, Rotate, SessionsTypeOK
<1>4. Keeps(c) /\ lock' \in [Rows -> Calls \cup {Null}]
  BY <1>0, UnlockKeeps DEF RefreshCommit, Rotate
<1>5. SessionsTypeOK'
  BY <1>0, <1>1, <1>2, <1>3, <1>4 DEF RefreshCommit, Rotate, SessionsTypeOK, CallStates, accounts
<1>6. /\ \A d \in Calls : call'[d].fresh = call[d].fresh /\ call'[d].session = call[d].session
      /\ \A d \in Calls : call'[d].pc = "issue" => call[d].pc = "issue"
  BY <1>2 DEF Moved, Others
<1>7. IdsInv'
  BY <1>0, <1>1, <1>3, <1>6 DEF IdsInv, Issued, Created, RefreshCommit, Rotate
<1>8. LineInv'
  <2>. UNCHANGED <<revoked, owner>>
    BY DEF RefreshCommit, Rotate
  <2>1. \A x \in Tokens : (Issued(x) => Created(family[x]))'
    BY <1>0, <1>1, <1>3 DEF LineInv, Issued, Created
  <2>2. \A x \in used' : Issued(x)'
    BY <1>0, <1>1, <1>3, <1>n DEF LineInv, Issued, SessionsTypeOK
  <2>3. \A x \in Tokens : next'[x] # Null =>
           x \in used' /\ Issued(next[x])' /\ family'[next'[x]] = family'[x]
    <3>. SUFFICES ASSUME NEW x \in Tokens, next'[x] # Null
                  PROVE  x \in used' /\ Issued(next[x])' /\ family'[next'[x]] = family'[x]
      OBVIOUS
    <3>1. CASE x = t
      BY <1>1, <1>3, <3>1, <1>n DEF Issued
    <3>2. CASE x # t
      <4>1. /\ next'[x] = next[x] /\ next[x] \in Tokens /\ x \in used /\ Issued(x)
            /\ Issued(next[x]) /\ family[next[x]] = family[x]
        BY <1>0, <1>3, <3>2 DEF LineInv, SessionsTypeOK
      <4>. QED  BY <1>1, <1>3, <4>1 DEF Issued
    <3>. QED  BY <3>1, <3>2
  <2>4. \A x \in Tokens \cap revoked :
           /\ Issued(x)' /\ family'[x] \in revoked
           /\ next'[x] # Null => next'[x] \in revoked
    BY <1>0, <1>1, <1>3 DEF LineInv, Issued
  <2>5. \A x, y \in Tokens :
           x # y /\ Issued(x)' /\ family'[x] = family'[y]
           => x \in used' \cup revoked \/ y \in used' \cup revoked
    BY <1>0, <1>1, <1>3 DEF LineInv, Issued
  <2>6. \A d, e \in Calls :
           d # e /\ At(d, "issue")' /\ At(e, "issue")' => call'[d].session # call'[e].session
    BY <1>0, <1>6 DEF LineInv, At
  <2>. QED  BY <2>1, <2>2, <2>3, <2>4, <2>5, <2>6 DEF LineInv
<1>9. CallInv(c)'
  BY <1>0, <1>1, <1>2, <1>3, <1>n DEF RefreshCommit, Rotate, Moved, accounts, CallInv, FreeInv, ArrivedInv, LoginInv, RefreshInv, RefusedInv,
     UseInv, EndsInv, Doomed, RevokeInv, At, Is, Req, Issued, Created
<1>10. ASSUME NEW d \in Calls \ {c}
       PROVE  Rely(d)
  <2>1. At(d, "issue") => \A x \in Tokens : family[x] # call[d].session
    <3>1. CallInv(d)
      BY DEF Inv
    <3>2. At(d, "issue") => Is(d, "login") /\ ~At(d, "free")
      BY <3>1, KindAt DEF At
    <3>. QED  BY <3>1, <3>2 DEF CallInv, LoginInv
  <2>2. n # call[d].fresh
    BY <1>0, <1>1, <1>n DEF IdsInv
  <2>3. lock[family[t]] # d
    BY <1>1, <1>n DEF RefreshCommit, LockFree
  <2>. QED
    BY <1>0, <1>1, <1>2, <1>3, <1>4, <2>1, <2>2, <2>3
    DEF Rely, Moved, Others, Keeps, Issued, Created, RefreshCommit, Rotate, accounts
<1>. QED  BY <1>5, <1>7, <1>8, <1>9, <1>10, StepPreserves

\* The sessions a revocation looks for are sessions.
LEMMA RevocableTyped ==
    ASSUME SessionsTypeOK, NEW c \in Calls, CallInv(c), call[c].pc = "find"
    PROVE  Revocable(c) \in SUBSET Sessions
<1>1. Req(c).kind \in {"refresh", "logout", "status", "reset", "change"}
  BY KindAt
<1>2. CASE Is(c, "refresh")
  BY <1>2, RefreshFacts DEF Revocable
<1>3. CASE Is(c, "logout")
  <2>1. Req(c) \in Requests /\ call[c].session = Req(c).session
    BY <1>3 DEF CallInv, ArrivedInv, At, Is, Req
  <2>. QED  BY <1>3, <2>1, RequestsAssumption DEF Revocable, Is, Req
<1>4. CASE ~Is(c, "refresh") /\ ~Is(c, "logout")
  BY <1>4 DEF Revocable
<1>. QED  BY <1>2, <1>3, <1>4

LEMMA RevokeFindInv ==
    ASSUME Inv, NEW c \in Calls, RevokeFind(c)
    PROVE  Inv'
<1>0. /\ SessionsTypeOK /\ CallInv(c) /\ call \in [Calls -> CallStates]
      /\ call[c].pc = "find"
      /\ Req(c).kind \in {"refresh", "logout", "status", "reset", "change"}
  BY CallTyped, KindAt DEF Inv, RevokeFind, At
<1>. DEFINE todo == Revocable(c) \ revoked
<1>1. todo \in SUBSET Sessions
  BY <1>0, RevocableTyped
<1>2. /\ call' \in [Calls -> CallStates] /\ Others(c)
      /\ call'[c] = [call[c] EXCEPT !.todo = todo, !.pc = "kill"]
  <2>1. \A x \in SUBSET Sessions : [call[c] EXCEPT !.todo = x, !.pc = "kill"] \in CallStates
    BY <1>0 DEF CallStates, Steps
  <2>2. call' = [call EXCEPT ![c] = [call[c] EXCEPT !.todo = todo, !.pc = "kill"]]
    BY DEF RevokeFind
  <2>3. [call[c] EXCEPT !.todo = todo, !.pc = "kill"] \in CallStates
    BY <1>1, <2>1
  <2>. QED  BY <1>0, <2>2, <2>3 DEF Others
<1>3. Is(c, "refresh") => call[c].session \in revoked \cup todo
  BY DEF Revocable
<1>4. Req(c).kind \in {"status", "reset", "change"} => Doomed(c) \subseteq revoked \cup todo
  <2>. SUFFICES ASSUME Req(c).kind \in {"status", "reset", "change"}, NEW s \in Doomed(c)
                PROVE  s \in Revocable(c)
    OBVIOUS
  <2>1. s \in Sessions /\ s # call[c].session /\ Created(s) /\ owner[s] = Account(Req(c))
    <3>1. s \in call[c].had /\ s # call[c].session
      BY DEF Doomed
    <3>2. Created(s) /\ owner[s] = Account(Req(c))
      BY <1>0, <3>1 DEF CallInv, EndsInv, At, Req
    <3>. QED  BY <1>0, <3>1, <3>2 DEF CallStates
  <2>. QED  BY <2>1 DEF Revocable, Is, Req
<1>5. CallInv(c)'
  <2>. HIDE DEF todo
  <2>. QED  BY <1>0, <1>1, <1>2, <1>3, <1>4 DEF CallStates, RevokeFind, accounts, tokens, CallInv, FreeInv, ArrivedInv, LoginInv, RefreshInv, RefusedInv,
     UseInv, EndsInv, Doomed, RevokeInv, At, Is, Req, Issued, Created
<1>6. Quiet(c)
  <2>. HIDE DEF todo
  <2>. QED  BY <1>0, <1>1, <1>2 DEF Quiet, CallStates
<1>. QED  BY <1>2, <1>5, <1>6, LocalStep DEF RevokeFind

LEMMA RevokeSessionsInv ==
    ASSUME Inv, NEW c \in Calls, RevokeSessions(c)
    PROVE  Inv'
<1>0. /\ SessionsTypeOK /\ LineInv /\ CallInv(c) /\ call \in [Calls -> CallStates]
      /\ call[c].pc = "kill"
      /\ Req(c).kind \in {"refresh", "logout", "status", "reset", "change"}
  BY CallTyped, KindAt DEF Inv, RevokeSessions, At
<1>1. ASSUME NEW s \in ToLock(c), LockFree(c, s), lock' = [lock EXCEPT ![s] = c], UNCHANGED call
      PROVE  Inv'
  <2>1. s \in Rows
    BY <1>0 DEF ToLock, CallStates, Rows
  <2>2. Keeps(c) /\ lock' \in [Rows -> Calls \cup {Null}]
    BY <1>0, <1>1, <2>1, TakeKeeps
  <2>3. SessionsTypeOK'
    BY <1>0, <1>1, <2>2 DEF SessionsTypeOK, RevokeSessions, accounts, tokens
  <2>4. CallInv(c)'
    BY <1>0, <1>1 DEF RevokeSessions, accounts, tokens, CallInv, FreeInv, ArrivedInv, LoginInv, RefreshInv, RefusedInv,
     UseInv, EndsInv, Doomed, RevokeInv, At, Is, Req, Issued, Created
  <2>5. Quiet(c)
    BY <1>0, <1>1 DEF Quiet, Others
  <2>. QED  BY <2>2, <2>3, <2>4, <2>5, QuietStep DEF RevokeSessions, accounts, tokens
<1>2. ASSUME ToLock(c) = {}, UNCHANGED lock,
             call' = [call EXCEPT ![c].pc = "tokens", ![c].found = TokensOf(c)]
      PROVE  Inv'
  <2>. DEFINE found == TokensOf(c)
  <2>1. /\ call' \in [Calls -> CallStates] /\ Others(c)
        /\ call'[c] = [call[c] EXCEPT !.pc = "tokens", !.found = found]
    <3>1. \A x \in SUBSET Tokens : [call[c] EXCEPT !.pc = "tokens", !.found = x] \in CallStates
      BY <1>0 DEF CallStates, Steps
    <3>2. call' = [call EXCEPT ![c] = [call[c] EXCEPT !.pc = "tokens", !.found = found]]
      BY <1>2
    <3>3. [call[c] EXCEPT !.pc = "tokens", !.found = found] \in CallStates
      BY <3>1 DEF TokensOf
    <3>. QED  BY <1>0, <3>2, <3>3 DEF Others
  <2>2. \A s \in call[c].todo : lock[s] = c
    BY <1>2 DEF ToLock
  <2>3. \A t \in found : /\ Issued(t) /\ family[t] \in call[c].todo
                         /\ next[t] # Null => next[t] \in revoked \cup found
    <3>. SUFFICES ASSUME NEW t \in found
                  PROVE  /\ Issued(t) /\ family[t] \in call[c].todo
                         /\ next[t] # Null => next[t] \in revoked \cup found
      OBVIOUS
    <3>1. t \in Tokens /\ family[t] \in call[c].todo
      BY DEF TokensOf
    <3>2. Issued(t)
      BY <1>0, <3>1, SessionsAssumption DEF CallStates, Issued, Rows
    <3>3. next[t] # Null => next[t] \in Tokens /\ family[next[t]] \in call[c].todo
      BY <1>0, <3>1 DEF LineInv, SessionsTypeOK
    <3>. QED  BY <3>1, <3>2, <3>3 DEF TokensOf
  <2>4. CallInv(c)'
    <3>. HIDE DEF found
    <3>1. /\ call'[c].pc = "tokens" /\ call'[c].found = found
          /\ call'[c].req = call[c].req /\ call'[c].session = call[c].session
          /\ call'[c].fresh = call[c].fresh /\ call'[c].sawDead = call[c].sawDead
          /\ call'[c].todo = call[c].todo /\ call'[c].answer = call[c].answer
          /\ call'[c].late = call[c].late /\ call'[c].had = call[c].had
      BY <1>0, <2>1 DEF CallStates
    <3>2. UNCHANGED <<spent, owner, revoked, expired, family, used, next, lock>>
      BY <1>2 DEF RevokeSessions, accounts, tokens
    <3>3. RevokeInv(c)'
      BY <2>2, <2>3, <3>1, <3>2 DEF RevokeInv, At, Issued
    <3>. QED
      BY <1>0, <3>1, <3>2, <3>3 DEF CallInv, FreeInv, ArrivedInv, LoginInv, RefreshInv, RefusedInv,
         UseInv, EndsInv, Doomed, At, Is, Req, Issued, Created
  <2>5. Quiet(c)
    <3>. HIDE DEF found
    <3>. QED  BY <1>0, <2>1 DEF Quiet, CallStates
  <2>. QED  BY <1>2, <2>1, <2>4, <2>5, LocalStep DEF RevokeSessions
<1>. QED  BY <1>1, <1>2 DEF RevokeSessions

\* The end of a revocation: everything on the list and every token found is revoked.
LEMMA RevokeTokensInv ==
    ASSUME Inv, NEW c \in Calls, RevokeTokens(c)
    PROVE  Inv'
<1>0. /\ SessionsTypeOK /\ IdsInv /\ LineInv /\ CallInv(c) /\ call \in [Calls -> CallStates]
      /\ call[c].pc = "tokens"
      /\ Req(c).kind \in {"refresh", "logout", "status", "reset", "change"}
  BY CallTyped, KindAt DEF Inv, RevokeTokens, At
<1>1. /\ call[c].todo \subseteq Sessions /\ call[c].found \subseteq Tokens
      /\ Req(c) \in Requests /\ call[c].answer = Null
      /\ \A t \in call[c].found :
            /\ Issued(t) /\ family[t] \in call[c].todo
            /\ next[t] # Null => next[t] \in revoked \cup call[c].found
  BY <1>0 DEF CallInv, ArrivedInv, RevokeInv, At, CallStates
<1>2. Outcome(c) \in Answers /\ (Is(c, "refresh") => Outcome(c) \in {"reused", "rejected"})
  BY DEF Outcome, Answers
<1>3. Moved(c, "done", Outcome(c)) /\ call' \in [Calls -> CallStates]
  BY <1>0, <1>2, ReplyMoves DEF RevokeTokens
<1>4. Keeps(c) /\ lock' \in [Rows -> Calls \cup {Null}]
  BY <1>0, UnlockKeeps DEF RevokeTokens
<1>5. revoked' = revoked \cup call[c].todo \cup call[c].found /\ revoked' \subseteq Sessions \cup Tokens
  BY <1>0, <1>1 DEF RevokeTokens, SessionsTypeOK
<1>6. SessionsTypeOK'
  <2>1. status' \in [Users -> Statuses]
    <3>1. Is(c, "status") => Req(c).status \in Statuses
      BY <1>1, RequestsAssumption DEF Is, Req
    <3>. QED  BY <1>0, <3>1 DEF RevokeTokens, SessionsTypeOK
  <2>. QED  BY <1>0, <1>3, <1>4, <1>5, <2>1 DEF RevokeTokens, SessionsTypeOK, CallStates, tokens
<1>7. /\ \A d \in Calls : call'[d].fresh = call[d].fresh /\ call'[d].session = call[d].session
      /\ \A d \in Calls : call'[d].pc = "issue" => call[d].pc = "issue"
  BY <1>3 DEF Moved, Others
<1>8. IdsInv'
  BY <1>0, <1>7 DEF IdsInv, Issued, Created, RevokeTokens, tokens
<1>9. LineInv'
  <2>. UNCHANGED <<owner, family, used, next>>
    BY DEF RevokeTokens, tokens
  <2>1. \A t \in Tokens \cap revoked' :
           /\ Issued(t) /\ family[t] \in revoked'
           /\ next[t] # Null => next[t] \in revoked'
    BY <1>0, <1>1, <1>5, SeparateRows DEF LineInv
  <2>2. \A d, e \in Calls :
           d # e /\ At(d, "issue")' /\ At(e, "issue")' => call'[d].session # call'[e].session
    BY <1>0, <1>7 DEF LineInv, At
  <2>. QED  BY <1>0, <1>5, <2>1, <2>2 DEF LineInv, Issued, Created
<1>10. CallInv(c)'
  BY <1>0, <1>1, <1>2, <1>3, <1>5 DEF RevokeTokens, Moved, tokens, CallInv, FreeInv, ArrivedInv, LoginInv, RefreshInv, RefusedInv,
     UseInv, EndsInv, Doomed, RevokeInv, At, Is, Req, Issued, Created
<1>11. ASSUME NEW d \in Calls \ {c}
       PROVE  Rely(d)
  <2>1. \A t \in Tokens : lock[t] = d /\ t \notin revoked => t \notin revoked'
    BY <1>1, <1>5, SeparateRows, SessionsAssumption DEF RevokeTokens, LockFree
  <2>. QED
    BY <1>3, <1>4, <1>5, <2>1 DEF Rely, Moved, Others, Keeps, Issued, Created, RevokeTokens, tokens
<1>. QED  BY <1>6, <1>8, <1>9, <1>10, <1>11, StepPreserves

----------------------------------------------------------------------------
(* Requests that arrive, and time that passes. *)

\* A request whose token and session are known to the server.
LEMMA ReceiveInv ==
    ASSUME Inv, NEW c \in Free, NEW q \in Requests, Receive(c, q),
           q.token # Null => Issued(q.token),
           q.session # Null => Created(q.session),
           q.kind = "change" => owner[q.session] = q.user
    PROVE  Inv'
<1>0. /\ SessionsTypeOK /\ IdsInv /\ LineInv /\ CallInv(c) /\ call \in [Calls -> CallStates]
      /\ c \in Calls /\ call[c].pc = "free"
      /\ call[c].session = Null /\ call[c].fresh = Null /\ call[c].answer = Null
      /\ call[c].todo = {} /\ call[c].found = {} /\ ~call[c].sawDead
  BY CallTyped DEF Inv, Free, CallInv, FreeInv, At
<1>1. /\ q.kind \in {"login", "refresh", "use", "logout", "status", "reset", "change"}
      /\ q.token \in Tokens \cup {Null} /\ q.session \in Sessions \cup {Null}
      /\ q.kind \in {"login", "status", "change"} => q.user \in Users
      /\ (q.reset \in Resets) <=> (q.kind = "reset")
      /\ (q.session \in Sessions) <=> (q.kind \in {"use", "logout", "change"})
      /\ q.token # Null => q.kind = "refresh"
  BY RequestsAssumption
<1>n. Null \notin Users /\ Null \notin Tokens /\ Null \notin Sessions
  BY SessionsAssumption DEF Rows
<1>. DEFINE s == IF q.token # Null THEN family[q.token] ELSE q.session
            u == IF s # Null THEN owner[s] ELSE Account(q)
            late == (s # Null /\ ~Live(s)) \/ q.reset \in spent
            had == {x \in Sessions : Created(x) /\ owner[x] = u}
<1>2. /\ s \in Sessions \cup {Null}
      /\ s # Null => Created(s)
      /\ q.kind \in {"use", "logout", "change"} => s = q.session
      /\ q.kind \in {"login", "status", "reset"} => s = Null
      /\ q.kind = "refresh" => s = IF q.token = Null THEN Null ELSE family[q.token]
  BY <1>0, <1>1, <1>n DEF SessionsTypeOK, LineInv, Issued
<1>3. /\ q.kind \in {"refresh", "use"} /\ late => s \in revoked \cup expired
      /\ q.kind = "reset" /\ late => q.reset \in spent
  BY <1>0, <1>1, <1>2, <1>n DEF Live, SessionsTypeOK
<1>4. q.kind \in {"status", "reset", "change"} => \A x \in had : Created(x) /\ owner[x] = Account(q)
  BY <1>1, <1>2, <1>n DEF Account
<1>5. late \in BOOLEAN /\ had \in SUBSET Sessions
  OBVIOUS
<1>6. /\ call' \in [Calls -> CallStates] /\ Others(c)
      /\ call'[c] = [call[c] EXCEPT !.req = q, !.pc = "check", !.session = s, !.late = late, !.had = had]
  <2>1. \A x \in Sessions \cup {Null}, b \in BOOLEAN, h \in SUBSET Sessions :
           [call[c] EXCEPT !.req = q, !.pc = "check", !.session = x, !.late = b, !.had = h]
           \in CallStates
    BY <1>0 DEF CallStates, Steps
  <2>2. [call[c] EXCEPT !.req = q, !.pc = "check", !.session = s, !.late = late, !.had = had]
        \in CallStates
    <3>. HIDE DEF s, late, had
    <3>. QED  BY <1>2, <1>5, <2>1, Zenon
  <2>3. call' = [call EXCEPT ![c] = [call[c] EXCEPT !.req = q, !.pc = "check", !.session = s,
                                                    !.late = late, !.had = had]]
    BY DEF Receive
  <2>. QED  BY <1>0, <2>2, <2>3 DEF Others
<1>. HIDE DEF s, u, late, had
<1>7. /\ call'[c].req = q /\ call'[c].pc = "check" /\ call'[c].session = s
      /\ call'[c].late = late /\ call'[c].had = had
      /\ call'[c].fresh = Null /\ call'[c].answer = Null
      /\ call'[c].todo = {} /\ call'[c].found = {} /\ ~call'[c].sawDead
  BY <1>0, <1>2, <1>5, <1>6 DEF CallStates
<1>8. UNCHANGED <<status, password, spent, owner, revoked, expired, family, used, next, lock>>
  BY DEF Receive, accounts, tokens
<1>9. SessionsTypeOK'
  BY <1>0, <1>6, <1>8 DEF SessionsTypeOK, CallStates
<1>10. \A d \in Calls : d # c => call'[d] = call[d]
  BY <1>6 DEF Others
<1>11. IdsInv'
  BY <1>0, <1>2, <1>7, <1>8, <1>10, <1>n DEF IdsInv, Issued, Created
<1>12. LineInv'
  BY <1>0, <1>7, <1>8, <1>10 DEF LineInv, Issued, Created, At
<1>13. CallInv(c)'
  BY <1>1, <1>2, <1>3, <1>4, <1>7, <1>8, <1>n, SessionsAssumption DEF CallInv, FreeInv, ArrivedInv, LoginInv, RefreshInv, RefusedInv,
     UseInv, EndsInv, Doomed, RevokeInv, At, Is, Req, Issued, Created
<1>14. \A d \in Calls \ {c} : Rely(d)
  BY <1>0, <1>6, <1>8, QuietRely DEF Keeps, tokens
<1>. QED  BY <1>0, <1>9, <1>11, <1>12, <1>13, <1>14, StepPreserves

\* What a client was answered with exists.
LEMMA KnownExists ==
    ASSUME Inv
    PROVE  /\ \A t \in KnownTokens : t \in Tokens /\ Issued(t)
           /\ \A s \in KnownSessions : s \in Sessions /\ Created(s)
<1>n. Null \notin Tokens /\ Null \notin Sessions
  BY SessionsAssumption DEF Rows
<1>1. ASSUME NEW c \in Calls, call[c].answer = "ok"
      PROVE  /\ call[c].fresh # Null => Issued(call[c].fresh)
             /\ call[c].session # Null => Created(call[c].session)
  <2>1. SessionsTypeOK /\ LineInv /\ CallInv(c) /\ call \in [Calls -> CallStates]
    BY CallTyped DEF Inv
  <2>2. ~At(c, "free")
    BY <1>1, <2>1, SessionsAssumption DEF CallInv, FreeInv
  <2>3. Req(c) \in Requests /\ (call[c].session # Null => Created(call[c].session))
    BY <2>1, <2>2 DEF CallInv, ArrivedInv
  <2>4. call[c].fresh # Null => Issued(call[c].fresh)
    <3>1. CASE Is(c, "refresh")
      <4>1. Req(c).token \in Tokens /\ next[Req(c).token] = call[c].fresh
        BY <1>1, <2>1, <2>2, <2>3, <3>1, RequestsAssumption DEF CallInv, RefreshInv
      <4>. QED  BY <2>1, <4>1 DEF LineInv
    <3>2. CASE ~Is(c, "refresh")
      BY <1>1, <2>1, <2>2, <3>2 DEF CallInv, ArrivedInv, LoginInv, Is, Req
    <3>. QED  BY <3>1, <3>2
  <2>. QED  BY <2>3, <2>4
<1>2. SessionsTypeOK /\ IdsInv
  BY DEF Inv
<1>. QED  BY <1>1, <1>2, <1>n DEF IdsInv, KnownTokens, KnownSessions, Answered, Issued, Created

LEMMA BeginInv ==
    ASSUME Inv, NEW c \in Calls, Begin(c)
    PROVE  Inv'
<1>1. PICK q \in Requests :
        /\ q.token \in KnownTokens \cup {Null} /\ q.session \in KnownSessions \cup {Null}
        /\ q.kind = "change" => owner[q.session] = q.user
        /\ Receive(c, q)
  BY DEF Begin
<1>2. c \in Free
  BY DEF Begin
<1>3. (q.token # Null => Issued(q.token)) /\ (q.session # Null => Created(q.session))
  BY <1>1, KnownExists
<1>. QED  BY <1>1, <1>2, <1>3, ReceiveInv

LEMMA ExpireInv ==
    ASSUME Inv, NEW s \in Sessions, Expire(s)
    PROVE  Inv'
<1>1. SessionsTypeOK'
  BY DEF Inv, SessionsTypeOK, Expire, accounts, tokens
<1>2. IdsInv' /\ LineInv'
  BY DEF Inv, IdsInv, LineInv, Issued, Created, At, Expire, accounts, tokens
<1>3. ASSUME NEW d \in Calls
      PROVE  Rely(d)
  BY DEF Rely, Issued, Created, Expire, accounts, tokens
<1>. QED  BY <1>1, <1>2, <1>3, Stable DEF Inv

LEMMA StutterInv ==
    ASSUME Inv, UNCHANGED vars
    PROVE  Inv'
<1>1. SessionsTypeOK' /\ IdsInv' /\ LineInv'
  BY DEF Inv, SessionsTypeOK, IdsInv, LineInv, Issued, Created, At, vars, accounts, tokens
<1>2. ASSUME NEW d \in Calls
      PROVE  Rely(d)
  BY DEF Rely, Issued, Created, vars, accounts, tokens
<1>. QED  BY <1>1, <1>2, Stable DEF Inv

LEMMA ServeInv ==
    ASSUME Inv, Serve
    PROVE  Inv'
<1>1. PICK c \in Calls : Step(c) \/ Abort(c) \/ AbortDeadlocked(c)
  BY DEF Serve
<1>2. CASE Step(c)
  BY <1>2, LoginCheckInv, LoginCreateInv, LoginIssueInv, RefreshReadInv, RefreshClaimInv,
     RefreshCommitInv, RefreshUserInv, UseUserInv, UseSessionInv, UseTouchInv, LogoutFindInv,
     SetStatusInv, ResetCheckInv, ChangeCheckInv, WritePasswordInv, RevokeFindInv,
     RevokeSessionsInv, RevokeTokensInv
  DEF Step
<1>3. CASE Abort(c)
  BY <1>3, FailInv DEF Abort
<1>4. CASE AbortDeadlocked(c)
  <2>1. call[c].pc # "free"
    <3>1. \E d \in Calls : d \in WaitsFor(c)
      BY <1>4 DEF AbortDeadlocked, Deadlocked
    <3>2. CASE At(c, "free")
      BY <3>1, <3>2 DEF WaitsFor, At
    <3>. QED  BY <3>2 DEF At
  <2>. QED  BY <1>4, <2>1, FailInv DEF AbortDeadlocked
<1>. QED  BY <1>1, <1>2, <1>3, <1>4

LEMMA InitInv == Init => Inv
<1>. SUFFICES ASSUME Init
              PROVE  Inv
  OBVIOUS
<1>n. Null \notin Users /\ Null \notin Tokens /\ Null \notin Sessions
  BY SessionsAssumption DEF Rows
<1>1. SessionsTypeOK
  BY SessionsAssumption DEF Init, SessionsTypeOK, Statuses, Steps, Answers
<1>2. IdsInv
  BY SessionsAssumption, <1>n DEF Init, IdsInv, Issued, Created
<1>3. LineInv
  BY SessionsAssumption, <1>n DEF Init, LineInv, Issued, Created, At
<1>4. ASSUME NEW c \in Calls
      PROVE  CallInv(c)
  BY DEF Init, CallInv, FreeInv, ArrivedInv, LoginInv, RefreshInv, UseInv, EndsInv, RevokeInv, At
<1>. QED  BY <1>1, <1>2, <1>3, <1>4 DEF Inv

\* The invariant is inductive.
LEMMA NextInv == Inv /\ [Next]_vars => Inv'
BY BeginInv, ExpireInv, StutterInv, ServeInv DEF Next, Finished

----------------------------------------------------------------------------
(* What the invariant says of the properties. *)

LEMMA InvImpliesConsumedAtMostOnce == Inv => ConsumedAtMostOnce
<1>. SUFFICES ASSUME Inv
              PROVE  ConsumedAtMostOnce
  OBVIOUS
<1>0. SessionsTypeOK /\ IdsInv /\ LineInv /\ \A c \in Calls : CallInv(c)
  BY DEF Inv
<1>1. ASSUME NEW c \in Calls, call[c].answer = "ok", call[c].req.kind = "refresh"
      PROVE  call[c].fresh # Null /\ next[call[c].req.token] = call[c].fresh
  BY <1>0, <1>1, SessionsAssumption DEF CallInv, FreeInv, RefreshInv, At, Is, Req
<1>2. ASSUME NEW c \in Calls, NEW d \in Calls, c # d, call[c].answer = "ok", call[d].answer = "ok",
             call[c].req.kind = "refresh", call[d].req.kind = "refresh"
      PROVE  call[c].req.token # call[d].req.token
  BY <1>0, <1>1, <1>2 DEF IdsInv
<1>3. ASSUME NEW s \in Sessions
      PROVE  Cardinality({t \in Tokens : family[t] = s /\ t \notin used \cup revoked}) <= 1
  <2>. DEFINE S == {t \in Tokens : family[t] = s /\ t \notin used \cup revoked}
  <2>1. \A x, y \in S : x = y
    BY <1>0, SessionsAssumption DEF LineInv, Issued, Rows
  <2>2. CASE S = {}
    BY <2>2, FS_EmptySet
  <2>3. CASE S # {}
    <3>1. PICK x : x \in S
      BY <2>3
    <3>2. S = {x}
      BY <2>1, <3>1
    <3>. QED  BY <3>2, FS_Singleton
  <2>. QED  BY <2>2, <2>3
<1>. QED  BY <1>2, <1>3 DEF ConsumedAtMostOnce

LEMMA InvImpliesFamilyDiesTogether == Inv => FamilyDiesTogether
BY DEF Inv, LineInv, FamilyDiesTogether

LEMMA InvImpliesReplayEndsSession == Inv => ReplayEndsSession
<1>. SUFFICES ASSUME Inv, NEW c \in Calls, NEW d \in Calls, c # d, call[c].answer = "ok",
                     call[d].answer \notin {Null, "aborted"},
                     call[c].req.kind = "refresh", call[d].req.kind = "refresh",
                     call[c].req.token = call[d].req.token
              PROVE  call[c].session \in revoked \cup expired
  BY DEF ReplayEndsSession
<1>1. call[d].answer # "ok"
  BY InvImpliesConsumedAtMostOnce DEF ConsumedAtMostOnce
<1>2. call[d].answer \in {"rejected", "reused"}
  BY <1>1 DEF Inv, SessionsTypeOK, Answers
<1>3. CallInv(c) /\ CallInv(d) /\ ~At(c, "free") /\ ~At(d, "free")
  BY <1>2, SessionsAssumption DEF Inv, CallInv, FreeInv
<1>4. call[c].req.token # Null /\ call[c].session = family[call[c].req.token]
  BY <1>3 DEF CallInv, RefreshInv, Is, Req
<1>5. call[d].session = family[call[c].req.token] /\ call[d].session \in revoked \cup expired
  BY <1>2, <1>3, <1>4 DEF CallInv, RefreshInv, RefusedInv, Is, Req
<1>. QED  BY <1>4, <1>5

LEMMA InvImpliesAccessChangeEndsSessions == Inv => AccessChangeEndsSessions
<1>. SUFFICES ASSUME Inv, NEW c \in Calls, call[c].answer = "ok"
              PROVE  /\ call[c].req.kind \in {"status", "reset", "change"}
                           /\ call[c].req.status # "ACTIVE"
                        => \A s \in call[c].had : s \in revoked \/ s = call[c].session
                     /\ call[c].req.kind \in {"refresh", "use", "reset"} => ~call[c].late
  BY DEF AccessChangeEndsSessions
<1>1. CallInv(c) /\ ~At(c, "free")
  BY SessionsAssumption DEF Inv, CallInv, FreeInv
<1>. QED  BY <1>1 DEF CallInv, RefreshInv, UseInv, EndsInv, Doomed, Is, Req

----------------------------------------------------------------------------
\* The invariant holds in every reachable state of Sessions.
LEMMA InvHolds == Spec => []Inv
BY InitInv, NextInv, PTL DEF Spec

\* Every variable of the session tables and of the calls has its type.
THEOREM SessionsTypeCorrect == Spec => []SessionsTypeOK
<1>1. Inv => SessionsTypeOK
  BY DEF Inv
<1>. QED  BY <1>1, InvHolds, PTL

\* Session.consumeForRotation: of any number of concurrent refreshes of a token at most one
\* succeeds, and a session never has two tokens that can still be rotated.
THEOREM ConsumedAtMostOnceHolds == Spec => []ConsumedAtMostOnce
BY InvHolds, InvImpliesConsumedAtMostOnce, PTL

\* revokeSession and revokeAllSessionsForUser: a revocation takes every successor along.
THEOREM FamilyDiesTogetherHolds == Spec => []FamilyDiesTogether
BY InvHolds, InvImpliesFamilyDiesTogether, PTL

\* AuthService.refresh: a replay ends the session, in whatever order it ran.
THEOREM ReplayEndsSessionHolds == Spec => []ReplayEndsSession
BY InvHolds, InvImpliesReplayEndsSession, PTL

\* A suspension or a change of password leaves no session behind, and nothing that relies
\* on a dead session succeeds.
THEOREM AccessChangeEndsSessionsHolds == Spec => []AccessChangeEndsSessions
BY InvHolds, InvImpliesAccessChangeEndsSessions, PTL
=============================================================================
