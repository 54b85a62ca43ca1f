--------------------------- MODULE WebClientProofs ---------------------------
(***************************************************************************)
(* Proofs about module WebClient, for any tabs, users, sessions, tokens,    *)
(* requests and number of concurrent calls: the invariant of Sessions       *)
(* holds whoever sends the requests, and a browser never replays a token    *)
(* by its own doing.                                                        *)
(***************************************************************************)
EXTENDS WebClient, SessionsProofs

Pages == [sid: Sessions \cup {Null}, fresh: BOOLEAN, flight: Calls \cup {Null}, waiting: BOOLEAN]

BrowserTypeOK ==
    /\ crowd \in BOOLEAN /\ excused \in BOOLEAN
    /\ cookie \in Tokens \cup {Null}
    /\ page \in [Tabs -> Pages]
    /\ pending \in [Calls -> Tabs \cup {Gone, Null}]
    /\ retried \subseteq Calls

\* What the browser holds was handed to it by the server.
HeldInv ==
    /\ cookie # Null => Issued(cookie)
    /\ \A t \in Tabs : page[t].sid # Null => Created(page[t].sid)

----------------------------------------------------------------------------
(* The browser while nothing excuses a replay. *)

\* A refresh that is not answered, or whose answer is on its way.
Flying(c) == ~At(c, "free") /\ Is(c, "refresh") /\ (~At(c, "done") \/ pending[c] # Null)

\* The page that sent a refresh waits for it, and no other page has sent one.
OneFlight ==
    /\ \A c \in Calls : Flying(c) => pending[c] \in Tabs /\ page[pending[c]].flight = c
    /\ \A t, u \in Tabs : page[t].flight # Null /\ page[u].flight # Null => t = u

\* A token on its way to the browser is nobody's yet.
FreshInv ==
    \A c \in Calls : call[c].fresh # Null /\ pending[c] # Null =>
        /\ call[c].fresh # cookie /\ call[c].fresh \notin used
        /\ \A d \in Calls : ~At(d, "free") => Req(d).token # call[c].fresh

\* The cookie is used only by the refresh in flight, and a refresh that was not decided
\* carries a token nobody used: if it is refused then because of a sign-out, and what it
\* looks for to revoke is revoked.
UnusedInv ==
    /\ cookie \in used => \E c \in Calls : Flying(c) /\ Req(c).token = cookie
    /\ \A c \in Calls : ~At(c, "free") /\ Is(c, "refresh") =>
          /\ call[c].pc \in {"check", "claim", "touch"} => Req(c).token \notin used
          /\ At(c, "find") /\ call[c].fresh = Null => Req(c).token \in revoked
          /\ call[c].pc \in {"kill", "tokens"} /\ call[c].fresh = Null => call[c].todo = {}
    /\ \A c \in Calls : Answer(c) = "reused" => call[c].todo = {}

WebInv ==
    /\ Inv
    /\ TypeOK
    /\ HeldInv
    /\ ~crowd /\ ~excused => OneFlight /\ FreshInv /\ UnusedInv

LEMMA TypeOKParts == TypeOK <=> SessionsTypeOK /\ BrowserTypeOK
BY DEF TypeOK, BrowserTypeOK, Pages

----------------------------------------------------------------------------
(* What a statement of the server changes that the browser may notice. *)

Effect(c) ==
    /\ Others(c) /\ call'[c].req = call[c].req
    /\ call[c].pc \notin {"free", "done"} /\ call'[c].pc # "free"
    /\ call'[c].fresh # call[c].fresh => call'[c].fresh \in Tokens /\ ~Issued(call'[c].fresh)
    /\ revoked \subseteq revoked'
    /\ used \subseteq used' /\ used' \subseteq used \cup {Req(c).token}
    /\ used' # used => /\ Is(c, "refresh") /\ call[c].pc \in {"claim", "touch"}
                       /\ call'[c].pc \in {"user", "done"}
    /\ Is(c, "refresh") =>
          /\ call'[c].pc \in {"claim", "touch"} => call[c].pc \in {"check", "claim", "touch"}
          /\ call'[c].pc # "check"
          /\ call'[c].pc = "find" =>
                \/ call'[c].fresh # Null
                \/ call[c].pc \in {"check", "claim"} /\ Req(c).token \in used \cup revoked
          /\ call'[c].pc \in {"kill", "tokens"} =>
                \/ call[c].pc \in {"kill", "tokens"} /\ call'[c].todo = call[c].todo
                   /\ call'[c].fresh = call[c].fresh
                \/ call[c].pc = "find" /\ call'[c].todo = {call[c].session} \ revoked
                   /\ call'[c].fresh = call[c].fresh
    /\ call'[c].answer = "reused" =>
          Is(c, "refresh") /\ call[c].pc = "tokens" /\ call[c].fresh = Null
          /\ call'[c].todo = call[c].todo

LEMMA StepEffect ==
    ASSUME Inv, NEW c \in Calls, Step(c)
    PROVE  Effect(c)
<1>0. /\ SessionsTypeOK /\ CallInv(c) /\ call \in [Calls -> CallStates]
  BY CallTyped DEF Inv
<1>n. Null \notin {"ok", "rejected", "reused", "aborted"} /\ Null \notin Tokens
  BY SessionsAssumption DEF Rows
<1>k. /\ call[c].pc \in {"create", "issue"} => Is(c, "login")
      /\ call[c].pc \in {"claim", "touch", "user"} => Is(c, "refresh")
      /\ call[c].pc \in {"session", "stamp"} => Is(c, "use")
      /\ call[c].pc = "write" => Req(c).kind \in {"reset", "change"}
      /\ call[c].pc \notin {"free", "done"} => call[c].answer = Null
      /\ call[c].pc \in {"create", "issue", "check", "claim"} => call[c].fresh = Null \/ ~Is(c, "refresh")
      /\ call[c].pc = "user" => call[c].fresh # Null
  BY <1>0, KindAt DEF CallInv, ArrivedInv, RefreshInv, At, Is
<1>m. ASSUME NEW pc \in Steps, NEW answer \in Answers, Moved(c, pc, answer),
             call[c].pc \notin {"free", "done"}, pc \notin {"free", "check"},
             UNCHANGED <<used>>, revoked \subseteq revoked', answer # "reused",
             Is(c, "refresh") => pc \notin {"claim", "touch", "find", "kill", "tokens"}
      PROVE  Effect(c)
  BY <1>m DEF Effect, Moved
<1>1. ASSUME LoginCheck(c) \/ UseUser(c) \/ UseSession(c) \/ UseTouch(c) \/ LogoutFind(c)
             \/ SetStatus(c) \/ ResetCheck(c) \/ ChangeCheck(c) \/ WritePassword(c)
      PROVE  Effect(c)
  <2>1. ~Is(c, "refresh") /\ call[c].pc \in {"check", "session", "stamp", "write"}
    BY <1>k, <1>1 DEF LoginCheck, UseUser, UseSession, UseTouch, LogoutFind, SetStatus, ResetCheck,
       ChangeCheck, WritePassword, At, Is, Req
  <2>2. PICK pc \in {"create", "done", "session", "stamp", "find", "write"},
             answer \in {"ok", "rejected", Null} : Moved(c, pc, answer)
    BY <1>0, <1>k, <1>1, <2>1, GotoMoves, ReplyMoves
    DEF LoginCheck, UseUser, UseSession, UseTouch, LogoutFind, SetStatus, ResetCheck,
        ChangeCheck, WritePassword, Steps, Answers
  <2>3. UNCHANGED <<used, revoked>>
    BY <1>1 DEF LoginCheck, UseUser, UseSession, UseTouch, LogoutFind, SetStatus, ResetCheck,
       ChangeCheck, WritePassword, tokens
  <2>. QED  BY <1>m, <1>n, <2>1, <2>2, <2>3 DEF Steps, Answers
<1>2. CASE LoginCreate(c)
  BY <1>0, <1>k, <1>n, <1>2 DEF LoginCreate, Effect, Others, CallStates, At, Is, tokens, accounts
<1>3. CASE LoginIssue(c)
  <2>1. call[c].pc = "issue" /\ ~Is(c, "refresh") /\ call[c].fresh = Null
    BY <1>0, <1>3, <1>k DEF LoginIssue, At, Is, CallInv, LoginInv
  <2>2. CASE Reply(c, "ok")
    BY <1>0, <1>3, <1>n, <2>1, <2>2, <1>m, ReplyMoves DEF LoginIssue, Steps, Answers
  <2>3. CASE call' = [call EXCEPT ![c].fresh = NewToken, ![c].pc = "done", ![c].answer = "ok"]
    BY <1>0, <1>3, <1>n, <2>1, <2>3, NewTokenIsNew DEF LoginIssue, Effect, Others, CallStates, Is, Req
  <2>. QED  BY <1>3, <2>2, <2>3 DEF LoginIssue
<1>4. CASE RefreshRead(c)
  BY <1>0, <1>k, <1>n, <1>4 DEF RefreshRead, Goto, Reply, Effect, Others, CallStates, At, Is, Req, tokens
<1>5. CASE RefreshClaim(c)
  <2>1. call[c].pc = "claim" /\ Is(c, "refresh") /\ call[c].fresh = Null
    BY <1>5, <1>k DEF RefreshClaim, At
  <2>2. NewToken \in Tokens /\ ~Issued(NewToken)
    BY <2>1, NewTokenIsNew
  <2>. QED
    BY <1>0, <1>k, <1>n, <1>5, <2>1, <2>2 DEF RefreshClaim, Goto, Reply, Effect, Others, CallStates, Is, Req
<1>6. CASE RefreshCommit(c)
  BY <1>0, <1>k, <1>n, <1>6
  DEF RefreshCommit, Rotate, Goto, Effect, Others, CallStates, At, Is, Req
<1>7. CASE RefreshUser(c)
  BY <1>0, <1>k, <1>n, <1>7
  DEF RefreshUser, Goto, Reply, Effect, Others, CallStates, At, Is, Req, tokens
<1>8. CASE RevokeFind(c)
  <2>1. call[c].pc = "find" /\ (Is(c, "refresh") => Revocable(c) = {call[c].session})
    BY <1>8 DEF RevokeFind, At, Revocable
  <2>. QED  BY <1>0, <1>k, <1>n, <1>8, <2>1 DEF RevokeFind, Effect, Others, CallStates, Is, Req, tokens
<1>9. CASE RevokeSessions(c)
  BY <1>0, <1>k, <1>n, <1>9 DEF RevokeSessions, Effect, Others, CallStates, At, Is, Req, tokens
<1>10. CASE RevokeTokens(c)
  <2>1. /\ Outcome(c) \in {"ok", "reused", "rejected"}
        /\ Outcome(c) = "reused" => Is(c, "refresh") /\ call[c].fresh = Null
    BY DEF Outcome
  <2>2. call[c].pc = "tokens" /\ Moved(c, "done", Outcome(c))
    BY <1>0, <1>10, <2>1, ReplyMoves DEF RevokeTokens, Answers, At
  <2>. QED  BY <1>10, <2>1, <2>2 DEF RevokeTokens, Effect, Moved, tokens
<1>. QED
  BY <1>1, <1>2, <1>3, <1>4, <1>5, <1>6, <1>7, <1>8, <1>9, <1>10 DEF Step

LEMMA FailEffect ==
    ASSUME Inv, NEW c \in Calls, Abort(c) \/ AbortDeadlocked(c)
    PROVE  Effect(c)
<1>1. call[c].pc \notin {"free", "done"}
  <2>1. CASE AbortDeadlocked(c)
    <3>1. \E d \in Calls : d \in WaitsFor(c)
      BY <2>1 DEF AbortDeadlocked, Deadlocked
    <3>2. CASE At(c, "free") \/ At(c, "done")
      BY <3>1, <3>2 DEF WaitsFor, At
    <3>. QED  BY <3>2 DEF At
  <2>. QED  BY <2>1 DEF Abort
<1>2. Moved(c, "done", "aborted") /\ UNCHANGED <<used, revoked>>
  BY ReplyMoves DEF Inv, Abort, AbortDeadlocked, Fail, Answers, tokens
<1>. QED  BY <1>1, <1>2 DEF Effect, Moved

LEMMA ServeEffect ==
    ASSUME Inv, Serve
    PROVE  \E c \in Calls : Effect(c)
BY StepEffect, FailEffect DEF Serve

----------------------------------------------------------------------------
(* A statement of the server, seen from the browser. *)

\* Rows stay.
LEMMA ServeGrows ==
    ASSUME Inv, Serve
    PROVE  /\ \A t \in Tokens : Issued(t) => Issued(t)'
           /\ \A s \in Sessions : Created(s) => Created(s)'
<1>1. PICK c \in Calls : Step(c) \/ Abort(c) \/ AbortDeadlocked(c)
  BY DEF Serve
<1>2. CASE LoginCreate(c)
  <2>1. call[c].session = Null
    BY <1>2, KindAt DEF Inv, CallInv, LoginInv, LoginCreate, At
  <2>2. Created(NewSession) => FALSE
    BY <2>1, NewSessionIsNew
  <2>. QED  BY <1>2, <2>2 DEF LoginCreate, Inv, SessionsTypeOK, Issued, Created, tokens
<1>3. CASE LoginIssue(c)
  <2>1. call[c].fresh = Null
    BY <1>3, KindAt DEF Inv, CallInv, LoginInv, LoginIssue, At
  <2>2. NewToken \in Tokens /\ ~Issued(NewToken)
    BY <2>1, NewTokenIsNew
  <2>. QED  BY <1>3, <2>2 DEF LoginIssue, Inv, SessionsTypeOK, Issued, Created
<1>4. CASE RefreshCommit(c)
  <2>1. call[c].fresh \in Tokens /\ ~Issued(call[c].fresh)
    BY <1>4, KindAt, CallTyped DEF Inv, CallInv, RefreshInv, RefreshCommit, At, CallStates
  <2>. QED
    BY <1>4, <2>1 DEF RefreshCommit, Rotate, Inv, SessionsTypeOK, Issued, Created
<1>5. CASE ~LoginCreate(c) /\ ~LoginIssue(c) /\ ~RefreshCommit(c)
  <2>1. UNCHANGED <<owner, family>>
    BY <1>1, <1>5 DEF Step, LoginCheck, RefreshRead, RefreshClaim, RefreshUser, UseUser, UseSession,
       UseTouch, LogoutFind, SetStatus, ResetCheck, ChangeCheck, WritePassword, RevokeFind,
       RevokeSessions, RevokeTokens, Abort, AbortDeadlocked, tokens
  <2>. QED  BY <2>1 DEF Issued, Created
<1>. QED  BY <1>2, <1>3, <1>4, <1>5

\* Two refreshes in flight are one.
LEMMA SoleFlight ==
    ASSUME OneFlight, NEW c \in Calls, NEW d \in Calls, Flying(c), Flying(d), Null \notin Calls
    PROVE  c = d
BY DEF OneFlight

LEMMA ServeWebInv ==
    ASSUME WebInv, Serve, UNCHANGED <<crowd, browser>>
    PROVE  WebInv'
<1>0. /\ Inv /\ TypeOK /\ HeldInv /\ SessionsTypeOK /\ BrowserTypeOK /\ LineInv
      /\ call \in [Calls -> CallStates]
  BY TypeOKParts, CallTyped DEF WebInv, Inv
<1>n. Null \notin Tokens /\ Null \notin Calls
  BY SessionsAssumption DEF Rows
<1>1. Inv'
  BY <1>0, ServeInv
<1>2. UNCHANGED <<crowd, excused, cookie, page, pending, retried>>
  BY DEF browser
<1>3. TypeOK'
  BY <1>0, <1>1, <1>2, TypeOKParts DEF Inv, TypeOK
<1>4. HeldInv'
  BY <1>0, <1>2, ServeGrows DEF HeldInv, BrowserTypeOK, Pages
<1>5. PICK c \in Calls : Effect(c)
  BY <1>0, ServeEffect
<1>6. ASSUME ~crowd, ~excused
      PROVE  OneFlight' /\ FreshInv' /\ UnusedInv'
  <2>0. OneFlight /\ FreshInv /\ UnusedInv
    BY <1>6 DEF WebInv
  <2>1. /\ \A d \in Calls : d # c => call'[d] = call[d]
        /\ \A d \in Calls : call'[d].req = call[d].req
        /\ \A d \in Calls : At(d, "free")' <=> At(d, "free")
    BY <1>5 DEF Effect, Others, At
  <2>2. \A d \in Calls : Flying(d)' => Flying(d)
    BY <1>2, <1>5, <2>1 DEF Flying, Effect, At, Is
  <2>3. OneFlight'
    BY <1>2, <2>0, <2>2 DEF OneFlight
  <2>c. ~At(c, "free") /\ ~At(c, "done")
    BY <1>5 DEF Effect, At
  <2>r. ~At(c, "free") /\ Is(c, "refresh") => Flying(c) /\ pending[c] # Null
    BY <2>0, <2>c, WebClientAssumption DEF Flying, OneFlight
  <2>4. FreshInv'
    <3>. SUFFICES ASSUME NEW d \in Calls, call'[d].fresh # Null, pending[d] # Null
                  PROVE  /\ call'[d].fresh # cookie /\ call'[d].fresh \notin used'
                         /\ \A e \in Calls : ~At(e, "free") => Req(e).token # call'[d].fresh
      BY <1>2, <2>1 DEF FreshInv, Req
    <3>1. CASE call'[d].fresh = call[d].fresh
      <4>1. /\ call[d].fresh # cookie /\ call[d].fresh \notin used
            /\ \A e \in Calls : ~At(e, "free") => Req(e).token # call[d].fresh
        BY <2>0, <3>1 DEF FreshInv
      <4>. QED  BY <1>5, <2>c, <3>1, <4>1 DEF Effect
    <3>2. CASE call'[d].fresh # call[d].fresh
      <4>1. d = c /\ call'[d].fresh \in Tokens /\ ~Issued(call'[d].fresh)
        BY <1>5, <2>1, <3>2 DEF Effect
      <4>2. call'[d].fresh # cookie /\ call'[d].fresh \notin used
        BY <1>0, <4>1 DEF HeldInv, LineInv
      <4>3. ASSUME NEW e \in Calls, ~At(e, "free")
            PROVE  Req(e).token # call'[d].fresh
        <5>1. CallInv(e) /\ Req(e) \in Requests
          BY <1>0, <4>3 DEF Inv, CallInv, ArrivedInv
        <5>2. Req(e).token # Null => Issued(Req(e).token)
          BY <4>3, <5>1, RequestsAssumption DEF CallInv, RefreshInv, Is, Req
        <5>. QED  BY <4>1, <5>2
      <4>. QED  BY <1>5, <2>c, <4>2, <4>3 DEF Effect
    <3>. QED  BY <3>1, <3>2
  <2>5. UnusedInv'
    <3>1. ASSUME cookie \in used'
          PROVE  \E d \in Calls : Flying(d)' /\ Req(d)'.token = cookie
      <4>1. CASE cookie \in used
        <5>1. PICK d \in Calls : Flying(d) /\ Req(d).token = cookie
          BY <2>0, <4>1 DEF UnusedInv
        <5>2. pending[d] # Null
          BY <2>0, <5>1, WebClientAssumption DEF OneFlight
        <5>. QED  BY <1>2, <2>1, <5>1, <5>2 DEF Flying, At, Is, Req
      <4>2. CASE cookie \notin used
        <5>1. cookie = Req(c).token /\ Is(c, "refresh")
          BY <1>5, <3>1, <4>2 DEF Effect
        <5>. QED  BY <1>2, <2>1, <2>r, <2>c, <5>1 DEF Flying, At, Is, Req
      <4>. QED  BY <4>1, <4>2
    <3>2. ASSUME NEW d \in Calls, ~At(d, "free"), Is(d, "refresh")
          PROVE  /\ call'[d].pc \in {"check", "claim", "touch"} => Req(d).token \notin used'
                 /\ call'[d].pc = "find" /\ call'[d].fresh = Null => Req(d).token \in revoked'
                 /\ call'[d].pc \in {"kill", "tokens"} /\ call'[d].fresh = Null => call'[d].todo = {}
      <4>0. /\ call[d].pc \in {"check", "claim", "touch"} => Req(d).token \notin used
            /\ At(d, "find") /\ call[d].fresh = Null => Req(d).token \in revoked
            /\ call[d].pc \in {"kill", "tokens"} /\ call[d].fresh = Null => call[d].todo = {}
        BY <2>0, <3>2 DEF UnusedInv
      <4>1. CASE d # c
        <5>1. call'[d] = call[d] /\ revoked \subseteq revoked'
          BY <1>5, <2>1, <4>1 DEF Effect
        <5>2. call[d].pc \in {"check", "claim", "touch"} => Req(d).token \notin used'
          <6>. SUFFICES ASSUME call[d].pc \in {"check", "claim", "touch"}
                        PROVE  used' = used
            BY <4>0
          <6>1. Flying(d)
            BY <3>2 DEF Flying, At
          <6>2. ~Is(c, "refresh")
            BY <1>n, <2>0, <2>c, <2>r, <4>1, <6>1, SoleFlight
          <6>. QED  BY <1>5, <6>2 DEF Effect
        <5>. QED  BY <4>0, <5>1, <5>2 DEF At
      <4>2. CASE d = c
        <5>1. call'[c].pc \in {"check", "claim", "touch"} =>
                 call[c].pc \in {"check", "claim", "touch"} /\ used' = used
          BY <1>5, <3>2, <4>2 DEF Effect
        <5>2. call'[c].pc = "find" /\ call'[c].fresh = Null => Req(c).token \in revoked'
          BY <1>5, <3>2, <4>0, <4>2 DEF Effect
        <5>3. ASSUME call'[c].pc \in {"kill", "tokens"}, call'[c].fresh = Null
              PROVE  call'[c].todo = {}
          <6>1. CASE call[c].pc \in {"kill", "tokens"}
            BY <1>5, <3>2, <4>0, <4>2, <5>3, <6>1 DEF Effect
          <6>2. CASE call[c].pc \notin {"kill", "tokens"}
            <7>1. /\ call[c].pc = "find" /\ call'[c].todo = {call[c].session} \ revoked
                  /\ call[c].fresh = Null
              BY <1>5, <3>2, <4>2, <5>3, <6>2 DEF Effect
            <7>2. Req(c).token \in revoked
              BY <4>0, <4>2, <7>1 DEF At
            <7>3. Req(c).token \in Tokens /\ call[c].session = family[Req(c).token]
              BY <1>0, <3>2, <4>2, <7>1, RefreshFacts DEF Inv
            <7>4. call[c].session \in revoked
              BY <1>0, <7>2, <7>3 DEF LineInv
            <7>. QED  BY <7>1, <7>4
          <6>. QED  BY <6>1, <6>2
        <5>. QED  BY <4>0, <4>2, <5>1, <5>2, <5>3
      <4>. QED  BY <4>1, <4>2
    <3>3. ASSUME NEW d \in Calls, call'[d].answer = "reused"
          PROVE  call'[d].todo = {}
      <4>1. CASE d # c
        BY <2>0, <2>1, <3>3, <4>1 DEF UnusedInv, Answer
      <4>2. CASE d = c
        BY <1>5, <2>0, <2>c, <3>3, <4>2 DEF UnusedInv, Effect, Answer
      <4>. QED  BY <4>1, <4>2
    <3>. QED  BY <1>2, <2>1, <3>1, <3>2, <3>3 DEF UnusedInv, At, Is, Req, Answer
  <2>. QED  BY <2>3, <2>4, <2>5
<1>. QED  BY <1>1, <1>2, <1>3, <1>4, <1>6 DEF WebInv

----------------------------------------------------------------------------
(* Requests of the browser. *)

\* Call c was free and carries request q now.
Sent(c, q) ==
    /\ Others(c) /\ call[c].pc = "free"
    /\ call'[c].req = q /\ call'[c].pc = "check" /\ call'[c].fresh = Null
    /\ call'[c].answer = Null /\ call'[c].todo = {}
    /\ UNCHANGED <<owner, revoked, expired, family, used, next>>

LEMMA ReceiveSent ==
    ASSUME Inv, NEW c \in Free, NEW q \in Requests, Receive(c, q)
    PROVE  Sent(c, q)
<1>1. /\ call \in [Calls -> CallStates] /\ c \in Calls /\ call[c].pc = "free"
      /\ call[c].fresh = Null /\ call[c].answer = Null /\ call[c].todo = {}
  BY CallTyped DEF Inv, Free, CallInv, FreeInv, At
<1>. QED  BY <1>1 DEF Receive, Sent, Others, CallStates, tokens

\* A refresh carries no session, anything else no token.
LEMMA RequestShape ==
    ASSUME NEW q \in Requests
    PROVE  /\ q.token \in Tokens \cup {Null} /\ q.session \in Sessions \cup {Null}
           /\ q.kind \in {"login", "refresh", "status", "reset"} => q.session = Null
           /\ q.kind # "refresh" => q.token = Null
BY RequestsAssumption

LEMMA FetchInv ==
    ASSUME Inv, HeldInv, BrowserTypeOK, NEW t \in Tabs, NEW c \in Free, NEW q \in Requests,
           Fetch(t, c, q, pending) \/ Receive(c, q),
           \/ q.kind = "refresh" /\ q.token = cookie
           \/ q.kind = "login"
           \/ q.kind \in {"use", "logout"} /\ Created(q.session)
    PROVE  Inv' /\ Sent(c, q)
<1>1. Receive(c, q)
  BY DEF Fetch
<1>2. (q.token # Null => Issued(q.token)) /\ (q.session # Null => Created(q.session))
  BY RequestShape DEF HeldInv
<1>. QED  BY <1>1, <1>2, ReceiveInv, ReceiveSent

\* What the rows that are there already leave to the browser.
LEMMA HeldStays ==
    ASSUME HeldInv, BrowserTypeOK, UNCHANGED <<owner, family>>,
           cookie' = cookie \/ (cookie' # Null => Issued(cookie')),
           \A t \in Tabs : \/ page'[t].sid \in {page[t].sid, Null}
                           \/ page'[t].sid # Null => Created(page'[t].sid)
    PROVE  HeldInv'
BY DEF HeldInv, Issued, Created

----------------------------------------------------------------------------
(* The browser while nothing excuses a replay. *)

Calm == OneFlight /\ FreshInv /\ UnusedInv

\* A request other than a refresh.
LEMMA FetchCalm ==
    ASSUME Inv, Calm, BrowserTypeOK, NEW t \in Tabs, NEW c \in Calls, NEW q \in Requests, Sent(c, q),
           q.kind # "refresh", pending' = [pending EXCEPT ![c] = t], cookie' = cookie,
           \A u \in Tabs : page'[u].flight = page[u].flight
    PROVE  Calm'
<1>0. /\ \A d \in Calls : d # c => call'[d] = call[d] /\ pending'[d] = pending[d]
      /\ ~Flying(c) /\ q.token = Null
      /\ UNCHANGED <<used, revoked>>
  BY RequestShape DEF Sent, Others, Flying, At, BrowserTypeOK
<1>n. Null \notin {"ok", "rejected", "reused", "aborted"} /\ Null \notin Tokens
  BY SessionsAssumption DEF Rows
<1>1. \A d \in Calls : Flying(d)' <=> (d # c /\ Flying(d))
  BY <1>0 DEF Flying, Sent, At, Is
<1>2. OneFlight'
  BY <1>0, <1>1 DEF Calm, OneFlight
<1>3. FreshInv'
  BY <1>0 DEF Calm, FreshInv, Sent, At, Req
<1>4. UnusedInv'
  <2>1. cookie' \in used' => \E d \in Calls : Flying(d)' /\ Req(d)'.token = cookie'
    BY <1>0, <1>1 DEF Calm, UnusedInv, Req
  <2>. QED  BY <1>0, <1>n, <2>1 DEF Calm, UnusedInv, Sent, At, Is, Req, Answer
<1>. QED  BY <1>2, <1>3, <1>4 DEF Calm

\* A refresh, of a page that has none in flight while no other page has one either.
LEMMA RefreshCalm ==
    ASSUME Inv, Calm, BrowserTypeOK, NEW t \in Tabs, NEW c \in Calls, NEW q \in Requests, Sent(c, q),
           q.kind = "refresh", q.token = cookie, cookie' = cookie, ~Refreshing(Tabs),
           pending'[c] = t, page'[t].flight = c,
           \A d \in Calls \ {c} : pending'[d] # Null => pending[d] # Null,
           \A u \in Tabs \ {t} : page'[u].flight = page[u].flight
    PROVE  Calm'
<1>n. Null \notin {"ok", "rejected", "reused", "aborted"} /\ Null \notin Tokens /\ Null \notin Calls
  BY SessionsAssumption DEF Rows
<1>0. /\ \A d \in Calls : d # c => call'[d] = call[d]
      /\ UNCHANGED <<used, revoked>>
  BY DEF Sent, Others
<1>1. \A u \in Tabs : page[u].flight = Null
  BY DEF Refreshing
<1>2. \A d \in Calls : ~Flying(d)
  BY <1>1, <1>n DEF Calm, OneFlight
<1>3. \A d \in Calls : d # c => ~Flying(d)'
  BY <1>0, <1>2 DEF Flying, At, Is
<1>4. OneFlight'
  BY <1>1, <1>3 DEF OneFlight
<1>5. cookie \notin used
  BY <1>2 DEF Calm, UnusedInv
<1>6. FreshInv'
  BY <1>0 DEF Calm, FreshInv, Sent, At, Req
<1>7. UnusedInv'
  BY <1>0, <1>5, <1>n DEF Calm, UnusedInv, Sent, At, Is, Req, Answer
<1>. QED  BY <1>4, <1>6, <1>7 DEF Calm

\* Nothing is sent and no answer is taken.
LEMMA IdleCalm ==
    ASSUME Calm, UNCHANGED vars, cookie' = cookie,
           \A d \in Calls : pending'[d] = pending[d] \/ (pending'[d] = Null /\ ~Flying(d)),
           \A u \in Tabs : page'[u].flight = page[u].flight
    PROVE  Calm'
<1>0. UNCHANGED <<call, used, revoked>>
  BY DEF vars, tokens
<1>1. \A d \in Calls : (Flying(d)' => Flying(d)) /\ (Flying(d) => Flying(d)' /\ pending'[d] = pending[d])
  BY <1>0 DEF Flying, At, Is
<1>2. OneFlight'
  BY <1>1 DEF Calm, OneFlight
<1>3. FreshInv'
  BY <1>0 DEF Calm, FreshInv, At, Req
<1>4. UnusedInv'
  BY <1>0, <1>1 DEF Calm, UnusedInv, At, Is, Req, Answer
<1>. QED  BY <1>2, <1>3, <1>4 DEF Calm

\* A call's answer is taken: a refresh in flight has landed.
LEMMA DeliverCalm ==
    ASSUME Inv, Calm, BrowserTypeOK, UNCHANGED vars, NEW c \in Calls, At(c, "done"), pending[c] # Null,
           pending' = [pending EXCEPT ![c] = Null],
           cookie' \in {Null, call[c].fresh} \/ (cookie' = cookie /\ ~Is(c, "refresh")),
           \A u \in Tabs :
              \/ page'[u].flight = page[u].flight
              \/ Is(c, "refresh") /\ Awaits(u, c) /\ page'[u].flight = Null
    PROVE  Calm'
<1>n. Null \notin Tokens /\ Null \notin Calls
  BY SessionsAssumption DEF Rows
<1>0. UNCHANGED <<call, used, revoked>>
  BY DEF vars, tokens
<1>t. SessionsTypeOK /\ IdsInv /\ call[c].fresh \in Tokens \cup {Null}
  BY CallTyped DEF Inv, CallStates
<1>1. \A d \in Calls : Flying(d)' <=> (d # c /\ Flying(d))
  BY <1>0 DEF Flying, At, Is, BrowserTypeOK
<1>2. Is(c, "refresh") => Flying(c)
  BY DEF Flying, At
<1>3. OneFlight'
  <2>1. ASSUME NEW d \in Calls, d # c, Flying(d)
        PROVE  pending'[d] \in Tabs /\ page'[pending'[d]].flight = d
    <3>1. pending[d] \in Tabs /\ page[pending[d]].flight = d /\ pending'[d] = pending[d]
      BY <2>1 DEF Calm, OneFlight, BrowserTypeOK
    <3>2. ~(Is(c, "refresh") /\ Awaits(pending[d], c))
      BY <1>2, <2>1, <3>1 DEF Calm, OneFlight, Awaits
    <3>. QED  BY <3>1, <3>2
  <2>2. \A u \in Tabs : page'[u].flight # Null => page[u].flight # Null
    OBVIOUS
  <2>. QED  BY <1>1, <2>1, <2>2 DEF Calm, OneFlight
<1>4. call[c].fresh # Null => call[c].fresh \notin used
  BY DEF Calm, FreshInv
<1>5. FreshInv'
  <2>1. ASSUME NEW d \in Calls, call[d].fresh # Null, pending'[d] # Null
        PROVE  call[d].fresh # cookie'
    <3>1. d # c /\ pending[d] # Null
      BY <2>1 DEF BrowserTypeOK
    <3>. QED  BY <1>t, <2>1, <3>1 DEF Calm, FreshInv, IdsInv
  <2>2. \A d \in Calls : pending'[d] # Null => pending[d] # Null
    BY DEF BrowserTypeOK
  <2>. QED  BY <1>0, <2>1, <2>2 DEF Calm, FreshInv, At, Req
<1>6. UnusedInv'
  <2>1. cookie' \in used => \E d \in Calls : Flying(d)' /\ Req(d).token = cookie'
    <3>1. CASE cookie' \in {Null, call[c].fresh}
      BY <1>4, <1>n, <1>t, <3>1 DEF SessionsTypeOK
    <3>2. CASE cookie' = cookie /\ ~Is(c, "refresh")
      BY <1>1, <3>2 DEF Calm, UnusedInv, Flying
    <3>. QED  BY <3>1, <3>2
  <2>. QED  BY <1>0, <2>1 DEF Calm, UnusedInv, At, Is, Req, Answer
<1>. QED  BY <1>3, <1>5, <1>6 DEF Calm

----------------------------------------------------------------------------
(* The actions of the browser. *)

LEMMA WebInvParts ==
    ASSUME WebInv
    PROVE  /\ Inv /\ BrowserTypeOK /\ HeldInv /\ SessionsTypeOK /\ LineInv
           /\ call \in [Calls -> CallStates]
           /\ ~crowd /\ ~excused => Calm
BY TypeOKParts, CallTyped DEF WebInv, Calm, Inv

LEMMA WebInvMade ==
    ASSUME Inv', BrowserTypeOK', HeldInv', ~crowd' /\ ~excused' => Calm'
    PROVE  WebInv'
BY TypeOKParts DEF WebInv, Calm, Inv, TypeOK, BrowserTypeOK, Pages

\* The refresh of a page; "others" is who waits for the other calls then.
LEMMA FetchRefreshInv ==
    ASSUME WebInv, NEW t \in Tabs, NEW c \in Free, NEW others \in [Calls -> Tabs \cup {Gone, Null}],
           FetchRefresh(t, c, others), UNCHANGED <<crowd, cookie, retried>>,
           \A d \in Calls : others[d] # Null => pending[d] # Null,
           page' \in [Tabs -> Pages], page'[t].flight = c,
           page'[t].sid \in {page[t].sid, Null},
           \A u \in Tabs \ {t} : page'[u] = page[u],
           excused' \in BOOLEAN, ~excused' => ~excused /\ ~Refreshing(Tabs)
    PROVE  WebInv'
<1>0. /\ Inv /\ BrowserTypeOK /\ HeldInv
      /\ ~crowd /\ ~excused => Calm
      /\ c \in Calls
  BY WebInvParts DEF Free
<1>1. PICK q \in Requests : q.kind = "refresh" /\ q.token = cookie /\ Fetch(t, c, q, others)
  BY DEF FetchRefresh
<1>2. pending' = [others EXCEPT ![c] = t] /\ Receive(c, q)
  BY <1>1 DEF Fetch
<1>3. Inv' /\ Sent(c, q)
  BY <1>0, <1>1, <1>2, FetchInv
<1>4. BrowserTypeOK'
  BY <1>0, <1>2 DEF BrowserTypeOK
<1>5. HeldInv'
  BY <1>0, <1>3, HeldStays DEF Sent
<1>6. ASSUME ~crowd', ~excused'
      PROVE  Calm'
  BY <1>0, <1>1, <1>2, <1>3, <1>6, RefreshCalm
<1>. QED  BY <1>3, <1>4, <1>5, <1>6, WebInvMade

\* A request other than a refresh.
LEMMA FetchOtherInv ==
    ASSUME WebInv, NEW t \in Tabs, NEW c \in Free, NEW q \in Requests, Fetch(t, c, q, pending),
           \/ q.kind = "login"
           \/ q.kind \in {"use", "logout"} /\ Created(q.session),
           UNCHANGED <<crowd, cookie, excused>>, retried' \subseteq Calls,
           page' \in [Tabs -> Pages],
           \A u \in Tabs : page'[u].flight = page[u].flight /\ page'[u].sid = page[u].sid
    PROVE  WebInv'
<1>0. /\ Inv /\ BrowserTypeOK /\ HeldInv
      /\ ~crowd /\ ~excused => Calm
      /\ c \in Calls
  BY WebInvParts DEF Free
<1>1. pending' = [pending EXCEPT ![c] = t]
  BY DEF Fetch
<1>2. Inv' /\ Sent(c, q)
  BY <1>0, FetchInv
<1>3. BrowserTypeOK'
  BY <1>0, <1>1 DEF BrowserTypeOK
<1>4. HeldInv'
  BY <1>0, <1>2, HeldStays DEF Sent
<1>5. ASSUME ~crowd', ~excused'
      PROVE  Calm'
  BY <1>0, <1>1, <1>2, <1>5, FetchCalm
<1>. QED  BY <1>2, <1>3, <1>4, <1>5, WebInvMade

LEMMA LoadInv ==
    ASSUME WebInv, NEW t \in Tabs, Load(t), UNCHANGED crowd
    PROVE  WebInv'
<1>0. BrowserTypeOK /\ excused \in BOOLEAN
  BY WebInvParts DEF BrowserTypeOK
<1>. DEFINE others == [d \in Calls |-> IF Awaits(t, d) THEN Gone ELSE pending[d]]
<1>1. PICK c \in Free : /\ FetchRefresh(t, c, others)
                        /\ page' = [page EXCEPT ![t] = [Blank EXCEPT !.flight = c]]
  BY DEF Load
<1>2. c \in Calls
  BY DEF Free
<1>3. others \in [Calls -> Tabs \cup {Gone, Null}] /\ \A d \in Calls : others[d] # Null => pending[d] # Null
  BY <1>0, WebClientAssumption DEF BrowserTypeOK, Awaits
<1>4. /\ page' \in [Tabs -> Pages] /\ page'[t].flight = c /\ page'[t].sid = Null
      /\ \A u \in Tabs \ {t} : page'[u] = page[u]
  BY <1>0, <1>1, <1>2 DEF BrowserTypeOK, Pages, Blank
<1>5. excused' = (excused \/ Refreshing(Tabs)) /\ UNCHANGED <<cookie, retried>>
  BY DEF Load
<1>6. excused' \in BOOLEAN /\ (~excused' => ~excused /\ ~Refreshing(Tabs))
  BY <1>0, <1>5
<1>. HIDE DEF others
<1>. QED  BY <1>1, <1>3, <1>4, <1>5, <1>6, FetchRefreshInv

\* A 401, at the answer of a request or before the request is sent.
LEMMA RefreshSessionInv ==
    ASSUME WebInv, NEW t \in Tabs, NEW others \in [Calls -> Tabs \cup {Gone, Null}],
           RefreshSession(t, others), UNCHANGED crowd,
           \A d \in Calls : others[d] = pending[d] \/ (others[d] = Null /\ ~Flying(d))
    PROVE  WebInv'
<1>0. /\ Inv /\ BrowserTypeOK /\ HeldInv
      /\ ~crowd /\ ~excused => Calm
  BY WebInvParts
<1>1. CASE /\ page[t].flight # Null
           /\ page' = [page EXCEPT ![t].waiting = TRUE]
           /\ pending' = others
           /\ UNCHANGED <<vars, excused>>
  <2>1. Inv'
    BY <1>0, <1>1, StutterInv
  <2>2. /\ page' \in [Tabs -> Pages]
        /\ \A u \in Tabs : page'[u].flight = page[u].flight /\ page'[u].sid = page[u].sid
    BY <1>0, <1>1 DEF BrowserTypeOK, Pages
  <2>3. BrowserTypeOK'
    BY <1>0, <1>1, <2>2 DEF BrowserTypeOK, RefreshSession
  <2>4. HeldInv'
    BY <1>0, <1>1, <2>2, HeldStays DEF RefreshSession, vars, tokens
  <2>5. ASSUME ~crowd', ~excused'
        PROVE  Calm'
    BY <1>0, <1>1, <2>2, <2>5, IdleCalm DEF RefreshSession
  <2>. QED  BY <2>1, <2>3, <2>4, <2>5, WebInvMade
<1>2. CASE /\ page[t].flight = Null
           /\ \E c \in Free :
                 FetchRefresh(t, c, others) /\ page' = [page EXCEPT ![t].flight = c, ![t].waiting = TRUE]
           /\ excused' = (excused \/ Refreshing(Tabs \ {t}))
  <2>1. PICK c \in Free : /\ FetchRefresh(t, c, others)
                          /\ page' = [page EXCEPT ![t].flight = c, ![t].waiting = TRUE]
    BY <1>2
  <2>2. c \in Calls
    BY DEF Free
  <2>3. /\ page' \in [Tabs -> Pages] /\ page'[t].flight = c /\ page'[t].sid = page[t].sid
        /\ \A u \in Tabs \ {t} : page'[u] = page[u]
    BY <1>0, <2>1, <2>2 DEF BrowserTypeOK, Pages
  <2>4. excused' \in BOOLEAN /\ (~excused' => ~excused /\ ~Refreshing(Tabs))
    BY <1>0, <1>2 DEF BrowserTypeOK, Refreshing
  <2>5. \A d \in Calls : others[d] # Null => pending[d] # Null
    OBVIOUS
  <2>6. UNCHANGED <<cookie, retried>>
    BY DEF RefreshSession
  <2>. QED  BY <2>1, <2>3, <2>4, <2>5, <2>6, FetchRefreshInv
<1>. QED  BY <1>1, <1>2 DEF RefreshSession

LEMMA SendInv ==
    ASSUME WebInv, NEW t \in Tabs, NEW c \in Free, Send(t, c), UNCHANGED <<crowd, cookie, excused>>,
           retried' \subseteq Calls, page' \in [Tabs -> Pages],
           \A u \in Tabs : page'[u].flight = page[u].flight /\ page'[u].sid = page[u].sid
    PROVE  WebInv'
<1>1. PICK q \in Requests : q.kind = "use" /\ q.session = page[t].sid /\ Fetch(t, c, q, pending)
  BY DEF Send
<1>2. q.session # Null
  BY <1>1, RequestsAssumption, SessionsAssumption DEF Rows
<1>3. Created(q.session)
  BY <1>1, <1>2, WebInvParts DEF HeldInv
<1>. QED  BY <1>1, <1>3, FetchOtherInv

LEMMA SignOutInv ==
    ASSUME WebInv, NEW t \in Tabs, SignOut(t), UNCHANGED crowd
    PROVE  WebInv'
<1>1. PICK c \in Free, q \in Requests :
        q.kind = "logout" /\ q.session = SignedIn(t) /\ Fetch(t, c, q, pending)
  BY DEF SignOut
<1>2. Created(q.session)
  BY <1>1, WebInvParts DEF SignOut, SignedIn, HeldInv, LineInv, BrowserTypeOK
<1>3. page \in [Tabs -> Pages] /\ retried \subseteq Calls
  BY WebInvParts DEF BrowserTypeOK
<1>. QED  BY <1>1, <1>2, <1>3, FetchOtherInv DEF SignOut

LEMMA SignInInv ==
    ASSUME WebInv, NEW t \in Tabs, SignIn(t), UNCHANGED crowd
    PROVE  WebInv'
<1>1. PICK c \in Free, q \in Requests : q.kind = "login" /\ Fetch(t, c, q, pending)
  BY DEF SignIn
<1>2. page \in [Tabs -> Pages] /\ retried \subseteq Calls
  BY WebInvParts DEF BrowserTypeOK
<1>. QED  BY <1>1, <1>2, FetchOtherInv DEF SignIn

LEMMA AskInv ==
    ASSUME WebInv, NEW t \in Tabs, AskStale(t) \/ AskFresh(t), UNCHANGED crowd
    PROVE  WebInv'
<1>0. pending \in [Calls -> Tabs \cup {Gone, Null}] /\ page \in [Tabs -> Pages] /\ retried \subseteq Calls
  BY WebInvParts DEF BrowserTypeOK
<1>1. CASE AskStale(t)
  BY <1>0, <1>1, RefreshSessionInv DEF AskStale
<1>2. CASE AskFresh(t)
  BY <1>0, <1>2, SendInv DEF AskFresh
<1>. QED  BY <1>1, <1>2

LEMMA RetryInv ==
    ASSUME WebInv, NEW t \in Tabs, Retry(t), UNCHANGED crowd
    PROVE  WebInv'
<1>0. /\ Inv /\ BrowserTypeOK /\ HeldInv
      /\ ~crowd /\ ~excused => Calm
  BY WebInvParts
<1>1. /\ page' \in [Tabs -> Pages]
      /\ \A u \in Tabs : page'[u].flight = page[u].flight /\ page'[u].sid = page[u].sid
  BY <1>0 DEF Retry, BrowserTypeOK, Pages
<1>2. CASE UNCHANGED <<vars, pending, retried>>
  <2>1. Inv'
    BY <1>0, <1>2, StutterInv
  <2>2. BrowserTypeOK'
    BY <1>0, <1>1, <1>2 DEF BrowserTypeOK, Retry
  <2>3. HeldInv'
    BY <1>0, <1>1, <1>2, HeldStays DEF Retry, vars, tokens
  <2>4. ASSUME ~crowd', ~excused'
        PROVE  Calm'
    BY <1>0, <1>1, <1>2, <2>4, IdleCalm DEF Retry
  <2>. QED  BY <2>1, <2>2, <2>3, <2>4, WebInvMade
<1>3. ASSUME NEW c \in Free, Send(t, c), retried' = retried \cup {c}
      PROVE  WebInv'
  <2>1. retried' \subseteq Calls
    BY <1>0, <1>3 DEF BrowserTypeOK, Free
  <2>. QED  BY <1>1, <1>3, <2>1, SendInv DEF Retry
<1>. QED  BY <1>2, <1>3 DEF Retry

LEMMA GrowStaleInv ==
    ASSUME WebInv, NEW t \in Tabs, GrowStale(t), UNCHANGED crowd
    PROVE  WebInv'
<1>0. /\ Inv /\ BrowserTypeOK /\ HeldInv
      /\ ~crowd /\ ~excused => Calm
  BY WebInvParts
<1>1. /\ page' \in [Tabs -> Pages]
      /\ \A u \in Tabs : page'[u].flight = page[u].flight /\ page'[u].sid = page[u].sid
  BY <1>0 DEF GrowStale, BrowserTypeOK, Pages
<1>2. Inv'
  BY <1>0, StutterInv DEF GrowStale
<1>3. BrowserTypeOK'
  BY <1>0, <1>1 DEF BrowserTypeOK, GrowStale
<1>4. HeldInv'
  BY <1>0, <1>1, HeldStays DEF GrowStale, vars, tokens
<1>5. ASSUME ~crowd', ~excused'
      PROVE  Calm'
  BY <1>0, <1>1, <1>5, IdleCalm DEF GrowStale
<1>. QED  BY <1>2, <1>3, <1>4, <1>5, WebInvMade

\* What an answer and a broken connection make of a page.
LEMMA AfterTyped ==
    ASSUME BrowserTypeOK, call \in [Calls -> CallStates], NEW p \in Pages, NEW c \in Calls,
           NEW boot \in BOOLEAN
    PROVE  /\ After(p, c, boot) \in Pages
           /\ After(p, c, boot).flight = p.flight \/ (Is(c, "refresh") /\ After(p, c, boot).flight = Null)
           /\ \/ After(p, c, boot).sid \in {p.sid, Null}
              \/ Answer(c) = "ok" /\ After(p, c, boot).sid = call[c].session
<1>1. WithToken(p, c) \in Pages /\ WithToken(p, c).flight = p.flight /\ WithToken(p, c).sid = call[c].session
  BY DEF WithToken, Pages, CallStates
<1>2. Without(p) \in Pages /\ Without(p).flight = p.flight /\ Without(p).sid = Null
  BY DEF Without, Pages
<1>3. Blank \in Pages /\ Blank.flight = Null /\ Blank.sid = Null
  BY DEF Blank, Pages
<1>4. [WithToken(p, c) EXCEPT !.flight = Null] \in Pages
      /\ [WithToken(p, c) EXCEPT !.flight = Null].flight = Null
      /\ [WithToken(p, c) EXCEPT !.flight = Null].sid = call[c].session
  BY <1>1 DEF Pages
<1>. QED  BY <1>1, <1>2, <1>3, <1>4 DEF After

LEMMA CutTyped ==
    ASSUME NEW p \in Pages, NEW c \in Calls, NEW boot \in BOOLEAN
    PROVE  /\ Cut(p, c, boot) \in Pages
           /\ Cut(p, c, boot).flight = p.flight \/ Is(c, "refresh")
           /\ Cut(p, c, boot).sid \in {p.sid, Null}
<1>1. Without(p) \in Pages /\ Without(p).flight = p.flight /\ Without(p).sid = Null
  BY DEF Without, Pages
<1>2. Blank \in Pages /\ Blank.sid = Null
  BY DEF Blank, Pages
<1>3. [p EXCEPT !.flight = Null] \in Pages /\ [p EXCEPT !.flight = Null].sid = p.sid
  BY DEF Pages
<1>. QED  BY <1>1, <1>2, <1>3 DEF Cut

LEMMA DeliverInv ==
    ASSUME WebInv, NEW c \in Calls, Deliver(c), UNCHANGED crowd
    PROVE  WebInv'
<1>0. /\ Inv /\ BrowserTypeOK /\ HeldInv /\ SessionsTypeOK /\ LineInv
      /\ call \in [Calls -> CallStates]
      /\ ~crowd /\ ~excused => Calm
  BY WebInvParts
<1>n. Null \notin Tokens /\ Null \notin Sessions
  BY SessionsAssumption DEF Rows
<1>1. ASSUME Refused(c), pending[c] # Gone, RefreshSession(pending[c], [pending EXCEPT ![c] = Null])
      PROVE  WebInv'
  <2>1. pending[c] \in Tabs
    BY <1>0, <1>1 DEF Deliver, BrowserTypeOK
  <2>2. [pending EXCEPT ![c] = Null] \in [Calls -> Tabs \cup {Gone, Null}]
    BY <1>0 DEF BrowserTypeOK
  <2>3. ~Flying(c)
    BY <1>1 DEF Refused, Flying, Is
  <2>4. \A d \in Calls : \/ [pending EXCEPT ![c] = Null][d] = pending[d]
                         \/ [pending EXCEPT ![c] = Null][d] = Null /\ ~Flying(d)
    BY <1>0, <2>3 DEF BrowserTypeOK
  <2>. QED  BY <1>1, <2>1, <2>2, <2>4, RefreshSessionInv
<1>2. ASSUME cookie' = SetCookie(c), NEW boot \in BOOLEAN,
             page' = [t \in Tabs |-> IF Awaits(t, c) THEN After(page[t], c, boot) ELSE page[t]],
             pending' = [pending EXCEPT ![c] = Null], UNCHANGED <<vars, retried, excused>>
      PROVE  WebInv'
  <2>1. Inv'
    BY <1>0, <1>2, StutterInv
  <2>2. \A t \in Tabs : page[t] \in Pages
    BY <1>0 DEF BrowserTypeOK
  <2>3. /\ page' \in [Tabs -> Pages]
        /\ \A t \in Tabs :
              /\ \/ page'[t].flight = page[t].flight
                 \/ Is(c, "refresh") /\ Awaits(t, c) /\ page'[t].flight = Null
              /\ \/ page'[t].sid \in {page[t].sid, Null}
                 \/ Answer(c) = "ok" /\ page'[t].sid = call[c].session
    BY <1>0, <1>2, <2>2, AfterTyped
  <2>4. /\ cookie' \in {Null, call[c].fresh} \/ (cookie' = cookie /\ ~Is(c, "refresh"))
        /\ \/ cookie' \in {Null, cookie}
           \/ Answer(c) = "ok" /\ cookie' = call[c].fresh
    BY <1>2 DEF SetCookie, Is
  <2>5. call[c].fresh \in Tokens \cup {Null}
    BY <1>0 DEF CallStates
  <2>6. BrowserTypeOK'
    BY <1>0, <1>2, <2>3, <2>4, <2>5 DEF BrowserTypeOK
  <2>7. Answer(c) = "ok" => /\ call[c].fresh # Null => Issued(call[c].fresh)
                            /\ call[c].session # Null => Created(call[c].session)
    <3>. SUFFICES ASSUME Answer(c) = "ok"
                  PROVE  /\ call[c].fresh # Null => Issued(call[c].fresh)
                         /\ call[c].session # Null => Created(call[c].session)
      OBVIOUS
    <3>1. c \in Answered /\ call[c].session \in Sessions \cup {Null}
      BY <1>0 DEF Answered, Answer, CallStates
    <3>. QED  BY <1>0, <2>5, <3>1, KnownExists DEF KnownTokens, KnownSessions
  <2>8. HeldInv'
    BY <1>0, <1>2, <2>3, <2>4, <2>7, HeldStays DEF vars, tokens, HeldInv
  <2>9. ASSUME ~crowd', ~excused'
        PROVE  Calm'
    BY <1>0, <1>2, <2>3, <2>4, <2>9, DeliverCalm DEF Deliver
  <2>. QED  BY <2>1, <2>6, <2>8, <2>9, WebInvMade
<1>. QED  BY <1>1, <1>2 DEF Deliver

LEMMA LoseInv ==
    ASSUME WebInv, NEW c \in Calls, Lose(c), UNCHANGED crowd
    PROVE  WebInv'
<1>0. /\ Inv /\ BrowserTypeOK /\ HeldInv
      /\ ~crowd /\ ~excused => Calm
  BY WebInvParts
<1>1. PICK boot \in BOOLEAN :
        page' = [t \in Tabs |-> IF Awaits(t, c) THEN Cut(page[t], c, boot) ELSE page[t]]
  BY DEF Lose
<1>2. \A t \in Tabs : page[t] \in Pages
  BY <1>0 DEF BrowserTypeOK
<1>3. /\ page' \in [Tabs -> Pages]
      /\ \A t \in Tabs : /\ page'[t].flight = page[t].flight \/ Is(c, "refresh")
                         /\ page'[t].sid \in {page[t].sid, Null}
  BY <1>1, <1>2, CutTyped
<1>4. Inv'
  BY <1>0, StutterInv DEF Lose
<1>5. excused' \in BOOLEAN /\ (~excused' => ~excused /\ ~Is(c, "refresh"))
  BY <1>0 DEF Lose, BrowserTypeOK
<1>6. BrowserTypeOK'
  BY <1>0, <1>3, <1>5 DEF BrowserTypeOK, Lose
<1>7. HeldInv'
  BY <1>0, <1>3, HeldStays DEF Lose, vars, tokens
<1>8. ASSUME ~crowd', ~excused'
      PROVE  Calm'
  <2>1. ~Flying(c) /\ ~excused /\ ~crowd
    BY <1>5, <1>8 DEF Flying
  <2>2. \A d \in Calls : pending'[d] = pending[d] \/ (pending'[d] = Null /\ ~Flying(d))
    BY <1>0, <2>1 DEF Lose, BrowserTypeOK
  <2>. QED  BY <1>0, <1>3, <1>5, <1>8, <2>1, <2>2, IdleCalm DEF Lose
<1>. QED  BY <1>4, <1>6, <1>7, <1>8, WebInvMade

\* The steps of the crowd leave the browser alone.
LEMMA CrowdInv ==
    ASSUME WebInv, crowd, UNCHANGED <<crowd, browser>>,
           (\E c \in Calls : Begin(c)) \/ (\E s \in Sessions : Expire(s))
    PROVE  WebInv'
<1>0. Inv /\ BrowserTypeOK /\ HeldInv
  BY WebInvParts
<1>1. Inv'
  BY <1>0, BeginInv, ExpireInv
<1>2. UNCHANGED <<owner, family>>
  BY DEF Begin, Receive, Expire, tokens
<1>3. BrowserTypeOK' /\ HeldInv'
  BY <1>0, <1>2, HeldStays DEF BrowserTypeOK, browser
<1>. QED  BY <1>1, <1>3, WebInvMade

LEMMA WebStutterInv ==
    ASSUME WebInv, UNCHANGED allVars
    PROVE  WebInv'
<1>0. Inv /\ BrowserTypeOK /\ HeldInv /\ (~crowd /\ ~excused => Calm)
  BY WebInvParts
<1>1. Inv'
  BY <1>0, StutterInv DEF allVars
<1>2. BrowserTypeOK' /\ HeldInv'
  BY <1>0, HeldStays DEF BrowserTypeOK, allVars, browser, vars, tokens
<1>3. ~crowd' /\ ~excused' => Calm'
  BY <1>0, IdleCalm DEF allVars, browser
<1>. QED  BY <1>1, <1>2, <1>3, WebInvMade

LEMMA WebInitInv == WebInit => WebInv
<1>. SUFFICES ASSUME WebInit
              PROVE  WebInv
  OBVIOUS
<1>1. Inv
  BY InitInv DEF WebInit
<1>2. BrowserTypeOK
  BY WebClientAssumption DEF WebInit, BrowserTypeOK, Pages, Blank
<1>3. HeldInv
  BY WebClientAssumption, SessionsAssumption DEF WebInit, Init, HeldInv, Blank, Issued, Created, Rows
<1>4. Calm
  BY SessionsAssumption
  DEF WebInit, Init, Calm, OneFlight, FreshInv, UnusedInv, Flying, Blank, At, Answer
<1>. QED  BY <1>1, <1>2, <1>3, <1>4, TypeOKParts DEF WebInv, Calm, Inv

LEMMA WebNextInv == WebInv /\ [WebNext]_allVars => WebInv'
<1>. SUFFICES ASSUME WebInv, [WebNext]_allVars
              PROVE  WebInv'
  OBVIOUS
<1>1. CASE Serve /\ UNCHANGED <<crowd, browser>>
  BY <1>1, ServeWebInv
<1>2. CASE /\ crowd
           /\ \/ \E c \in Calls : Begin(c) /\ call'[c].req \in CrowdRequests
              \/ \E s \in Sessions : Expire(s)
           /\ UNCHANGED <<crowd, browser>>
  BY <1>2, CrowdInv
<1>3. CASE Browse /\ UNCHANGED crowd
  BY <1>3, LoadInv, AskInv, RetryInv, SignInInv, SignOutInv, GrowStaleInv, DeliverInv, LoseInv
  DEF Browse
<1>4. CASE (Finished /\ UNCHANGED <<crowd, browser>>) \/ UNCHANGED allVars
  BY <1>4, WebStutterInv DEF Finished, allVars
<1>. QED  BY <1>1, <1>2, <1>3, <1>4 DEF WebNext

----------------------------------------------------------------------------
\* The invariant holds in every reachable state.
LEMMA WebInvHolds == WebSpec => []WebInv
BY WebInitInv, WebNextInv, PTL DEF WebSpec

\* Every variable of the server and of the browser has its type.
THEOREM WebTypeCorrect == WebSpec => []TypeOK
<1>1. WebInv => TypeOK
  BY DEF WebInv
<1>. QED  BY <1>1, WebInvHolds, PTL

\* The server's promises, whoever sends the requests: consumeForRotation lets a token be
\* rotated once, and a session has one token to rotate.
THEOREM WebConsumedAtMostOnce == WebSpec => []ConsumedAtMostOnce
<1>1. WebInv => ConsumedAtMostOnce
  BY InvImpliesConsumedAtMostOnce DEF WebInv
<1>. QED  BY <1>1, WebInvHolds, PTL

\* A revocation takes the successors of the tokens it finds along.
THEOREM WebFamilyDiesTogether == WebSpec => []FamilyDiesTogether
<1>1. WebInv => FamilyDiesTogether
  BY InvImpliesFamilyDiesTogether DEF WebInv
<1>. QED  BY <1>1, WebInvHolds, PTL

\* A token that was rotated and presented again ends its session, the winner's too.
THEOREM WebReplayEndsSession == WebSpec => []ReplayEndsSession
<1>1. WebInv => ReplayEndsSession
  BY InvImpliesReplayEndsSession DEF WebInv
<1>. QED  BY <1>1, WebInvHolds, PTL

\* updateStatus, resetPassword and changePassword have ended the sessions there were, and
\* nothing that relies on a dead session or a spent link succeeds.
THEOREM WebAccessChangeEndsSessions == WebSpec => []AccessChangeEndsSessions
<1>1. WebInv => AccessChangeEndsSessions
  BY InvImpliesAccessChangeEndsSessions DEF WebInv
<1>. QED  BY <1>1, WebInvHolds, PTL

\* NestApiClient's single flight: with one refresh at a time and the cookie read when it
\* is sent, no refresh of the browser's own is taken for a replay that ends a session.
THEOREM WebNoSelfInflictedReplay == WebSpec => []NoSelfInflictedReplay
<1>1. WebInv => NoSelfInflictedReplay
  BY DEF WebInv, UnusedInv, NoSelfInflictedReplay
<1>. QED  BY <1>1, WebInvHolds, PTL
=============================================================================
