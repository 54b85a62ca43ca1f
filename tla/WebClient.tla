----------------------------- MODULE WebClient ------------------------------
(***************************************************************************)
(* The session half of the web application: NestApiClient and AuthContext   *)
(* in the tabs of one browser, over the server of module Sessions.  The     *)
(* tabs share the refresh cookie; each keeps its access token and its       *)
(* single-flight refresh in memory.  A request and its answer travel        *)
(* separately: answers arrive in any order, late, or never.                 *)
(*                                                                         *)
(* A behaviour has either a crowd, whose requests of every kind Sessions    *)
(* describes, or this one browser, which has the server to itself.          *)
(***************************************************************************)
EXTENDS Sessions

CONSTANTS
    Tabs,
    CrowdRequests,  \* of Requests, those the crowd makes
    FirstCookie,    \* the refresh token the browser has at the start
    Gone            \* stands for a page that is not there any more

VARIABLES
    crowd,          \* whether the requests come from the crowd
    cookie,         \* hiieko_rt of the browser
    page,           \* each tab's access token and refresh
    pending,        \* the page that waits for the answer of a call
    retried,        \* the calls that are the second attempt of a request
    excused         \* something happened after which a token may come twice

browser == <<cookie, page, pending, retried, excused>>
allVars == <<vars, crowd, browser>>

ASSUME WebClientAssumption ==
    /\ CrowdRequests \subseteq Requests
    /\ FirstCookie \in Tokens /\ FirstFamily[FirstCookie] # Null
    /\ Gone \notin Tabs /\ Null \notin Tabs /\ Gone # Null

\* The session of the access token (sid), whether its 15 minutes are not over (fresh),
\* the refresh in flight, and whether requests wait for it to be sent again.
Blank == [sid |-> Null, fresh |-> FALSE, flight |-> Null, waiting |-> FALSE]

Awaits(t, c)  == pending[c] = t
Answer(c)     == call[c].answer
Refreshing(S) == \E t \in S : page[t].flight # Null

\* fetch: the server gets request q of tab t as call c; "waits" is who waits for the others.
Fetch(t, c, q, waits) == Receive(c, q) /\ pending' = [waits EXCEPT ![c] = t]

\* performRefresh sends the cookie there is now.
FetchRefresh(t, c, waits) ==
    \E q \in Requests : q.kind = "refresh" /\ q.token = cookie /\ Fetch(t, c, q, waits)

----------------------------------------------------------------------------
\* The tab is opened or reloaded: its memory is lost, nobody waits for the answers of
\* its old page, and restoreSession begins.
Load(t) ==
    /\ \E c \in Free :
          /\ FetchRefresh(t, c, [d \in Calls |-> IF Awaits(t, d) THEN Gone ELSE pending[d]])
          /\ page' = [page EXCEPT ![t] = [Blank EXCEPT !.flight = c]]
    /\ excused' = (excused \/ Refreshing(Tabs))
    /\ UNCHANGED <<cookie, retried>>

\* Faulty variant: every request that got a 401 starts a refresh.
RefreshSessionEach(t, waits) ==
    /\ \E c \in Free :
          FetchRefresh(t, c, waits) /\ page' = [page EXCEPT ![t].flight = c, ![t].waiting = TRUE]
    /\ excused' = (excused \/ Refreshing(Tabs \ {t}))
    /\ UNCHANGED <<cookie, retried>>

\* A request got a 401: it waits for the refresh in flight, or starts one.
RefreshSession(t, waits) ==
    /\ \/ /\ page[t].flight # Null
          /\ page' = [page EXCEPT ![t].waiting = TRUE]
          /\ pending' = waits
          /\ UNCHANGED <<vars, excused>>
       \/ /\ page[t].flight = Null
          /\ \E c \in Free :
                FetchRefresh(t, c, waits) /\ page' = [page EXCEPT ![t].flight = c, ![t].waiting = TRUE]
          /\ excused' = (excused \/ Refreshing(Tabs \ {t}))
    /\ UNCHANGED <<cookie, retried>>

\* A request without an access token, or with one that is too old, is answered 401
\* whatever the database says.
AskStale(t) == ~page[t].fresh /\ RefreshSession(t, pending)

Send(t, c) == \E q \in Requests : q.kind = "use" /\ q.session = page[t].sid /\ Fetch(t, c, q, pending)

AskFresh(t) ==
    /\ page[t].fresh
    /\ \E c \in Free : Send(t, c)
    /\ UNCHANGED <<cookie, page, retried, excused>>

\* The requests that waited for a refresh that succeeded are sent once more.
Retry(t) ==
    /\ page[t].waiting /\ page[t].flight = Null
    /\ \/ page[t].sid = Null /\ UNCHANGED <<vars, pending, retried>>
       \/ \E c \in Free : Send(t, c) /\ retried' = retried \cup {c}
    /\ page' = [page EXCEPT ![t].waiting = FALSE]
    /\ UNCHANGED <<cookie, excused>>

SignIn(t) ==
    /\ \E c \in Free, q \in Requests : q.kind = "login" /\ q.web /\ Fetch(t, c, q, pending)
    /\ UNCHANGED <<cookie, page, retried, excused>>

\* The session a sign-out ends: the cookie's, or else that of the access token, however
\* old; with neither there is nothing to do.
SignedIn(t) == IF cookie # Null THEN family[cookie] ELSE page[t].sid

SignOut(t) ==
    /\ SignedIn(t) # Null
    /\ \E c \in Free, q \in Requests :
          q.kind = "logout" /\ q.session = SignedIn(t) /\ Fetch(t, c, q, pending)
    /\ UNCHANGED <<cookie, page, retried, excused>>

\* The access token's 15 minutes are over.
GrowStale(t) ==
    /\ page[t].fresh
    /\ page' = [page EXCEPT ![t].fresh = FALSE]
    /\ UNCHANGED <<vars, cookie, pending, retried, excused>>

----------------------------------------------------------------------------
WithToken(p, c) == [p EXCEPT !.sid = call[c].session, !.fresh = TRUE]
Without(p)      == [p EXCEPT !.sid = Null, !.fresh = FALSE]

\* What an answer leaves in the page that waited for it; "boot" is the request of
\* refreshUser, which takes every failure for the end of the session.
After(p, c, boot) ==
    CASE Is(c, "refresh") -> IF Answer(c) = "ok" THEN [WithToken(p, c) EXCEPT !.flight = Null]
                                                 ELSE Blank
      [] Is(c, "login")   -> IF Answer(c) = "ok" THEN WithToken(p, c) ELSE p
      [] Is(c, "logout")  -> Without(p)
      [] OTHER            -> IF boot /\ Answer(c) # "ok" THEN Without(p) ELSE p

\* Its Set-Cookie: a refresh that fails for whatever reason clears the cookie there is
\* by now.
SetCookie(c) ==
    CASE Is(c, "refresh")                    -> IF Answer(c) = "ok" THEN call[c].fresh ELSE Null
      [] Is(c, "login") /\ Answer(c) = "ok"  -> call[c].fresh
      [] Is(c, "logout") /\ Answer(c) = "ok" -> Null
      [] OTHER                               -> cookie

\* The guard refused the access token of a first attempt.
Refused(c) == Is(c, "use") /\ Answer(c) = "rejected" /\ c \notin retried

\* The answer arrives; for a page that is gone only its cookie counts.
Deliver(c) ==
    /\ At(c, "done") /\ pending[c] # Null
    /\ \/ /\ Refused(c) /\ pending[c] # Gone
          /\ RefreshSession(pending[c], [pending EXCEPT ![c] = Null])
       \/ /\ ~Refused(c) \/ pending[c] = Gone
          /\ cookie' = SetCookie(c)
          /\ \E boot \in BOOLEAN :
                page' = [t \in Tabs |-> IF Awaits(t, c) THEN After(page[t], c, boot) ELSE page[t]]
          /\ pending' = [pending EXCEPT ![c] = Null]
          /\ UNCHANGED <<vars, retried, excused>>

\* What is left in the page when the connection breaks: requests that waited for a
\* refresh end with their 401 and forget the token.
Cut(p, c, boot) ==
    CASE Is(c, "refresh") -> IF p.waiting THEN Blank ELSE [p EXCEPT !.flight = Null]
      [] Is(c, "logout")  -> Without(p)
      [] OTHER            -> IF Is(c, "use") /\ boot THEN Without(p) ELSE p

\* The connection breaks, before or after the server is done.
Lose(c) ==
    /\ pending[c] # Null
    /\ \E boot \in BOOLEAN :
          page' = [t \in Tabs |-> IF Awaits(t, c) THEN Cut(page[t], c, boot) ELSE page[t]]
    /\ pending' = [pending EXCEPT ![c] = Null]
    /\ excused' = (excused \/ Is(c, "refresh"))
    /\ UNCHANGED <<vars, cookie, retried>>

----------------------------------------------------------------------------
Browse ==
    \/ \E t \in Tabs :
          \/ Load(t) \/ AskStale(t) \/ AskFresh(t) \/ Retry(t)
          \/ SignIn(t) \/ SignOut(t) \/ GrowStale(t)
    \/ \E c \in Calls : Deliver(c) \/ Lose(c)

WebNext ==
    \/ Serve /\ UNCHANGED <<crowd, browser>>
    \/ /\ crowd
       /\ \/ \E c \in Calls : Begin(c) /\ call'[c].req \in CrowdRequests
          \/ \E s \in Sessions : Expire(s)
       /\ UNCHANGED <<crowd, browser>>
    \/ ~crowd /\ Browse /\ UNCHANGED crowd
    \/ Finished /\ UNCHANGED <<crowd, browser>>

WebInit ==
    /\ Init
    /\ crowd \in BOOLEAN
    /\ cookie  = FirstCookie
    /\ page    = [t \in Tabs |-> Blank]
    /\ pending = [c \in Calls |-> Null]
    /\ retried = {}
    /\ excused = FALSE

WebSpec == WebInit /\ [][WebNext]_allVars

----------------------------------------------------------------------------
\* Every variable has its type.
TypeOK ==
    /\ SessionsTypeOK
    /\ crowd \in BOOLEAN /\ excused \in BOOLEAN
    /\ cookie \in Tokens \cup {Null}
    /\ page \in [Tabs -> [sid: Sessions \cup {Null}, fresh: BOOLEAN,
                          flight: Calls \cup {Null}, waiting: BOOLEAN]]
    /\ pending \in [Calls -> Tabs \cup {Gone, Null}]
    /\ retried \subseteq Calls

\* A browser never loses its session to the server's detection of replays by its own
\* doing: "a self-inflicted reuse-detection logout" (api-client.ts:382-388).  However many
\* requests meet a 401 together, and whatever sign-ins, sign-outs and late answers come
\* in between, no refresh of its own is taken for a replay that ends a session, unless a
\* refresh's answer was lost, its page was reloaded before it came, or two tabs refreshed
\* at once.  (A refresh that a sign-out overtakes counts as one, but ends nothing.)
NoSelfInflictedReplay ==
    ~crowd /\ ~excused => \A c \in Calls : Answer(c) = "reused" => call[c].todo = {}
=============================================================================
