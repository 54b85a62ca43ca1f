----------------------------- MODULE MCSessions -----------------------------
(* Small instances of WebClient and Sessions. *)
EXTENDS WebClient, TLC

CONSTANTS ann, old, new, s1, s2, s3, s4, t1, t2, t3, t4, link, nobody, gone, c1, c2, c3, p1, p2

Ask(kind) == [kind |-> kind, user |-> nobody, password |-> nobody, new |-> nobody, web |-> TRUE,
              session |-> nobody, token |-> nobody, status |-> nobody, reset |-> nobody]

Login(web)  == [Ask("login") EXCEPT !.user = ann, !.password = old, !.web = web]
Refresh(t)  == [Ask("refresh") EXCEPT !.token = t]
Use(s)      == [Ask("use") EXCEPT !.session = s]
Logout(s)   == [Ask("logout") EXCEPT !.session = s]
Status(x)   == [Ask("status") EXCEPT !.user = ann, !.status = x]
Reset       == [Ask("reset") EXCEPT !.reset = link, !.new = new]
Change      == [Ask("change") EXCEPT !.user = ann, !.password = old, !.new = new, !.session = s1]

MCCrowdRequests ==
    {Login(TRUE), Login(FALSE), Reset, Change, Logout(s1), Use(s1), Use(s2)}
    \cup {Status(x) : x \in {"ACTIVE", "SUSPENDED"}} \cup {Refresh(t) : t \in {t1, t2}}

MCRequests ==
    MCCrowdRequests \cup {Refresh(t) : t \in Tokens \cup {nobody}}
    \cup {Use(s) : s \in Sessions} \cup {Logout(s) : s \in Sessions}

MCFirstOwner    == s1 :> ann @@ [s \in Sessions |-> nobody]
MCFirstFamily   == t1 :> s1 @@ [t \in Tokens |-> nobody]
MCFirstPassword == [u \in Users |-> old]
MCResetOwner    == [r \in Resets |-> ann]

\* Calls differ only in the requests they make; tabs do not differ.
Symmetry == Permutations(Calls) \cup Permutations(Tabs)
=============================================================================
