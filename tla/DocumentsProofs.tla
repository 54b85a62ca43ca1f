--------------------------- MODULE DocumentsProofs ---------------------------
(***************************************************************************)
(* Proofs about module Documents, for any folders, documents, files,        *)
(* requests and number of handlers.                                         *)
(*                                                                         *)
(* CallInv(c) says what the request of c and what c has read tell of the     *)
(* tables, as far as no request about the same rows has overlapped.  A step  *)
(* of one handler leaves what another one relies on (OthersKeep), and    *)
(* re-establishes it for its own.                                           *)
(***************************************************************************)
EXTENDS Documents, FiniteSetTheorems, SequenceTheorems, WellFoundedInduction, NaturalsInduction, TLAPS

----------------------------------------------------------------------------
(* The handlers. *)

CallShape == call = [c \in Calls |-> [req |-> Req(c), pc |-> call[c].pc, seen |-> Seen(c)]]

\* Two requests in flight have made a race of what both are about.
RacedInv == \A c, d \in InFlight : c # d => Req(c).on \cap Req(d).on \subseteq raced

HandlersInv == CallShape /\ HandlersTypeOK /\ RacedInv

\* A handler that is not free has a request, of one of the kinds.
LEMMA RequestOfCall ==
    ASSUME HandlersInv, NEW c \in Calls, call[c].pc # "free"
    PROVE  Req(c) \in load /\ (FolderRequest(Req(c)) \/ DocumentRequest(Req(c)))
BY RequestsAssumption DEF HandlersInv, HandlersTypeOK, At

\* What a handler is made of when it has taken a step.
LEMMA GotoShape ==
    ASSUME HandlersInv, NEW c \in Calls, NEW step, NEW seen, Goto(c, step, seen),
           call[c].pc # "free", step # "free"
    PROVE  /\ call'[c] = [req |-> Req(c), pc |-> step, seen |-> seen]
           /\ \A d \in Calls : d # c => call'[d] = call[d]
           /\ load' = load /\ raced' = raced
           /\ HandlersInv' /\ InFlight' = InFlight
<1> DEFINE new == [req |-> Req(c), pc |-> step, seen |-> seen]
<1>0. call' = [d \in Calls |-> IF d = c THEN new ELSE call[d]] /\ load' = load /\ raced' = raced
  <2>1. call = [d \in Calls |-> call[d]] BY DEF HandlersInv, CallShape
  <2>2. call[c] = [req |-> Req(c), pc |-> call[c].pc, seen |-> Seen(c)] BY DEF HandlersInv, CallShape
  <2> DEFINE mid == [req |-> Req(c), pc |-> step, seen |-> Seen(c)]
  <2>3. [call[c] EXCEPT !.pc = step] = mid BY <2>2
  <2>4. [mid EXCEPT !.seen = seen] = new OBVIOUS
  <2>5. [[call[c] EXCEPT !.pc = step] EXCEPT !.seen = seen] = new BY <2>3, <2>4
  <2> QED BY <2>1, <2>5 DEF Goto
<1>1. call'[c] = new /\ load' = load /\ raced' = raced BY <1>0
<1>2. \A d \in Calls : d # c => call'[d] = call[d] BY <1>0
<1>3. CallShape'
  <2>1. \A d \in Calls : call'[d] = [req |-> call'[d].req, pc |-> call'[d].pc, seen |-> call'[d].seen]
    BY <1>1, <1>2 DEF HandlersInv, CallShape, Req, Seen
  <2> QED BY <1>0, <2>1 DEF CallShape, Req, Seen
<1>4. InFlight' = InFlight BY <1>1, <1>2 DEF InFlight
<1>5. \A d \in Calls : Req(d)' = Req(d) /\ (At(d, "free")' <=> At(d, "free"))
  BY <1>1, <1>2 DEF Req, At
<1>6. HandlersTypeOK' BY <1>1, <1>5 DEF HandlersInv, HandlersTypeOK
<1>7. RacedInv'
  <2>1. \A d \in InFlight : d \in Calls BY DEF InFlight
  <2> QED BY <1>1, <1>4, <1>5, <2>1 DEF HandlersInv, RacedInv
<1> QED BY <1>1, <1>2, <1>3, <1>4, <1>6, <1>7 DEF HandlersInv

LEMMA AnswerShape ==
    ASSUME HandlersInv, NEW c \in Calls, Answer(c)
    PROVE  /\ call'[c] = Free
           /\ \A d \in Calls : d # c => call'[d] = call[d]
           /\ load' = load /\ raced' = raced
           /\ HandlersInv' /\ InFlight' = InFlight \ {c}
<1>1. call'[c] = Free /\ load' = load /\ raced' = raced
  BY DEF Answer, HandlersInv, CallShape
<1>2. \A d \in Calls : d # c => call'[d] = call[d] BY DEF Answer, HandlersInv, CallShape
<1>3. CallShape' BY DEF Answer, HandlersInv, CallShape, Req, Seen, Free
<1>4. InFlight' = InFlight \ {c} BY <1>1, <1>2 DEF InFlight, Free
<1>5. \A d \in Calls : d # c => Req(d)' = Req(d) /\ (At(d, "free")' <=> At(d, "free"))
  BY <1>2 DEF Req, At
<1>6. Req(c)' = Null /\ At(c, "free")' BY <1>1 DEF Req, At, Free
<1>7. HandlersTypeOK' BY <1>1, <1>5, <1>6 DEF HandlersInv, HandlersTypeOK
<1>8. RacedInv'
  <2>1. \A d \in InFlight : d \in Calls BY DEF InFlight
  <2> QED BY <1>1, <1>4, <1>5, <2>1 DEF HandlersInv, RacedInv
<1> QED BY <1>1, <1>2, <1>3, <1>4, <1>7, <1>8 DEF HandlersInv

\* The request that arrives is one of the behaviour; what it shares with one in flight is
\* a race from now on.
LEMMA ArriveShape ==
    ASSUME HandlersInv, NEW c \in Calls, Arrive(c)
    PROVE  \E q \in load :
              /\ FolderRequest(q) \/ DocumentRequest(q)
              /\ call[c].pc = "free"
              /\ call'[c] = [req |-> q, pc |-> q.kind, seen |-> Null]
              /\ \A d \in Calls : d # c => call'[d] = call[d]
              /\ load' = load /\ raced \subseteq raced'
              /\ \A d \in Calls : call[d].pc # "free" => q.on \cap Req(d).on \subseteq raced'
              /\ HandlersInv'
<1>0. call[c].pc = "free" BY DEF Arrive, At
<1>1. PICK q \in load :
        /\ call' = [call EXCEPT ![c] = [req |-> q, pc |-> q.kind, seen |-> Null]]
        /\ raced' = raced \cup {x \in q.on : \E d \in InFlight : x \in Req(d).on}
  BY DEF Arrive
<1>2. load' = load BY DEF Arrive
<1>3. FolderRequest(q) \/ DocumentRequest(q) BY RequestsAssumption DEF HandlersInv, HandlersTypeOK
<1>4. call'[c] = [req |-> q, pc |-> q.kind, seen |-> Null] /\ \A d \in Calls : d # c => call'[d] = call[d]
  BY <1>1 DEF HandlersInv, CallShape
<1>5. CallShape' BY <1>1 DEF HandlersInv, CallShape, Req, Seen
<1>6. q.kind # "free" BY <1>3 DEF FolderRequest, DocumentRequest
<1>7. q # Null BY HandlersAssumption DEF HandlersInv, HandlersTypeOK
<1>8. \A d \in Calls : d # c => Req(d)' = Req(d) /\ (At(d, "free")' <=> At(d, "free"))
  BY <1>4 DEF Req, At
<1>9. Req(c)' = q /\ ~At(c, "free")' BY <1>4, <1>6 DEF Req, At
<1>10. raced' \subseteq UNION {r.on : r \in load} /\ raced \subseteq raced'
  BY <1>1 DEF HandlersInv, HandlersTypeOK
<1>11. HandlersTypeOK' BY <1>2, <1>7, <1>8, <1>9, <1>10 DEF HandlersInv, HandlersTypeOK
<1>12. \A d \in Calls : call[d].pc # "free" => q.on \cap Req(d).on \subseteq raced'
  BY <1>1 DEF InFlight
<1>13. RacedInv'
  <2> SUFFICES ASSUME NEW a \in Calls, NEW b \in Calls, call'[a].pc # "free", call'[b].pc # "free", a # b
               PROVE  Req(a)'.on \cap Req(b)'.on \subseteq raced'
    BY DEF RacedInv, InFlight
  <2>1. CASE a = c BY <1>4, <1>8, <1>9, <1>12, <2>1
  <2>2. CASE b = c BY <1>4, <1>8, <1>9, <1>12, <2>2
  <2>3. CASE a # c /\ b # c
    <3>1. a \in InFlight /\ b \in InFlight BY <1>4, <2>3 DEF InFlight
    <3> QED BY <1>8, <1>10, <2>3, <3>1 DEF HandlersInv, RacedInv
  <2> QED BY <2>1, <2>2, <2>3
<1> QED BY <1>0, <1>2, <1>3, <1>4, <1>5, <1>10, <1>11, <1>12, <1>13 DEF HandlersInv

----------------------------------------------------------------------------
(* The folders a folder is in: the least set with it that holds the parent of every      *)
(* folder in it.                                                                          *)

Closed(C) == \A g \in C : Exists(g) => folders[g].parent \in C

\* The folders of C and their parents.
Parents(C) == C \cup {folders[g].parent : g \in {h \in C : Exists(h)}}

Chain(f, up, n) == up = [i \in 0..n |-> IF i = 0 THEN {f} ELSE Parents(up[i - 1])]

\* A set of numbers with 0, and the successor of each of its members below n, has them all.
LEMMA UpTo ==
    ASSUME NEW n \in Nat, NEW S, 0 \in S, \A i \in 0..n : i \in S /\ i < n => i + 1 \in S
    PROVE  0..n \subseteq S
<1> DEFINE R == {ss \in Nat \X Nat : ss[1] < ss[2]}
           T == (0..n) \ S
<1> SUFFICES ASSUME T # {} PROVE FALSE OBVIOUS
<1>1. IsWellFoundedOn(R, Nat) BY NatLessThanWellFounded DEF OpToRel
<1>2. T \subseteq Nat OBVIOUS
<1>3. PICK x \in T : \A y \in T : ~(<<y, x>> \in R) BY <1>1, <1>2, WFMin
<1>4. x \in 0..n /\ x # 0 /\ x - 1 \in 0..n BY <1>3
<1>5. <<x - 1, x>> \in R BY <1>4
<1>6. x - 1 \in S BY <1>3, <1>4, <1>5
<1> QED BY <1>3, <1>4, <1>6

\* There is such a chain of any length.
LEMMA ChainExists == ASSUME NEW f, NEW n \in Nat PROVE \E up : Chain(f, up, n)
<1> DEFINE S == {i \in 0..n : \E up : Chain(f, up, i)}
<1>1. 0 \in S
  <2> DEFINE up == [i \in 0..0 |-> {f}]
  <2>1. up = [i \in 0..0 |-> IF i = 0 THEN {f} ELSE Parents(up[i - 1])] OBVIOUS
  <2>2. Chain(f, up, 0) BY <2>1 DEF Chain
  <2> HIDE DEF up
  <2> QED BY <2>2
<1>2. ASSUME NEW i \in 0..n, i \in S, i < n PROVE i + 1 \in S
  <2>1. PICK up : Chain(f, up, i) BY <1>2
  <2> DEFINE new == [j \in 0..(i + 1) |-> IF j = i + 1 THEN Parents(up[i]) ELSE up[j]]
  <2>2. ASSUME NEW j \in 0..(i + 1) PROVE new[j] = IF j = 0 THEN {f} ELSE Parents(new[j - 1])
    <3>1. CASE j = i + 1
      <4>1. new[j - 1] = up[i] /\ new[j] = Parents(up[i]) BY <3>1
      <4> QED BY <3>1, <4>1
    <3>2. CASE j \in 1..i
      <4>1. up[j] = Parents(up[j - 1]) BY <2>1, <3>2 DEF Chain
      <4>2. new[j] = up[j] /\ new[j - 1] = up[j - 1] BY <3>2
      <4> QED BY <3>2, <4>1, <4>2
    <3>3. CASE j = 0 BY <2>1, <3>3 DEF Chain
    <3> QED BY <3>1, <3>2, <3>3
  <2>3. Chain(f, new, i + 1) BY <2>2 DEF Chain
  <2>4. i + 1 \in 0..n BY <1>2
  <2> HIDE DEF new
  <2> QED BY <2>3, <2>4
<1>3. n \in 0..n OBVIOUS
<1>4. n \in S
  <2> HIDE DEF S
  <2> QED BY <1>1, <1>2, <1>3, UpTo
<1> QED BY <1>4

\* The ancestors are the end of the chain that is as long as there are folders.
LEMMA AncestorsAreAChain ==
    ASSUME NEW f, Cardinality(Folders) \in Nat
    PROVE  \E up : Chain(f, up, Cardinality(Folders)) /\ Ancestors(f) = up[Cardinality(Folders)] \ {Null}
<1> DEFINE N == Cardinality(Folders)
           up == CHOOSE g : g = [n \in 0..N |-> IF n = 0 THEN {f}
                     ELSE g[n - 1] \cup {folders[h].parent : h \in {k \in g[n - 1] : Exists(k)}}]
<1>1. \E g : g = [n \in 0..N |-> IF n = 0 THEN {f}
                     ELSE g[n - 1] \cup {folders[h].parent : h \in {k \in g[n - 1] : Exists(k)}}]
  <2>1. \E g : Chain(f, g, N) BY ChainExists
  <2> QED BY <2>1, Zenon DEF Chain, Parents
<1>2. Chain(f, up, N) BY <1>1 DEF Chain, Parents
<1>3. Ancestors(f) = up[N] \ {Null} BY DEF Ancestors
<1> HIDE DEF up
<1> QED BY <1>2, <1>3

\* The ancestors of a folder hold it, hold the parent of every folder among them unless it
\* has none, and are among every other set that does.
LEMMA AncestorsAreTheLeast ==
    ASSUME FoldersTypeOK, NEW f \in Folders
    PROVE  /\ f \in Ancestors(f) /\ Ancestors(f) \subseteq Folders
           /\ Closed(Ancestors(f) \cup {Null})
           /\ \A C : f \in C /\ Closed(C) => Ancestors(f) \subseteq C
<1> DEFINE N == Cardinality(Folders)
           All == Folders \cup {Null}
<1>0. N \in Nat /\ Null \notin Folders /\ IsFiniteSet(Folders)
  BY FoldersAssumption, FS_CardinalityType
<1>1. IsFiniteSet(All) /\ Cardinality(All) = N + 1 BY <1>0, FS_AddElement
<1>2. \A g : Exists(g) => g \in Folders /\ folders[g].parent \in All
  BY DEF FoldersTypeOK, Exists, FolderRows
<1>3. PICK up : Chain(f, up, N) /\ Ancestors(f) = up[N] \ {Null} BY <1>0, AncestorsAreAChain
<1>4. up[0] = {f} /\ \A i \in 0..N : i < N => up[i + 1] = Parents(up[i])
  <2>1. up[0] = {f} BY <1>0, <1>3 DEF Chain
  <2>2. ASSUME NEW i \in 0..N, i < N PROVE up[i + 1] = Parents(up[i])
    <3>1. i + 1 \in 0..N /\ i + 1 # 0 /\ (i + 1) - 1 = i BY <1>0, <2>2
    <3> QED BY <1>3, <3>1 DEF Chain
  <2> QED BY <2>1, <2>2
<1>5. ASSUME NEW C, f \in C, Closed(C) PROVE up[N] \subseteq C
  <2> DEFINE S == {i \in 0..N : up[i] \subseteq C}
  <2>1. 0 \in S BY <1>0, <1>4, <1>5
  <2>2. ASSUME NEW i \in 0..N, i \in S, i < N PROVE i + 1 \in S
    BY <1>0, <1>4, <1>5, <2>2 DEF Parents, Closed
  <2>3. N \in 0..N BY <1>0
  <2> HIDE DEF S
  <2>4. N \in S BY <1>0, <2>1, <2>2, <2>3, UpTo
  <2> QED BY <2>4 DEF S
<1>6. Closed(All) /\ f \in All BY <1>2 DEF Closed
<1>7. up[N] \subseteq All BY <1>5, <1>6
<1>8. \A i \in 0..N : f \in up[i] /\ up[i] \subseteq All
  <2> DEFINE S == {i \in 0..N : f \in up[i] /\ up[i] \subseteq All}
  <2>1. 0 \in S BY <1>0, <1>4
  <2>2. ASSUME NEW i \in 0..N, i \in S, i < N PROVE i + 1 \in S
    BY <1>0, <1>2, <1>4, <2>2 DEF Parents
  <2> HIDE DEF S
  <2>3. 0..N \subseteq S BY <1>0, <2>1, <2>2, UpTo
  <2> QED BY <2>3 DEF S
<1>9. Closed(up[N])
  <2> DEFINE S == {i \in 0..N : Closed(up[i]) \/ Cardinality(up[i]) >= i + 1}
  <2>0. \A i \in 0..N : IsFiniteSet(up[i]) /\ Cardinality(up[i]) \in Nat /\ Cardinality(up[i]) <= N + 1
    BY <1>1, <1>8, FS_Subset, FS_CardinalityType
  <2>1. 0 \in S
    <3>1. Cardinality(up[0]) = 1 BY <1>4, FS_Singleton
    <3> QED BY <1>0, <3>1
  <2>2. ASSUME NEW i \in 0..N, i \in S, i < N PROVE i + 1 \in S
    <3>0. i + 1 \in 0..N /\ up[i + 1] = Parents(up[i]) BY <1>0, <1>4, <2>2
    <3>1. CASE Closed(up[i])
      <4>1. up[i + 1] = up[i] BY <3>0, <3>1 DEF Closed, Parents
      <4> QED BY <3>0, <3>1, <4>1
    <3>2. CASE ~Closed(up[i])
      <4>1. PICK x : x \in up[i + 1] /\ x \notin up[i] BY <3>0, <3>2 DEF Closed, Parents
      <4>2. up[i] \cup {x} \subseteq up[i + 1] BY <3>0, <4>1 DEF Parents
      <4>3. IsFiniteSet(up[i] \cup {x}) /\ Cardinality(up[i] \cup {x}) = Cardinality(up[i]) + 1
        BY <2>0, <4>1, FS_AddElement
      <4>4. Cardinality(up[i] \cup {x}) <= Cardinality(up[i + 1]) BY <2>0, <3>0, <4>2, FS_Subset
      <4> QED BY <2>0, <2>2, <3>0, <3>2, <4>3, <4>4
    <3> QED BY <3>1, <3>2
  <2>3. N \in 0..N BY <1>0
  <2>4. N \in S
    <3> HIDE DEF S
    <3> QED BY <1>0, <2>1, <2>2, <2>3, UpTo
  <2>5. CASE Cardinality(up[N]) >= N + 1
    <3>1. Cardinality(up[N]) = Cardinality(All) BY <1>1, <2>0, <2>3, <2>5
    <3>2. up[N] = All BY <1>1, <1>7, <3>1, FS_Subset
    <3> QED BY <1>6, <3>2
  <2> QED BY <2>4, <2>5
<1>10. Closed((up[N] \ {Null}) \cup {Null}) BY <1>0, <1>2, <1>9 DEF Closed
<1>11. f \in up[N] BY <1>0, <1>8
<1> QED BY <1>0, <1>3, <1>5, <1>7, <1>10, <1>11

LeastAncestors == \A f \in Folders :
    /\ f \in Ancestors(f) /\ Ancestors(f) \subseteq Folders
    /\ Closed(Ancestors(f) \cup {Null})
    /\ \A C : f \in C /\ Closed(C) => Ancestors(f) \subseteq C

LEMMA AncestorsBeforeAndAfter == (FoldersTypeOK => LeastAncestors) /\ (FoldersTypeOK => LeastAncestors)'
<1>1. FoldersTypeOK => LeastAncestors BY AncestorsAreTheLeast DEF LeastAncestors
<1> QED BY <1>1, PTL

----------------------------------------------------------------------------
(* The trees of folders. *)

Acyclic == \A g \in Folders : Exists(g) /\ folders[g].parent # Null => g \notin Ancestors(folders[g].parent)

TreeInv == \A f \in Folders : Exists(f) =>
    /\ Holds(folders[f].parent, folders[f].project)
    /\ folders[f].parent # Null => f \notin Ancestors(folders[f].parent)
    /\ NameFree(folders[f].name, folders[f].project, folders[f].parent, f)

DocsFiled == \A d \in Docs : Created(d) => Fits(docs[d].folder, docs[d].project)

\* A folder that gets a parent which it is not an ancestor of closes no cycle.
LEMMA GraftKeepsAcyclic ==
    ASSUME FoldersTypeOK, FoldersTypeOK', Acyclic,
           NEW f \in Folders, NEW p \in Folders \cup {Null}, p # Null => f \notin Ancestors(p),
           folders'[f].parent = p,
           \A g \in Folders : g # f => /\ Exists(g)' <=> Exists(g)
                                       /\ Exists(g) => folders'[g].parent = folders[g].parent
    PROVE  Acyclic'
<1>1. LeastAncestors /\ LeastAncestors' BY AncestorsBeforeAndAfter
<1>2. \A C : f \notin C /\ Closed(C) => Closed(C)' BY DEF Closed, Exists
<1>3. Null \notin Folders BY FoldersAssumption
<1> SUFFICES ASSUME NEW g \in Folders, NEW q, Exists(g)', q = folders'[g].parent, q # Null
             PROVE  g \notin Ancestors(q)'
  BY DEF Acyclic
<1>4. CASE g = f
  <2>1. p \in Folders /\ f \notin Ancestors(p) BY <1>4
  <2>2. PICK C : C = Ancestors(p) \cup {Null} OBVIOUS
  <2>3. Closed(C) /\ p \in C /\ f \notin C BY <1>1, <1>3, <2>1, <2>2 DEF LeastAncestors
  <2>4. Ancestors(p)' \subseteq C BY <1>1, <1>2, <2>1, <2>3 DEF LeastAncestors
  <2> QED BY <1>4, <2>3, <2>4
<1>5. CASE g # f
  <2>1. Exists(g) /\ folders[g].parent = q BY <1>5
  <2>2. q \in Folders BY <2>1 DEF FoldersTypeOK, FolderRows, Exists
  <2>3. PICK C : C = Ancestors(q) \cup {Null} OBVIOUS
  <2>4. Closed(C) /\ q \in C /\ g \notin C
    BY <1>1, <1>3, <2>1, <2>2, <2>3 DEF LeastAncestors, Acyclic
  <2>5. CASE f \notin Ancestors(q)
    <3>1. Closed(C)' BY <1>2, <1>3, <2>3, <2>4, <2>5
    <3>2. Ancestors(q)' \subseteq C BY <1>1, <2>2, <2>4, <3>1 DEF LeastAncestors
    <3> QED BY <2>4, <3>2
  <2>6. CASE f \in Ancestors(q) /\ p = Null
    <3>1. Closed(C)' BY <2>3, <2>4, <2>6 DEF Closed, Exists
    <3>2. Ancestors(q)' \subseteq C BY <1>1, <2>2, <2>4, <3>1 DEF LeastAncestors
    <3> QED BY <2>4, <3>2
  <2>7. CASE f \in Ancestors(q) /\ p # Null
    <3>0. PICK A : A = C \cup Ancestors(p) OBVIOUS
    <3>1. p \in Folders /\ Closed(Ancestors(p) \cup {Null}) /\ p \in Ancestors(p) /\ f \notin Ancestors(p)
      BY <1>1, <2>7 DEF LeastAncestors
    <3>2. Closed(A)'
      <4> SUFFICES ASSUME NEW x \in A, Exists(x)' PROVE folders'[x].parent \in A BY DEF Closed
      <4>1. CASE x = f BY <4>1, <3>0, <3>1
      <4>2. CASE x # f
        <5>1. Exists(x) /\ folders'[x].parent = folders[x].parent BY <4>2 DEF Exists
        <5> QED BY <5>1, <2>3, <2>4, <3>0, <3>1 DEF Closed
      <4> QED BY <4>1, <4>2
    <3>3. Ancestors(q)' \subseteq A BY <1>1, <2>2, <2>4, <3>0, <3>2 DEF LeastAncestors
    <3>4. ASSUME g \in Ancestors(p) PROVE FALSE
      <4>1. Ancestors(g) \subseteq Ancestors(p) \cup {Null} BY <1>1, <3>1, <3>4 DEF LeastAncestors
      <4>2. g \in Ancestors(g) /\ Closed(Ancestors(g) \cup {Null}) BY <1>1 DEF LeastAncestors
      <4>3. q \in Ancestors(g) \cup {Null} BY <2>1, <4>2 DEF Closed
      <4>4. Ancestors(q) \subseteq Ancestors(g) \cup {Null} BY <1>1, <2>2, <4>2, <4>3 DEF LeastAncestors
      <4> QED BY <1>3, <2>7, <3>1, <4>1, <4>4
    <3> QED BY <2>4, <3>0, <3>3, <3>4
  <2> QED BY <2>5, <2>6, <2>7
<1> QED BY <1>4, <1>5

\* A folder that is taken away closes no cycle either.
LEMMA PruneKeepsAcyclic ==
    ASSUME FoldersTypeOK, FoldersTypeOK', Acyclic, 
           \A g \in Folders : Exists(g)' => Exists(g) /\ folders'[g].parent = folders[g].parent
    PROVE  Acyclic'
<1>1. LeastAncestors /\ LeastAncestors' BY AncestorsBeforeAndAfter
<1>2. \A C : Closed(C) => Closed(C)' BY DEF Closed, Exists
<1>3. Null \notin Folders BY FoldersAssumption
<1> SUFFICES ASSUME NEW g \in Folders, NEW q, Exists(g)', q = folders'[g].parent, q # Null
             PROVE  g \notin Ancestors(q)'
  BY DEF Acyclic
<1>4. q = folders[g].parent /\ Exists(g) OBVIOUS
<1>5. q \in Folders BY <1>4 DEF FoldersTypeOK, FolderRows, Exists
<1>6. PICK C : C = Ancestors(q) \cup {Null} OBVIOUS
<1>7. Closed(C)' /\ q \in C /\ g \notin C BY <1>1, <1>2, <1>3, <1>4, <1>5, <1>6 DEF LeastAncestors, Acyclic
<1>8. Ancestors(q)' \subseteq C BY <1>1, <1>5, <1>7 DEF LeastAncestors
<1> QED BY <1>7, <1>8

\* The folders of documents are kept by a step that takes none away and changes no project.
LEMMA FiledStay ==
    ASSUME DocsFiled, docs' = docs,
           \A f \in Folders : Exists(f) => Exists(f)' /\ folders'[f].project = folders[f].project
    PROVE  DocsFiled'
BY DEF DocsFiled, Fits, Created, Exists

\* Where the folders stay as they are so do their trees, and what is in them.
LEMMA SameTrees ==
    ASSUME FoldersTypeOK, TreeInv, folders' = folders
    PROVE  FoldersTypeOK' /\ TreeInv' /\ (DocsFiled /\ docs' = docs => DocsFiled')
<1>1. FoldersTypeOK' BY DEF FoldersTypeOK
<1>2. Acyclic' BY <1>1, PruneKeepsAcyclic DEF TreeInv, Acyclic, Exists
<1>3. TreeInv' BY <1>2 DEF TreeInv, Acyclic, Holds, NameFree, Exists
<1> QED BY <1>1, <1>3, FiledStay DEF Exists

LEMMA CreateFolderKeepsTrees ==
    ASSUME FoldersTypeOK, TreeInv, DocsFiled, NEW c \in Calls, FolderRequest(Req(c)), CreateFolder(c)
    PROVE  FoldersTypeOK' /\ TreeInv' /\ DocsFiled'
<1> DEFINE q == Req(c)
<1>0. docs' = docs BY DEF CreateFolder
<1>1. CASE folders' = folders
  BY <1>0, <1>1, SameTrees
<1>2. CASE folders' # folders
  <2> DEFINE row == [parent |-> q.parent, name |-> q.name, project |-> q.project]
  <2>1. /\ Holds(q.parent, q.project) /\ NameFree(q.name, q.project, q.parent, Null)
        /\ \E f \in NextFolder : folders' = [folders EXCEPT ![f] = row]
    BY <1>2 DEF CreateFolder
  <2>2. PICK f \in NextFolder : folders' = [folders EXCEPT ![f] = row] BY <2>1
  <2>3. row \in FolderRows /\ row # Null BY FoldersAssumption DEF FolderRequest, FolderRows
  <2>4. f \in Folders /\ ~Exists(f) BY DEF NextFolder
  <2> HIDE DEF row
  <2>5. FoldersTypeOK' BY <2>2, <2>3 DEF FoldersTypeOK
  <2>6. /\ folders'[f] = row /\ Exists(f)'
        /\ \A g \in Folders : g # f => folders'[g] = folders[g] /\ (Exists(g)' <=> Exists(g))
    BY <2>2, <2>3, <2>4 DEF FoldersTypeOK, Exists
  <2>7. row.parent = q.parent /\ row.name = q.name /\ row.project = q.project BY DEF row
  <2>8. q.parent \in Folders \cup {Null} BY DEF FolderRequest
  <2>9. q.parent # Null => f \notin Ancestors(q.parent)
    <3>1. SUFFICES ASSUME q.parent # Null PROVE f \notin Ancestors(q.parent) OBVIOUS
    <3>2. Exists(q.parent) BY <2>1, <3>1 DEF Holds
    <3>3. PICK C : C = {g \in Folders : Exists(g)} \cup {Null} OBVIOUS
    <3>4. Closed(C) BY <3>3 DEF TreeInv, Holds, Closed, Exists
    <3>5. q.parent \in C /\ q.parent \in Folders BY <2>8, <3>1, <3>2, <3>3
    <3>6. Ancestors(q.parent) \subseteq C BY <3>4, <3>5, AncestorsBeforeAndAfter DEF LeastAncestors
    <3>7. f # Null BY <2>4, FoldersAssumption
    <3> QED BY <2>4, <3>3, <3>6, <3>7
  <2>10. Acyclic' 
    <3>1. Acyclic BY DEF TreeInv, Acyclic
    <3>2. folders'[f].parent = q.parent BY <2>6, <2>7
    <3> HIDE DEF q
    <3> QED BY <2>4, <2>5, <2>6, <2>8, <2>9, <3>1, <3>2, GraftKeepsAcyclic
  <2>11. TreeInv'
    <3> SUFFICES ASSUME NEW g \in Folders, Exists(g)'
                 PROVE  /\ Holds(folders[g].parent, folders[g].project)'
                        /\ NameFree(folders[g].name, folders[g].project, folders[g].parent, g)'
      BY <2>10 DEF TreeInv, Acyclic
    <3>1. CASE g = f
      <4>1. Holds(folders[f].parent, folders[f].project)'
        BY <2>1, <2>4, <2>6, <2>7 DEF Holds, Exists
      <4>2. NameFree(folders[f].name, folders[f].project, folders[f].parent, f)'
        <5>1. \A h \in Folders : Exists(h) /\ folders[h].parent = q.parent /\ folders[h].project = q.project
                => folders[h].name # q.name
          BY <2>1, FoldersAssumption DEF NameFree
        <5> QED BY <2>6, <2>7, <5>1 DEF NameFree
      <4> QED BY <3>1, <4>1, <4>2
    <3>2. CASE g # f
      <4>1. Exists(g) /\ folders'[g] = folders[g] BY <2>6, <3>2
      <4>2. Holds(folders[g].parent, folders[g].project)'
        BY <2>4, <2>6, <4>1 DEF TreeInv, Holds, Exists
      <4>3. NameFree(folders[g].name, folders[g].project, folders[g].parent, g)'
        <5> SUFFICES ASSUME NEW h \in Folders \ {g}, Exists(h)', folders'[h].parent = folders'[g].parent,
                            folders'[h].project = folders'[g].project
                     PROVE  folders'[h].name # folders'[g].name
          BY DEF NameFree
        <5>1. CASE h = f
          BY <2>1, <2>6, <2>7, <4>1, <5>1, FoldersAssumption DEF NameFree
        <5>2. CASE h # f BY <2>6, <4>1, <5>2 DEF TreeInv, NameFree
        <5> QED BY <5>1, <5>2
      <4> QED BY <4>2, <4>3
    <3> QED BY <3>1, <3>2
  <2>12. DocsFiled' BY <1>0, <2>4, <2>6, FiledStay
  <2> QED BY <2>5, <2>11, <2>12
<1> QED BY <1>1, <1>2

LEMMA RenameFolderKeepsTrees ==
    ASSUME FoldersTypeOK, TreeInv, DocsFiled, NEW c \in Calls, FolderRequest(Req(c)), RenameFolder(c)
    PROVE  FoldersTypeOK' /\ TreeInv' /\ DocsFiled'
<1> DEFINE f == Req(c).folder  name == Req(c).name
<1>0. docs' = docs BY DEF RenameFolder
<1>1. CASE folders' = folders BY <1>0, <1>1, SameTrees
<1>2. CASE folders' # folders
  <2>1. /\ Exists(f) /\ NameFree(name, folders[f].project, folders[f].parent, f)
        /\ folders' = [folders EXCEPT ![f].name = name]
    BY <1>2 DEF RenameFolder
  <2> DEFINE row == [folders[f] EXCEPT !.name = name]
  <2>2. f \in Folders /\ folders[f] \in FolderRows /\ name \in Names
    BY <2>1 DEF Exists, FoldersTypeOK, FolderRequest
  <2>3. row \in FolderRows /\ row # Null /\ row.parent = folders[f].parent /\ row.project = folders[f].project
        /\ row.name = name
    BY <2>2, FoldersAssumption DEF FolderRows
  <2>4. folders' = [folders EXCEPT ![f] = row] BY <2>1
  <2> HIDE DEF f, name, row
  <2>5. FoldersTypeOK' BY <2>2, <2>3, <2>4 DEF FoldersTypeOK
  <2>6. /\ folders'[f] = row
        /\ \A g \in Folders : /\ g # f => folders'[g] = folders[g]
                              /\ Exists(g)' <=> Exists(g)
                              /\ Exists(g) => folders'[g].parent = folders[g].parent
                              /\ Exists(g) => folders'[g].project = folders[g].project
    BY <2>1, <2>2, <2>3, <2>4 DEF FoldersTypeOK, Exists
  <2>7. Acyclic' BY <2>5, <2>6, PruneKeepsAcyclic DEF TreeInv, Acyclic
  <2>8. TreeInv'
    <3> SUFFICES ASSUME NEW g \in Folders, Exists(g)'
                 PROVE  /\ Holds(folders[g].parent, folders[g].project)'
                        /\ NameFree(folders[g].name, folders[g].project, folders[g].parent, g)'
      BY <2>7 DEF TreeInv, Acyclic
    <3>1. Holds(folders[g].parent, folders[g].project)'
      BY <2>6 DEF TreeInv, Holds, Exists
    <3>2. NameFree(folders[g].name, folders[g].project, folders[g].parent, g)'
      <4> SUFFICES ASSUME NEW h \in Folders \ {g}, Exists(h)', folders'[h].parent = folders'[g].parent,
                          folders'[h].project = folders'[g].project
                   PROVE  folders'[h].name # folders'[g].name
        BY DEF NameFree
      <4>0. /\ Exists(h) /\ Exists(g)
            /\ folders[h].parent = folders[g].parent /\ folders[h].project = folders[g].project
        BY <2>6
      <4>1. CASE g = f BY <2>1, <2>3, <2>6, <4>0, <4>1 DEF NameFree
      <4>2. CASE h = f BY <2>1, <2>3, <2>6, <4>0, <4>2 DEF NameFree
      <4>3. CASE g # f /\ h # f BY <2>6, <4>0, <4>3 DEF TreeInv, NameFree
      <4> QED BY <4>1, <4>2, <4>3
    <3> QED BY <3>1, <3>2
  <2>9. DocsFiled' BY <1>0, <2>6, FiledStay
  <2> QED BY <2>5, <2>8, <2>9
<1> QED BY <1>1, <1>2

LEMMA MoveFolderKeepsTrees ==
    ASSUME FoldersTypeOK, TreeInv, DocsFiled, NEW c \in Calls, FolderRequest(Req(c)), MoveFolder(c)
    PROVE  FoldersTypeOK' /\ TreeInv' /\ DocsFiled'
<1> DEFINE f == Req(c).folder  p == Req(c).parent
<1>0. docs' = docs BY DEF MoveFolder
<1>1. CASE folders' = folders BY <1>0, <1>1, SameTrees
<1>2. CASE folders' # folders
  <2>1. Exists(f) /\ MayBeMoved(f, p) /\ folders' = [folders EXCEPT ![f].parent = p]
    BY <1>2 DEF MoveFolder
  <2> DEFINE row == [folders[f] EXCEPT !.parent = p]
  <2>2. f \in Folders /\ folders[f] \in FolderRows /\ p \in Folders \cup {Null}
    BY <2>1 DEF Exists, FoldersTypeOK, FolderRequest
  <2>3. row \in FolderRows /\ row # Null /\ row.parent = p /\ row.project = folders[f].project
        /\ row.name = folders[f].name
    BY <2>2, FoldersAssumption DEF FolderRows
  <2>4. folders' = [folders EXCEPT ![f] = row] BY <2>1
  <2> HIDE DEF f, p, row
  <2>5. FoldersTypeOK' BY <2>2, <2>3, <2>4 DEF FoldersTypeOK
  <2>6. /\ folders'[f] = row
        /\ \A g \in Folders : /\ g # f => folders'[g] = folders[g]
                              /\ Exists(g)' <=> Exists(g)
                              /\ Exists(g) => folders'[g].project = folders[g].project
                              /\ Exists(g) => folders'[g].name = folders[g].name
    BY <2>1, <2>2, <2>3, <2>4 DEF FoldersTypeOK, Exists
  <2>7. Acyclic'
    <3>1. Acyclic BY DEF TreeInv, Acyclic
    <3>2. folders'[f].parent = p /\ (p # Null => f \notin Ancestors(p)) BY <2>1, <2>3, <2>6 DEF MayBeMoved
    <3> QED BY <2>2, <2>5, <2>6, <3>1, <3>2, GraftKeepsAcyclic
  <2>8. TreeInv'
    <3> SUFFICES ASSUME NEW g \in Folders, Exists(g)'
                 PROVE  /\ Holds(folders[g].parent, folders[g].project)'
                        /\ NameFree(folders[g].name, folders[g].project, folders[g].parent, g)'
      BY <2>7 DEF TreeInv, Acyclic
    <3>1. Holds(folders[g].parent, folders[g].project)'
      BY <2>1, <2>3, <2>6 DEF TreeInv, Holds, Exists, MayBeMoved
    <3>2. NameFree(folders[g].name, folders[g].project, folders[g].parent, g)'
      <4> SUFFICES ASSUME NEW h \in Folders \ {g}, Exists(h)', folders'[h].parent = folders'[g].parent,
                          folders'[h].project = folders'[g].project
                   PROVE  folders'[h].name # folders'[g].name
        BY DEF NameFree
      <4>0. Exists(h) /\ Exists(g) /\ folders[h].project = folders[g].project
        BY <2>6
      <4>1. CASE g = f BY <2>1, <2>3, <2>6, <4>0, <4>1 DEF NameFree, MayBeMoved
      <4>2. CASE h = f BY <2>1, <2>3, <2>6, <4>0, <4>2 DEF NameFree, MayBeMoved
      <4>3. CASE g # f /\ h # f BY <2>6, <4>0, <4>3 DEF TreeInv, NameFree
      <4> QED BY <4>1, <4>2, <4>3
    <3> QED BY <3>1, <3>2
  <2>9. DocsFiled' BY <1>0, <2>6, FiledStay
  <2> QED BY <2>5, <2>8, <2>9
<1> QED BY <1>1, <1>2

LEMMA DeleteFolderKeepsTrees ==
    ASSUME FoldersTypeOK, TreeInv, DocsFiled, DOMAIN docs = Docs, NEW c \in Calls, DeleteFolder(c)
    PROVE  FoldersTypeOK' /\ TreeInv' /\ DocsFiled'
<1> DEFINE f == Req(c).folder
<1>0. docs' = docs BY DEF DeleteFolder
<1>1. CASE folders' = folders BY <1>0, <1>1, SameTrees
<1>2. CASE folders' # folders
  <2>1. Exists(f) /\ Children(f) = {} /\ (\A d \in Docs : ~Filed(d, f)) /\ folders' = [folders EXCEPT ![f] = Null]
    BY <1>2 DEF DeleteFolder
  <2> HIDE DEF f
  <2>2. FoldersTypeOK' BY <2>1 DEF FoldersTypeOK
  <2>3. /\ \A g \in Folders : Exists(g)' <=> Exists(g) /\ g # f
        /\ \A g \in Folders : g # f => folders'[g] = folders[g]
        /\ f \in Folders
    BY <2>1 DEF FoldersTypeOK, Exists
  <2>4. Acyclic' BY <2>2, <2>3, PruneKeepsAcyclic DEF TreeInv, Acyclic
  <2>5. \A g \in Folders : Exists(g) => folders[g].parent # f BY <2>1 DEF Children
  <2>6. TreeInv' BY <2>3, <2>4, <2>5 DEF TreeInv, Acyclic, Holds, NameFree, Exists
  <2>7. DocsFiled'
    <3> SUFFICES ASSUME NEW d \in Docs, Created(d) PROVE Fits(docs[d].folder, docs[d].project)'
      BY <1>0 DEF DocsFiled, Created
    <3>1. Fits(docs[d].folder, docs[d].project) /\ docs[d].folder # f
      BY <2>1 DEF DocsFiled, Filed, Created
    <3> QED BY <1>0, <2>3, <3>1 DEF Fits, Exists
  <2> QED BY <2>2, <2>6, <2>7
<1> QED BY <1>1, <1>2

----------------------------------------------------------------------------
(* Documents, their files and their attachments. *)

FolderSteps  == {"createFolder", "renameFolder", "moveFolder", "deleteFolder"}
WritingSteps == {"insert", "number", "append", "cleanup"}
IsWriting(c) == call[c].pc \in WritingSteps

\* Which request takes which step.
StepsInv(c) ==
    /\ call[c].pc \in {"free", "upload", "addVersion", "store", "link", "reassign", "countAttachments", "own",
                       "archive", "restore", "file", "refile", "attach", "insertAttachment", "detach"}
                      \cup FolderSteps \cup WritingSteps
    /\ call[c].pc \in FolderSteps => FolderRequest(Req(c))
    /\ call[c].pc \notin FolderSteps \cup {"free"} => DocumentRequest(Req(c))
    /\ call[c].pc \in {"upload", "insert", "link"} => Req(c).kind = "upload"
    /\ call[c].pc \in {"addVersion", "number", "append"} => Req(c).kind = "addVersion"
    /\ call[c].pc \in {"store", "cleanup"} => Req(c).kind \in {"upload", "addVersion"}
    /\ call[c].pc \in {"reassign", "countAttachments", "own"} => Req(c).kind = "reassign"
    /\ call[c].pc \in {"archive", "restore"} => Req(c).kind \in {"archive", "restore"}
    /\ call[c].pc \in {"file", "refile"} => Req(c).kind = "file"
    /\ call[c].pc \in {"attach", "insertAttachment"} => Req(c).kind = "attach"
    /\ call[c].pc = "detach" => Req(c).kind = "detach"
    /\ call[c].pc = "insertAttachment" => TargetAllowed(Req(c))
    /\ call[c].pc \in {"store", "insert", "link"} /\ Req(c).kind = "upload" /\ Req(c).link
          => TargetAllowed(Req(c))

\* The file a handler writes about is there and its own: no version has it yet, unless
\* the answer of the commit was lost.
FileInv(c) ==
    /\ At(c, "store") /\ Req(c).kind = "upload" => Seen(c).doc = Null
    /\ IsWriting(c) => Seen(c).path \in DOMAIN blobs /\ blobs[Seen(c).path]
    /\ call[c].pc \in {"insert", "number", "append"} => ~Referenced(Seen(c).path)
    /\ At(c, "cleanup") /\ Referenced(Seen(c).path) => Seen(c).path \in mishaps

\* A number read before the transaction is at most the next one.
VersionInv(c) ==
    /\ call[c].pc \in {"number", "append"} \/ (At(c, "store") /\ Req(c).kind = "addVersion") =>
          /\ Seen(c).doc = Req(c).doc /\ Created(Req(c).doc)
          /\ <<"doc", Req(c).doc>> \notin raced => ~docs[Req(c).doc].archived
    /\ At(c, "append") => Seen(c).n \in Nat /\ 1 < Seen(c).n /\ Seen(c).n <= docs[Req(c).doc].version + 1

\* A document that moves to another project has no attachment by the end, and one that is
\* attached is of the right project, unless a request about the links has overlapped.
LinkInv(c) ==
    /\ call[c].pc \in {"countAttachments", "own"} =>
          /\ Created(Req(c).doc)
          /\ <<"doc", Req(c).doc>> \notin raced => ~docs[Req(c).doc].archived
    /\ call[c].pc \in {"refile", "insertAttachment"} => Created(Req(c).doc)
    /\ At(c, "countAttachments") /\ <<"links">> \notin raced =>
          \A a \in Attachments : attachments[a] # Null /\ attachments[a].doc = Req(c).doc
              => attachments[a].ref \in Seen(c).refs
    /\ At(c, "own") /\ <<"links">> \notin raced =>
          \A a \in Attachments : attachments[a] # Null => attachments[a].doc # Req(c).doc
    /\ At(c, "insertAttachment") /\ <<"links">> \notin raced =>
          docs[Req(c).doc].project \in {Null, Req(c).project}
    /\ At(c, "link") =>
          /\ Req(c).link /\ Created(Seen(c).doc)
          /\ \E v \in versions : v.doc = Seen(c).doc /\ v.path = Seen(c).path
          /\ <<"links">> \notin raced => docs[Seen(c).doc].project = Req(c).project

CallInv(c) == StepsInv(c) /\ FileInv(c) /\ VersionInv(c) /\ LinkInv(c)

\* Every file is in one version, or with one handler.
FilesInv ==
    /\ IsFiniteSet(versions)
    /\ \A v \in versions : Created(v.doc)
    /\ \A u, v \in versions : u.path = v.path => u = v
    /\ \A c, d \in Calls : c # d /\ IsWriting(c) /\ IsWriting(d) => Seen(c).path # Seen(d).path
    /\ VersionsMatchFiles

\* A document is in the project it was attached through.
LinkedInProject ==
    \A a \in Attachments : attachments[a] # Null /\ <<"links">> \notin raced
        => docs[attachments[a].doc].project \in {Null, attachments[a].project}

\* What is attached is a document, by its url or one of its files, to work it was allowed to.
LinksInv ==
    /\ \A a \in Attachments : attachments[a] # Null =>
          /\ Created(attachments[a].doc)
          /\ attachments[a].ref # Null =>
                \E v \in versions : v.doc = attachments[a].doc /\ v.path = attachments[a].ref
          /\ TargetAllowed(attachments[a])
    /\ LinkedInProject

Inv ==
    /\ HandlersInv /\ TypeOK /\ TreeInv /\ DocsFiled /\ FilesInv /\ LinksInv
    /\ \A c \in Calls : CallInv(c)

\* What a step of c leaves to the other calls.
Leaves(c) ==
    /\ \A d \in Docs : Created(d) =>
          /\ Created(d)'
          /\ docs'[d].version >= docs[d].version
          /\ <<"links">> \notin Req(c).on => docs'[d].project = docs[d].project
          /\ <<"doc", d>> \notin Req(c).on => docs'[d].archived = docs[d].archived
    /\ versions \subseteq versions'
    /\ \A v \in versions' : v \in versions \/ (IsWriting(c) /\ v.path = Seen(c).path)
    /\ DOMAIN blobs \subseteq DOMAIN blobs'
    /\ \A b \in DOMAIN blobs : blobs'[b] = blobs[b] \/ (IsWriting(c) /\ b = Seen(c).path)
    /\ mishaps \subseteq mishaps'
    /\ <<"links">> \notin Req(c).on => \A a \in Attachments : attachments'[a] \in {Null, attachments[a]}

\* A handler that takes a step leaves to another one what that one knows.
LEMMA OthersKeep ==
    ASSUME Inv, NEW c \in Calls, call[c].pc # "free", Leaves(c),
           NEW d \in Calls, d # c, call'[d] = call[d], raced' = raced, TypeOK'
    PROVE  CallInv(d)'
<1>0. CallInv(d) /\ TypeOK /\ HandlersInv BY DEF Inv
<1>1. /\ Req(d)' = Req(d) /\ Seen(d)' = Seen(d) /\ (IsWriting(d)' <=> IsWriting(d))
      /\ \A step : At(d, step)' <=> At(d, step)
  BY DEF Req, Seen, IsWriting, At
<1>2. call[d].pc # "free" => Req(c).on \cap Req(d).on \subseteq raced
  BY <1>0 DEF HandlersInv, RacedInv, InFlight
<1>3. StepsInv(d)' BY <1>0, <1>1 DEF CallInv, StepsInv
<1>4. FileInv(d)'
  <2>1. IsWriting(d) => /\ Referenced(Seen(d).path)' => Referenced(Seen(d).path)
                        /\ Seen(d).path \in DOMAIN blobs => blobs'[Seen(d).path] = blobs[Seen(d).path]
    <3> SUFFICES ASSUME IsWriting(d)
                 PROVE  /\ Referenced(Seen(d).path)' => Referenced(Seen(d).path)
                        /\ Seen(d).path \in DOMAIN blobs => blobs'[Seen(d).path] = blobs[Seen(d).path]
      OBVIOUS
    <3>1. IsWriting(c) => Seen(c).path # Seen(d).path BY DEF Inv, FilesInv
    <3> QED BY <1>1, <3>1 DEF Leaves, Referenced
  <2> QED BY <1>0, <1>1, <2>1 DEF CallInv, FileInv, Leaves, IsWriting, WritingSteps, At
<1>5. VersionInv(d)'
  <2>1. DocumentRequest(Req(d)) /\ Req(d).kind = "addVersion" => Req(d).doc \in Docs /\ <<"doc", Req(d).doc>> \in Req(d).on
    BY DEF DocumentRequest
  <2>2. call[d].pc \in {"number", "append"} \/ (At(d, "store") /\ Req(d).kind = "addVersion")
        => Req(d).doc \in Docs /\ <<"doc", Req(d).doc>> \in Req(d).on /\ call[d].pc # "free"
    BY <1>0, <2>1 DEF CallInv, StepsInv, FolderSteps, At
  <2>3. call[d].pc \in {"number", "append"} \/ (At(d, "store") /\ Req(d).kind = "addVersion") =>
          /\ Seen(d).doc = Req(d).doc /\ Created(Req(d).doc)'
          /\ <<"doc", Req(d).doc>> \notin raced => ~docs'[Req(d).doc].archived
    <3> SUFFICES ASSUME call[d].pc \in {"number", "append"} \/ (At(d, "store") /\ Req(d).kind = "addVersion")
                 PROVE  /\ Seen(d).doc = Req(d).doc /\ Created(Req(d).doc)'
                        /\ <<"doc", Req(d).doc>> \notin raced => ~docs'[Req(d).doc].archived
      OBVIOUS
    <3>0. PICK x : x = Req(d).doc OBVIOUS
    <3>1. x \in Docs /\ <<"doc", x>> \in Req(d).on /\ call[d].pc # "free" BY <2>2, <3>0
    <3>2. Seen(d).doc = x /\ Created(x) /\ (<<"doc", x>> \notin raced => ~docs[x].archived)
      BY <1>0, <3>0 DEF CallInv, VersionInv
    <3>3. Created(x)' /\ (<<"doc", x>> \notin Req(c).on => docs'[x].archived = docs[x].archived)
      BY <3>1, <3>2 DEF Leaves
    <3>4. <<"doc", x>> \notin raced => <<"doc", x>> \notin Req(c).on BY <1>2, <3>1
    <3>5. Seen(d).doc = x /\ Created(x)' /\ (<<"doc", x>> \notin raced => ~docs'[x].archived)
      BY <3>2, <3>3, <3>4
    <3> QED BY <1>1, <3>0, <3>5
  <2>4. At(d, "append") => Seen(d).n \in Nat /\ 1 < Seen(d).n /\ Seen(d).n <= docs'[Req(d).doc].version + 1
    <3> SUFFICES ASSUME At(d, "append")
                 PROVE  Seen(d).n \in Nat /\ 1 < Seen(d).n /\ Seen(d).n <= docs'[Req(d).doc].version + 1
      OBVIOUS
    <3>0. PICK x : x = Req(d).doc OBVIOUS
    <3>1. x \in Docs /\ Created(x) BY <1>0, <2>2, <3>0 DEF At, CallInv, VersionInv
    <3>2. docs[x].version \in Nat BY <1>0, <3>1 DEF TypeOK, Created, DocumentRows
    <3>3. docs'[x].version >= docs[x].version /\ Created(x)' BY <3>1 DEF Leaves
    <3>5. docs'[x].version \in Nat BY <3>1, <3>3 DEF TypeOK, Created, DocumentRows
    <3>4. Seen(d).n \in Nat /\ 1 < Seen(d).n /\ Seen(d).n <= docs[Req(d).doc].version + 1
      BY <1>0 DEF CallInv, VersionInv
    <3> QED BY <3>0, <3>2, <3>3, <3>4, <3>5
  <2> QED BY <1>1, <2>3, <2>4 DEF VersionInv, At
<1>6. LinkInv(d)'
  <2>0. LinkInv(d) /\ StepsInv(d) BY <1>0 DEF CallInv
  <2>13. PICK x, y : x = Req(d).doc /\ y = Seen(d).doc OBVIOUS
  <2>1. ASSUME call[d].pc \in {"countAttachments", "own"}
        PROVE  x \in Docs /\ <<"doc", x>> \in Req(d).on /\ <<"links">> \in Req(d).on
    BY <2>13, <2>0, <2>1 DEF StepsInv, FolderSteps, DocumentRequest
  <2>2. ASSUME call[d].pc \in {"refile", "insertAttachment"}
        PROVE  x \in Docs /\ (At(d, "insertAttachment") => <<"links">> \in Req(d).on)
    BY <2>13, <2>0, <2>2 DEF StepsInv, FolderSteps, DocumentRequest, LinkRequest, At
  <2>3. ASSUME At(d, "link") PROVE y \in Docs /\ (Req(d).link => <<"links">> \in Req(d).on)
    BY <2>13, <2>0, <2>3 DEF StepsInv, FolderSteps, DocumentRequest, LinkRequest, At, LinkInv, Created
  <2>4. ASSUME NEW r, call[d].pc # "free", r \in Req(d).on, r \notin raced PROVE r \notin Req(c).on
    BY <1>2, <2>4
  <2>5. ASSUME call[d].pc \in {"countAttachments", "own"}
        PROVE  Created(x)' /\ (<<"doc", x>> \notin raced => ~docs'[x].archived)
    <3>1. Created(x) /\ (<<"doc", x>> \notin raced => ~docs[x].archived) BY <2>13, <2>0, <2>5 DEF LinkInv
    <3>2. x \in Docs /\ <<"doc", x>> \in Req(d).on BY <2>1, <2>5
    <3>3. <<"doc", x>> \notin raced => <<"doc", x>> \notin Req(c).on BY <1>2, <2>5, <3>2
    <3> QED BY <3>1, <3>2, <3>3 DEF Leaves
  <2>6. ASSUME call[d].pc \in {"refile", "insertAttachment"} PROVE Created(x)'
    BY <2>13, <2>0, <2>2, <2>6 DEF LinkInv, Leaves
  <2>7. ASSUME call[d].pc \in {"countAttachments", "own", "insertAttachment", "link"}, <<"links">> \notin raced
        PROVE  /\ \A a \in Attachments : attachments'[a] \in {Null, attachments[a]}
               /\ \A z \in Docs : Created(z) => docs'[z].project = docs[z].project
    <3>1. <<"links">> \in Req(d).on /\ call[d].pc # "free" BY <2>0, <2>1, <2>2, <2>3, <2>7 DEF At, LinkInv
    <3>2. <<"links">> \notin Req(c).on BY <1>2, <2>7, <3>1
    <3> QED BY <3>2 DEF Leaves
  <2>8. ASSUME At(d, "countAttachments"), <<"links">> \notin raced
        PROVE  \A a \in Attachments : attachments'[a] # Null /\ attachments'[a].doc = x
                  => attachments'[a].ref \in Seen(d).refs
    BY <2>13, <2>0, <2>7, <2>8 DEF At, LinkInv
  <2>9. ASSUME At(d, "own"), <<"links">> \notin raced
        PROVE  \A a \in Attachments : attachments'[a] # Null => attachments'[a].doc # x
    BY <2>13, <2>0, <2>7, <2>9 DEF At, LinkInv
  <2>10. ASSUME At(d, "insertAttachment"), <<"links">> \notin raced
         PROVE  docs'[x].project \in {Null, Req(d).project}
    BY <2>13, <2>0, <2>2, <2>7, <2>10 DEF At, LinkInv
  <2>11. ASSUME At(d, "link")
         PROVE  /\ Req(d).link /\ Created(y)'
                /\ \E v \in versions' : v.doc = y /\ v.path = Seen(d).path
                /\ <<"links">> \notin raced => docs'[y].project = Req(d).project
    BY <2>13, <2>0, <2>3, <2>7, <2>11 DEF At, LinkInv, Leaves
  <2>12. Req(d)'.doc = x /\ Seen(d)'.doc = y BY <1>1, <2>13
  <2> QED BY <1>1, <2>5, <2>6, <2>8, <2>9, <2>10, <2>11, <2>12 DEF LinkInv, At
<1> QED BY <1>3, <1>4, <1>5, <1>6 DEF CallInv

\* Nothing changes but the handlers.
TablesUntouched == UNCHANGED <<folders, docs, fileVars>>

\* A step of c keeps the invariant if it keeps the tables, and what is known of c.
LEMMA StepKeeps ==
    ASSUME Inv, NEW c \in Calls, call[c].pc # "free", HandlersInv', raced' = raced,
           \A d \in Calls : d # c => call'[d] = call[d],
           Leaves(c), TypeOK', TreeInv', DocsFiled', FilesInv', LinksInv', CallInv(c)'
    PROVE  Inv'
<1>1. ASSUME NEW d \in Calls PROVE CallInv(d)' BY OthersKeep
<1> QED BY <1>1 DEF Inv

\* Rows and files are as they were as long as the same handlers write the same files.
LEMMA FilesUntouched ==
    ASSUME FilesInv, UNCHANGED <<versions, blobs, mishaps>>,
           \A d \in Calls : (IsWriting(d)' <=> IsWriting(d)) /\ (IsWriting(d) => Seen(d)'.path = Seen(d).path),
           \A d \in Docs : /\ Created(d)' <=> Created(d)
                           /\ Created(d) => docs'[d].version = docs[d].version /\ docs'[d].path = docs[d].path
    PROVE  FilesInv'
<1>1. \A d \in Docs : VersionsOf(d)' = VersionsOf(d) BY DEF VersionsOf
<1>2. Writing' = Writing BY DEF Writing, IsWriting, WritingSteps
<1>3. \A b : Referenced(b)' <=> Referenced(b) BY DEF Referenced
<1>4. \A v \in versions : v.doc \in Docs BY DEF FilesInv, Created
<1>5. VersionsMatchFiles' BY <1>1, <1>2, <1>3 DEF FilesInv, VersionsMatchFiles
<1> QED BY <1>4, <1>5 DEF FilesInv

\* Links that are there hold as long as no document changes its project.
LEMMA LinksUntouched ==
    ASSUME LinksInv, raced \subseteq raced', versions \subseteq versions',
           \A a \in Attachments : attachments'[a] \in {Null, attachments[a]},
           \A d \in Docs : Created(d) => Created(d)' /\ docs'[d].project = docs[d].project
    PROVE  LinksInv'
<1> SUFFICES ASSUME NEW a \in Attachments, attachments'[a] # Null
             PROVE  /\ Created(attachments[a].doc)'
                    /\ attachments'[a].ref # Null =>
                          \E v \in versions' : v.doc = attachments'[a].doc /\ v.path = attachments'[a].ref
                    /\ TargetAllowed(attachments'[a])
                    /\ <<"links">> \notin raced' =>
                          docs'[attachments'[a].doc].project \in {Null, attachments'[a].project}
  BY DEF LinksInv, LinkedInProject
<1>0. PICK d : d = attachments[a].doc OBVIOUS
<1>1. attachments'[a] = attachments[a] /\ attachments[a] # Null OBVIOUS
<1>2. Created(d) /\ d \in Docs BY <1>0, <1>1 DEF LinksInv, Created
<1>3. Created(d)' /\ docs'[d].project = docs[d].project BY <1>2
<1> QED BY <1>0, <1>1, <1>3 DEF LinksInv, LinkedInProject

\* A step that reads.
LEMMA ReadingKeeps ==
    ASSUME Inv, NEW c \in Calls, call[c].pc # "free", TablesUntouched, HandlersInv', raced' = raced,
           \A d \in Calls : d # c => call'[d] = call[d],
           (IsWriting(c)' <=> IsWriting(c)) /\ (IsWriting(c) => Seen(c)'.path = Seen(c).path),
           CallInv(c)'
    PROVE  Inv'
<1> USE DEF TablesUntouched, fileVars
<1>1. \A d \in Docs : Created(d)' <=> Created(d) BY DEF Created
<1>2. TypeOK' BY DEF Inv, TypeOK, FoldersTypeOK, HandlersInv
<1>3. TreeInv' /\ DocsFiled' BY SameTrees DEF Inv, TypeOK
<1>4. \A d \in Calls : (IsWriting(d)' <=> IsWriting(d)) /\ (IsWriting(d) => Seen(d)'.path = Seen(d).path)
  BY DEF IsWriting, Seen
<1>5. FilesInv' BY <1>1, <1>4, FilesUntouched DEF Inv
<1>6. LinksInv' BY <1>1, LinksUntouched DEF Inv
<1>7. Leaves(c)
  <2>1. \A d \in Docs : Created(d) => docs[d].version \in Nat BY DEF Inv, TypeOK, Created, DocumentRows
  <2> QED BY <1>1, <2>1 DEF Leaves
<1> QED BY <1>2, <1>3, <1>5, <1>6, <1>7, StepKeeps

\* A handler that is free knows nothing.
LEMMA FreeCallInv == ASSUME NEW c \in Calls, call'[c] = Free PROVE CallInv(c)' /\ ~IsWriting(c)'
BY DEF CallInv, StepsInv, FileInv, VersionInv, LinkInv, At, IsWriting, FolderSteps, WritingSteps, Free

\* A request arrives.
LEMMA ArriveKeeps ==
    ASSUME Inv, NEW c \in Calls, Arrive(c), TablesUntouched
    PROVE  Inv'
<1> USE DEF TablesUntouched, fileVars
<1>0. PICK q \in load :
        /\ FolderRequest(q) \/ DocumentRequest(q)
        /\ call[c].pc = "free"
        /\ call'[c] = [req |-> q, pc |-> q.kind, seen |-> Null]
        /\ \A d \in Calls : d # c => call'[d] = call[d]
        /\ load' = load /\ raced \subseteq raced'
        /\ HandlersInv'
  BY ArriveShape DEF Inv
<1>1. \A d \in Docs : Created(d)' <=> Created(d) BY DEF Created
<1>2. TypeOK' BY <1>0 DEF Inv, TypeOK, FoldersTypeOK, HandlersInv
<1>3. TreeInv' /\ DocsFiled' BY SameTrees DEF Inv, TypeOK
<1>4. call'[c].pc = q.kind /\ Req(c)' = q /\ Seen(c)' = Null BY <1>0 DEF Req, Seen
<1>5. \/ q.kind \in FolderSteps /\ FolderRequest(q)
      \/ /\ q.kind \in {"upload", "addVersion", "archive", "restore", "file", "reassign", "attach", "detach"}
         /\ DocumentRequest(q)
  <2>1. FolderRequest(q) => q.kind \in FolderSteps BY DEF FolderRequest, FolderSteps
  <2>2. DocumentRequest(q) => q.kind \in {"upload", "addVersion", "archive", "restore", "file", "reassign", "attach", "detach"}
    BY DEF DocumentRequest
  <2> QED BY <1>0, <2>1, <2>2
<1>6. CallInv(c)'
  BY <1>4, <1>5 DEF CallInv, StepsInv, FileInv, VersionInv, LinkInv, At, IsWriting, FolderSteps, WritingSteps
<1>7. \A d \in Calls : (IsWriting(d)' <=> IsWriting(d)) /\ (IsWriting(d) => Seen(d)'.path = Seen(d).path)
  BY <1>0, <1>4, <1>5 DEF IsWriting, Seen, FolderSteps, WritingSteps
<1>8. FilesInv' BY <1>1, <1>7, FilesUntouched DEF Inv
<1>9. LinksInv' BY <1>0, <1>1, LinksUntouched DEF Inv
<1>10. ASSUME NEW d \in Calls, d # c PROVE CallInv(d)'
  <2>1. call'[d] = call[d] /\ CallInv(d) /\ raced \subseteq raced' BY <1>0, <1>10 DEF Inv
  <2>2. \A z : Referenced(z)' <=> Referenced(z) BY DEF Referenced
  <2> QED BY <2>1, <2>2 DEF CallInv, StepsInv, FileInv, VersionInv, LinkInv, At, IsWriting, Req, Seen, Created
<1> QED BY <1>0, <1>2, <1>3, <1>6, <1>8, <1>9, <1>10 DEF Inv

----------------------------------------------------------------------------
(* The steps that read. *)

LEMMA AnswerReads ==
    ASSUME Inv, NEW c \in Calls, call[c].pc # "free", ~IsWriting(c), Answer(c), TablesUntouched
    PROVE  Inv'
<1>1. /\ call'[c] = Free /\ raced' = raced /\ HandlersInv'
      /\ \A d \in Calls : d # c => call'[d] = call[d]
  BY AnswerShape DEF Inv
<1> QED BY <1>1, FreeCallInv, ReadingKeeps

LEMMA GotoReads ==
    ASSUME Inv, NEW c \in Calls, call[c].pc # "free", NEW step, step # "free", NEW seen, Goto(c, step, seen),
           TablesUntouched, CallInv(c)',
           (step \in WritingSteps <=> IsWriting(c)) /\ (IsWriting(c) => seen.path = Seen(c).path)
    PROVE  Inv'
<1>1. /\ call'[c] = [req |-> Req(c), pc |-> step, seen |-> seen] /\ raced' = raced /\ HandlersInv'
      /\ \A d \in Calls : d # c => call'[d] = call[d]
  BY GotoShape DEF Inv
<1>2. (IsWriting(c)' <=> IsWriting(c)) /\ (IsWriting(c) => Seen(c)'.path = Seen(c).path)
  BY <1>1 DEF IsWriting, Seen
<1> QED BY <1>1, <1>2, ReadingKeeps

LEMMA UploadKeeps == ASSUME Inv, NEW c \in Calls, Upload(c) PROVE Inv'
<1>0. call[c].pc = "upload" /\ TablesUntouched BY DEF Upload, At, TablesUntouched
<1>1. ~IsWriting(c) BY <1>0 DEF IsWriting, WritingSteps
<1>2. CASE Answer(c) BY <1>0, <1>1, <1>2, AnswerReads
<1>3. CASE (Req(c).link => TargetAllowed(Req(c))) /\ Goto(c, "store", [doc |-> Null])
  <2>1. /\ call'[c] = [req |-> Req(c), pc |-> "store", seen |-> [doc |-> Null]] /\ raced' = raced
    BY <1>0, <1>3, GotoShape DEF Inv
  <2>2. Req(c)' = Req(c) /\ Seen(c)' = [doc |-> Null] /\ call'[c].pc = "store" BY <2>1 DEF Req, Seen
  <2>3. DocumentRequest(Req(c)) /\ Req(c).kind = "upload"
    BY <1>0 DEF Inv, CallInv, StepsInv, FolderSteps
  <2>4. CallInv(c)'
    BY <1>3, <2>2, <2>3 DEF CallInv, StepsInv, FileInv, VersionInv, LinkInv, At, IsWriting, FolderSteps, WritingSteps
  <2> QED BY <1>0, <1>1, <1>3, <2>4, GotoReads DEF WritingSteps
<1> QED BY <1>2, <1>3 DEF Upload

LEMMA AddVersionKeeps == ASSUME Inv, NEW c \in Calls, AddVersion(c) PROVE Inv'
<1>0. call[c].pc = "addVersion" /\ TablesUntouched BY DEF AddVersion, At, TablesUntouched
<1>1. ~IsWriting(c) BY <1>0 DEF IsWriting, WritingSteps
<1>2. CASE Answer(c) BY <1>0, <1>1, <1>2, AnswerReads
<1>3. CASE Created(Req(c).doc) /\ ~docs[Req(c).doc].archived /\ Goto(c, "store", [doc |-> Req(c).doc])
  <2>0. PICK d : d = Req(c).doc OBVIOUS
  <2>1. call'[c] = [req |-> Req(c), pc |-> "store", seen |-> [doc |-> d]] /\ raced' = raced
    BY <1>0, <1>3, <2>0, GotoShape DEF Inv
  <2>2. Req(c)' = Req(c) /\ Seen(c)' = [doc |-> d] /\ call'[c].pc = "store" BY <2>1 DEF Req, Seen
  <2>3. DocumentRequest(Req(c)) /\ Req(c).kind = "addVersion"
    BY <1>0 DEF Inv, CallInv, StepsInv, FolderSteps
  <2>4. Created(d)' /\ ~docs'[d].archived /\ Req(c)'.doc = d
    BY <1>0, <1>3, <2>0, <2>2 DEF Created, TablesUntouched
  <2>5. CallInv(c)'
    BY <2>2, <2>3, <2>4 DEF CallInv, StepsInv, FileInv, VersionInv, LinkInv, At, IsWriting, FolderSteps, WritingSteps
  <2> QED BY <1>0, <1>1, <1>3, <2>5, GotoReads DEF WritingSteps
<1> QED BY <1>2, <1>3 DEF AddVersion

LEMMA NumberVersionKeeps == ASSUME Inv, NEW c \in Calls, NumberVersion(c) PROVE Inv'
<1> DEFINE n == docs[Seen(c).doc].version + 1
           seen == [doc |-> Seen(c).doc, path |-> Seen(c).path, n |-> n]
<1>0. call[c].pc = "number" /\ TablesUntouched /\ Goto(c, "append", seen)
  BY DEF NumberVersion, At, TablesUntouched
<1>1. IsWriting(c) BY <1>0 DEF IsWriting, WritingSteps
<1>2. /\ StepsInv(c) /\ Seen(c).doc = Req(c).doc /\ Created(Req(c).doc)
      /\ <<"doc", Req(c).doc>> \notin raced => ~docs[Req(c).doc].archived
      /\ Seen(c).path \in DOMAIN blobs /\ blobs[Seen(c).path] /\ ~Referenced(Seen(c).path)
  BY <1>0, <1>1 DEF Inv, CallInv, VersionInv, FileInv
<1>3. PICK d, p, m : d = Req(c).doc /\ p = Seen(c).path /\ m = n OBVIOUS
<1>4. seen = [doc |-> d, path |-> p, n |-> m] BY <1>2, <1>3
<1> HIDE DEF n, seen
<1>5. call'[c] = [req |-> Req(c), pc |-> "append", seen |-> seen] /\ raced' = raced
  BY <1>0, GotoShape DEF Inv
<1>6. /\ Req(c)' = Req(c) /\ call'[c].pc = "append" /\ Req(c)'.doc = d
      /\ Seen(c)'.doc = d /\ Seen(c)'.path = p /\ Seen(c)'.n = m
  BY <1>3, <1>4, <1>5 DEF Req, Seen
<1>7. d \in Docs /\ docs[d].version \in 1..MaxBlobs /\ m = docs[d].version + 1
  BY <1>2, <1>3 DEF Inv, TypeOK, Created, DocumentRows, n
<1>8. /\ Created(d)' /\ docs'[d] = docs[d] /\ (<<"doc", d>> \notin raced' => ~docs'[d].archived)
      /\ p \in DOMAIN blobs' /\ blobs'[p] /\ ~Referenced(p)'
  BY <1>0, <1>2, <1>3, <1>5 DEF TablesUntouched, fileVars, Created, Referenced
<1>9. DocumentRequest(Req(c)) /\ Req(c).kind = "addVersion"
  BY <1>0, <1>2 DEF StepsInv, FolderSteps
<1>10. m \in Nat /\ 1 < m /\ m <= docs'[d].version + 1 BY <1>7, <1>8, DocumentsAssumption
<1>11. StepsInv(c)' BY <1>6, <1>9 DEF StepsInv, FolderSteps, WritingSteps
<1>12. FileInv(c)' BY <1>6, <1>8 DEF FileInv, At
<1>13. VersionInv(c)' BY <1>6, <1>8, <1>10 DEF VersionInv, At
<1>14. LinkInv(c)' BY <1>6 DEF LinkInv, At
<1>15. CallInv(c)' BY <1>11, <1>12, <1>13, <1>14 DEF CallInv
<1>16. seen.path = Seen(c).path BY <1>3, <1>4
<1> QED BY <1>0, <1>1, <1>15, <1>16, GotoReads DEF WritingSteps

LEMMA ReassignKeeps == ASSUME Inv, NEW c \in Calls, Reassign(c) PROVE Inv'
<1>0. call[c].pc = "reassign" /\ TablesUntouched BY DEF Reassign, At, TablesUntouched
<1>1. ~IsWriting(c) BY <1>0 DEF IsWriting, WritingSteps
<1>2. CASE Answer(c) BY <1>0, <1>1, <1>2, AnswerReads
<1>3. CASE /\ Created(Req(c).doc) /\ ~docs[Req(c).doc].archived
           /\ Goto(c, "countAttachments", [folder |-> docs[Req(c).doc].folder, refs |-> Paths(Req(c).doc)])
  <2>0. PICK d, f, refs : d = Req(c).doc /\ f = docs[d].folder /\ refs = Paths(d) OBVIOUS
  <2>1. call'[c] = [req |-> Req(c), pc |-> "countAttachments", seen |-> [folder |-> f, refs |-> refs]] /\ raced' = raced
    BY <1>0, <1>3, <2>0, GotoShape DEF Inv
  <2>2. Req(c)' = Req(c) /\ Seen(c)'.refs = refs /\ call'[c].pc = "countAttachments" BY <2>1 DEF Req, Seen
  <2>3. DocumentRequest(Req(c)) /\ Req(c).kind = "reassign"
    BY <1>0 DEF Inv, CallInv, StepsInv, FolderSteps
  <2>4. Created(d)' /\ ~docs'[d].archived /\ Req(c)'.doc = d
    BY <1>0, <1>3, <2>0, <2>2 DEF Created, TablesUntouched
  <2>5. \A a \in Attachments : attachments'[a] # Null /\ attachments'[a].doc = d => attachments'[a].ref \in refs
    BY <1>0, <2>0 DEF TablesUntouched, fileVars, Paths, VersionsOf, Inv, LinksInv
  <2>6. StepsInv(c)' BY <2>2, <2>3 DEF StepsInv, FolderSteps, WritingSteps
  <2>7. FileInv(c)' /\ VersionInv(c)' BY <2>2 DEF FileInv, VersionInv, At, IsWriting, WritingSteps
  <2>8. LinkInv(c)' BY <2>2, <2>4, <2>5 DEF LinkInv, At
  <2>9. CallInv(c)' BY <2>6, <2>7, <2>8 DEF CallInv
  <2> QED BY <1>0, <1>1, <1>3, <2>9, GotoReads DEF WritingSteps
<1> QED BY <1>2, <1>3 DEF Reassign

LEMMA CountAttachmentsKeeps == ASSUME Inv, NEW c \in Calls, CountAttachments(c) PROVE Inv'
<1>0. call[c].pc = "countAttachments" /\ TablesUntouched BY DEF CountAttachments, At, TablesUntouched
<1>1. ~IsWriting(c) BY <1>0 DEF IsWriting, WritingSteps
<1>2. CASE Answer(c) BY <1>0, <1>1, <1>2, AnswerReads
<1>3. CASE /\ {a \in Attachments : /\ attachments[a] # Null /\ attachments[a].doc = Req(c).doc
                                   /\ attachments[a].ref \in Seen(c).refs} = {}
           /\ Goto(c, "own", Null)
  <2>0. PICK d : d = Req(c).doc OBVIOUS
  <2>1. call'[c] = [req |-> Req(c), pc |-> "own", seen |-> Null] /\ raced' = raced
    BY <1>0, <1>3, GotoShape DEF Inv
  <2>2. Req(c)' = Req(c) /\ call'[c].pc = "own" /\ Req(c)'.doc = d BY <2>0, <2>1 DEF Req, Seen
  <2>3. DocumentRequest(Req(c)) /\ Req(c).kind = "reassign" /\ LinkInv(c)
    BY <1>0 DEF Inv, CallInv, StepsInv, FolderSteps
  <2>4. Created(d)' /\ (<<"doc", d>> \notin raced' => ~docs'[d].archived)
    BY <1>0, <2>0, <2>1, <2>3 DEF Created, TablesUntouched, LinkInv
  <2>5. <<"links">> \notin raced' => \A a \in Attachments : attachments'[a] # Null => attachments'[a].doc # d
    BY <1>0, <1>3, <2>0, <2>1, <2>3 DEF TablesUntouched, fileVars, LinkInv, At
  <2>6. StepsInv(c)' BY <2>2, <2>3 DEF StepsInv, FolderSteps, WritingSteps
  <2>7. FileInv(c)' /\ VersionInv(c)' BY <2>2 DEF FileInv, VersionInv, At, IsWriting, WritingSteps
  <2>8. LinkInv(c)' BY <2>2, <2>4, <2>5 DEF LinkInv, At
  <2>9. CallInv(c)' BY <2>6, <2>7, <2>8 DEF CallInv
  <2> QED BY <1>0, <1>1, <1>3, <2>9, GotoReads DEF WritingSteps
<1> QED BY <1>2, <1>3 DEF CountAttachments

LEMMA FileKeeps == ASSUME Inv, NEW c \in Calls, File(c) PROVE Inv'
<1>0. call[c].pc = "file" /\ TablesUntouched BY DEF File, At, TablesUntouched
<1>1. ~IsWriting(c) BY <1>0 DEF IsWriting, WritingSteps
<1>2. CASE Answer(c) BY <1>0, <1>1, <1>2, AnswerReads
<1>3. CASE /\ Created(Req(c).doc)
           /\ Goto(c, "refile", [project |-> docs[Req(c).doc].project, folder |-> docs[Req(c).doc].folder])
  <2>0. PICK d, s : d = Req(c).doc /\ s = [project |-> docs[d].project, folder |-> docs[d].folder] OBVIOUS
  <2>1. call'[c] = [req |-> Req(c), pc |-> "refile", seen |-> s] /\ raced' = raced
    BY <1>0, <1>3, <2>0, GotoShape DEF Inv
  <2>2. Req(c)' = Req(c) /\ call'[c].pc = "refile" /\ Req(c)'.doc = d BY <2>0, <2>1 DEF Req, Seen
  <2>3. DocumentRequest(Req(c)) /\ Req(c).kind = "file"
    BY <1>0 DEF Inv, CallInv, StepsInv, FolderSteps
  <2>4. Created(d)' BY <1>0, <1>3, <2>0 DEF Created, TablesUntouched
  <2>5. CallInv(c)'
    BY <2>2, <2>3, <2>4 DEF CallInv, StepsInv, FileInv, VersionInv, LinkInv, At, IsWriting, FolderSteps, WritingSteps
  <2> QED BY <1>0, <1>1, <1>3, <2>0, <2>5, GotoReads DEF WritingSteps
<1> QED BY <1>2, <1>3 DEF File

LEMMA AttachKeeps == ASSUME Inv, NEW c \in Calls, Attach(c) PROVE Inv'
<1>0. call[c].pc = "attach" /\ TablesUntouched BY DEF Attach, At, TablesUntouched
<1>1. ~IsWriting(c) BY <1>0 DEF IsWriting, WritingSteps
<1>2. CASE Answer(c) BY <1>0, <1>1, <1>2, AnswerReads
<1>3. CASE /\ TargetAllowed(Req(c))
           /\ Created(Req(c).doc) /\ docs[Req(c).doc].project \in {Null, Req(c).project}
           /\ Goto(c, "insertAttachment", Null)
  <2>0. PICK d, p : d = Req(c).doc /\ p = Req(c).project OBVIOUS
  <2>1. call'[c] = [req |-> Req(c), pc |-> "insertAttachment", seen |-> Null] /\ raced' = raced
    BY <1>0, <1>3, <2>0, GotoShape DEF Inv
  <2>2. Req(c)' = Req(c) /\ call'[c].pc = "insertAttachment" /\ Req(c)'.doc = d /\ Req(c)'.project = p
    BY <2>0, <2>1 DEF Req, Seen
  <2>3. DocumentRequest(Req(c)) /\ Req(c).kind = "attach"
    BY <1>0 DEF Inv, CallInv, StepsInv, FolderSteps
  <2>4. Created(d)' /\ docs'[d].project \in {Null, p} BY <1>0, <1>3, <2>0 DEF Created, TablesUntouched
  <2>5. CallInv(c)'
    BY <1>3, <2>2, <2>3, <2>4
       DEF CallInv, StepsInv, FileInv, VersionInv, LinkInv, At, IsWriting, FolderSteps, WritingSteps
  <2> QED BY <1>0, <1>1, <1>3, <2>0, <2>5, GotoReads DEF WritingSteps
<1> QED BY <1>2, <1>3 DEF Attach

----------------------------------------------------------------------------
(* The steps that change a row of a document, or an attachment. *)

LEMMA AnswerKeeps ==
    ASSUME Inv, NEW c \in Calls, call[c].pc # "free", Answer(c), Leaves(c), TypeOK',
           TreeInv', DocsFiled', FilesInv', LinksInv'
    PROVE  Inv'
<1>1. /\ call'[c] = Free /\ raced' = raced /\ HandlersInv'
      /\ \A d \in Calls : d # c => call'[d] = call[d]
  BY AnswerShape DEF Inv
<1> QED BY <1>1, FreeCallInv, StepKeeps

\* A document that keeps its files, in a folder of its project.
LEMMA RowChanged ==
    ASSUME Inv, NEW c \in Calls, call[c].pc # "free", ~IsWriting(c), Answer(c),
           UNCHANGED <<folders, fileVars>>,
           NEW d \in Docs, Created(d), NEW row \in DocumentRows, docs' = [docs EXCEPT ![d] = row],
           row.version = docs[d].version, row.path = docs[d].path, Fits(row.folder, row.project),
           row.archived # docs[d].archived => <<"doc", d>> \in Req(c).on,
           row.project # docs[d].project =>
              /\ <<"links">> \in Req(c).on
              /\ <<"links">> \notin raced =>
                    \A a \in Attachments : attachments[a] # Null => attachments[a].doc # d
    PROVE  Inv'
<1> USE DEF fileVars
<1>1. /\ call'[c] = Free /\ raced' = raced /\ load' = load /\ HandlersInv'
      /\ \A e \in Calls : e # c => call'[e] = call[e]
  BY AnswerShape DEF Inv
<1>2. docs \in [Docs -> DocumentRows \cup {Null}] /\ row # Null BY DocumentsAssumption DEF Inv, TypeOK
<1>3. docs'[d] = row /\ (\A e \in Docs : e # d => docs'[e] = docs[e]) BY <1>2
<1>4. \A e \in Docs : Created(e)' <=> Created(e) BY <1>2, <1>3 DEF Created
<1>5. TypeOK' BY <1>1, <1>2 DEF Inv, TypeOK, FoldersTypeOK, HandlersInv
<1>6. TreeInv' BY SameTrees DEF Inv, TypeOK
<1>7. DocsFiled'
  <2> SUFFICES ASSUME NEW e \in Docs, Created(e) PROVE Fits(docs'[e].folder, docs'[e].project)
    BY <1>4 DEF DocsFiled, Fits, Exists
  <2> QED BY <1>3 DEF Inv, DocsFiled
<1>8. FilesInv'
  <2>1. \A e \in Calls : (IsWriting(e)' <=> IsWriting(e)) /\ (IsWriting(e) => Seen(e)'.path = Seen(e).path)
    BY <1>1, FreeCallInv DEF IsWriting, Seen
  <2>2. \A e \in Docs : Created(e) => docs'[e].version = docs[e].version /\ docs'[e].path = docs[e].path
    BY <1>3
  <2> QED BY <1>4, <2>1, <2>2, FilesUntouched DEF Inv
<1>9. LinksInv'
  <2>1. CASE row.project = docs[d].project
    <3>1. \A e \in Docs : Created(e) => Created(e)' /\ docs'[e].project = docs[e].project
      BY <1>3, <1>4, <2>1
    <3> QED BY <1>1, <3>1, LinksUntouched DEF Inv
  <2>2. CASE row.project # docs[d].project
    <3> SUFFICES ASSUME NEW a \in Attachments, attachments[a] # Null
                 PROVE  /\ Created(attachments[a].doc)'
                        /\ attachments[a].ref # Null =>
                              \E v \in versions : v.doc = attachments[a].doc /\ v.path = attachments[a].ref
                        /\ TargetAllowed(attachments[a])
                        /\ <<"links">> \notin raced =>
                              docs'[attachments[a].doc].project \in {Null, attachments[a].project}
      BY <1>1 DEF LinksInv, LinkedInProject
    <3>0. PICK e : e = attachments[a].doc OBVIOUS
    <3>1. Created(e) /\ e \in Docs BY <3>0 DEF Inv, LinksInv, Created
    <3>2. Created(e)' BY <1>4, <3>1
    <3>3. ASSUME <<"links">> \notin raced PROVE docs'[e].project \in {Null, attachments[a].project}
      <4>1. e # d BY <2>2, <3>0, <3>3
      <4> QED BY <1>3, <3>0, <3>1, <3>3, <4>1 DEF Inv, LinksInv, LinkedInProject
    <3> QED BY <3>0, <3>2, <3>3 DEF Inv, LinksInv
  <2> QED BY <2>1, <2>2
<1>10. Leaves(c)
  <2>1. \A e \in Docs : Created(e) =>
          /\ Created(e)' /\ docs'[e].version >= docs[e].version
          /\ <<"links">> \notin Req(c).on => docs'[e].project = docs[e].project
          /\ <<"doc", e>> \notin Req(c).on => docs'[e].archived = docs[e].archived
    <3>1. \A e \in Docs : Created(e) => docs[e].version \in Nat BY <1>2 DEF Created, DocumentRows
    <3> QED BY <1>3, <1>4, <3>1
  <2> QED BY <2>1 DEF Leaves
<1> QED BY <1>5, <1>6, <1>7, <1>8, <1>9, <1>10, AnswerKeeps

LEMMA OwnKeeps == ASSUME Inv, NEW c \in Calls, Own(c) PROVE Inv'
<1>0. call[c].pc = "own" /\ Answer(c) /\ UNCHANGED <<folders, fileVars>> BY DEF Own, At
<1>1. ~IsWriting(c) /\ StepsInv(c) /\ LinkInv(c) BY <1>0 DEF IsWriting, WritingSteps, Inv, CallInv
<1>2. CASE docs' = docs BY <1>0, <1>1, <1>2, AnswerReads DEF TablesUntouched
<1>3. CASE /\ Fits(docs[Req(c).doc].folder, Req(c).project)
           /\ docs' = [docs EXCEPT ![Req(c).doc].project = Req(c).project]
  <2>0. PICK d, p : d = Req(c).doc /\ p = Req(c).project OBVIOUS
  <2>1. d \in Docs /\ p \in Scopes /\ <<"links">> \in Req(c).on
    BY <1>0, <1>1, <2>0 DEF StepsInv, FolderSteps, DocumentRequest, Scopes
  <2>2. Created(d) BY <1>0, <1>1, <2>0 DEF LinkInv
  <2>3. <<"links">> \notin raced => \A a \in Attachments : attachments[a] # Null => attachments[a].doc # d
    BY <1>0, <1>1, <2>0 DEF LinkInv, At
  <2>4. docs[d] \in DocumentRows BY <2>1, <2>2 DEF Inv, TypeOK, Created
  <2> DEFINE row == [docs[d] EXCEPT !.project = p]
  <2>5. /\ row \in DocumentRows /\ row.version = docs[d].version /\ row.path = docs[d].path
        /\ row.folder = docs[d].folder /\ row.archived = docs[d].archived /\ row.project = p
    BY <2>1, <2>4 DEF DocumentRows
  <2>6. docs' = [docs EXCEPT ![d] = row] BY <1>3, <2>0
  <2>7. Fits(row.folder, row.project) BY <1>3, <2>0, <2>5
  <2> HIDE DEF row
  <2> QED BY <1>0, <1>1, <2>1, <2>2, <2>3, <2>5, <2>6, <2>7, RowChanged
<1> QED BY <1>2, <1>3 DEF Own

LEMMA ArchivedKeeps ==
    ASSUME Inv, NEW c \in Calls, Archive(c) \/ Restore(c)
    PROVE  Inv'
<1>0. PICK step \in {"archive", "restore"}, archived \in BOOLEAN : SetArchived(c, step, archived)
  BY DEF Archive, Restore
<1>1. call[c].pc \in {"archive", "restore"} /\ Answer(c) /\ UNCHANGED <<folders, fileVars>>
  BY <1>0 DEF SetArchived, At
<1>2. ~IsWriting(c) /\ StepsInv(c) BY <1>1 DEF IsWriting, WritingSteps, Inv, CallInv
<1>3. CASE docs' = docs BY <1>1, <1>2, <1>3, AnswerReads DEF TablesUntouched
<1>4. CASE Created(Req(c).doc) /\ docs' = [docs EXCEPT ![Req(c).doc].archived = archived]
  <2>0. PICK d : d = Req(c).doc OBVIOUS
  <2>1. d \in Docs /\ <<"doc", d>> \in Req(c).on
    BY <1>1, <1>2, <2>0 DEF StepsInv, FolderSteps, DocumentRequest
  <2>2. Created(d) BY <1>4, <2>0
  <2>3. docs[d] \in DocumentRows BY <2>1, <2>2 DEF Inv, TypeOK, Created
  <2> DEFINE row == [docs[d] EXCEPT !.archived = archived]
  <2>4. /\ row \in DocumentRows /\ row.version = docs[d].version /\ row.path = docs[d].path
        /\ row.folder = docs[d].folder /\ row.project = docs[d].project
    BY <2>1, <2>3 DEF DocumentRows
  <2>5. docs' = [docs EXCEPT ![d] = row] BY <1>4, <2>0
  <2>6. Fits(row.folder, row.project) BY <2>1, <2>2, <2>4 DEF Inv, DocsFiled
  <2> HIDE DEF row
  <2> QED BY <1>1, <1>2, <2>1, <2>2, <2>4, <2>5, <2>6, RowChanged
<1> QED BY <1>0, <1>3, <1>4 DEF SetArchived

LEMMA RefileKeeps == ASSUME Inv, NEW c \in Calls, Refile(c) PROVE Inv'
<1>0. call[c].pc = "refile" /\ Answer(c) /\ UNCHANGED <<folders, fileVars>> BY DEF Refile, At
<1>1. ~IsWriting(c) /\ StepsInv(c) /\ LinkInv(c) BY <1>0 DEF IsWriting, WritingSteps, Inv, CallInv
<1>2. CASE docs' = docs BY <1>0, <1>1, <1>2, AnswerReads DEF TablesUntouched
<1>3. CASE /\ Fits(Req(c).folder, docs[Req(c).doc].project)
           /\ docs' = [docs EXCEPT ![Req(c).doc].folder = Req(c).folder]
  <2>0. PICK d, f : d = Req(c).doc /\ f = Req(c).folder OBVIOUS
  <2>1. d \in Docs /\ f \in Folders \cup {Null}
    BY <1>0, <1>1, <2>0 DEF StepsInv, FolderSteps, DocumentRequest
  <2>2. Created(d) BY <1>0, <1>1, <2>0 DEF LinkInv
  <2>3. docs[d] \in DocumentRows BY <2>1, <2>2 DEF Inv, TypeOK, Created
  <2> DEFINE row == [docs[d] EXCEPT !.folder = f]
  <2>4. /\ row \in DocumentRows /\ row.version = docs[d].version /\ row.path = docs[d].path
        /\ row.folder = f /\ row.archived = docs[d].archived /\ row.project = docs[d].project
    BY <2>1, <2>3 DEF DocumentRows
  <2>5. docs' = [docs EXCEPT ![d] = row] BY <1>3, <2>0
  <2>6. Fits(row.folder, row.project) BY <1>3, <2>0, <2>4
  <2> HIDE DEF row
  <2> QED BY <1>0, <1>1, <2>1, <2>2, <2>4, <2>5, <2>6, RowChanged
<1> QED BY <1>2, <1>3 DEF Refile

\* An attachment is taken away, or one of a document of the right project is made.
LEMMA AttachmentChanged ==
    ASSUME Inv, NEW c \in Calls, call[c].pc # "free", ~IsWriting(c), Answer(c),
           UNCHANGED <<folders, docs, versions, blobs, mishaps>>,
           NEW a, NEW row \in AttachmentRows \cup {Null}, attachments' = [attachments EXCEPT ![a] = row],
           row # Null => /\ <<"links">> \in Req(c).on
                         /\ Created(row.doc)
                         /\ row.ref # Null => \E v \in versions : v.doc = row.doc /\ v.path = row.ref
                         /\ TargetAllowed(row)
                         /\ <<"links">> \notin raced => docs[row.doc].project \in {Null, row.project}
    PROVE  Inv'
<1>1. /\ call'[c] = Free /\ raced' = raced /\ load' = load /\ HandlersInv'
      /\ \A e \in Calls : e # c => call'[e] = call[e]
  BY AnswerShape DEF Inv
<1>2. attachments \in [Attachments -> AttachmentRows \cup {Null}] BY DEF Inv, TypeOK
<1>3. \A b \in Attachments : attachments'[b] = IF b = a THEN row ELSE attachments[b] BY <1>2
<1>4. \A e : Created(e)' <=> Created(e) BY DEF Created
<1>5. TypeOK' BY <1>1, <1>2 DEF Inv, TypeOK, FoldersTypeOK, HandlersInv
<1>6. TreeInv' /\ DocsFiled' BY SameTrees DEF Inv, TypeOK
<1>7. FilesInv'
  <2>1. \A e \in Calls : (IsWriting(e)' <=> IsWriting(e)) /\ (IsWriting(e) => Seen(e)'.path = Seen(e).path)
    BY <1>1, FreeCallInv DEF IsWriting, Seen
  <2> QED BY <1>4, <2>1, FilesUntouched DEF Inv
<1>8. LinksInv'
  <2> SUFFICES ASSUME NEW b \in Attachments, attachments'[b] # Null
               PROVE  /\ Created(attachments'[b].doc)
                      /\ attachments'[b].ref # Null =>
                            \E v \in versions : v.doc = attachments'[b].doc /\ v.path = attachments'[b].ref
                      /\ TargetAllowed(attachments'[b])
                      /\ <<"links">> \notin raced =>
                            docs[attachments'[b].doc].project \in {Null, attachments'[b].project}
    BY <1>1 DEF LinksInv, LinkedInProject, Created
  <2>1. CASE b = a BY <1>3, <2>1
  <2>2. CASE b # a BY <1>3, <2>2 DEF Inv, LinksInv, LinkedInProject
  <2> QED BY <2>1, <2>2
<1>9. Leaves(c)
  <2>1. \A e \in Docs : Created(e) => docs[e].version \in Nat BY DEF Inv, TypeOK, Created, DocumentRows
  <2>2. <<"links">> \notin Req(c).on => \A b \in Attachments : attachments'[b] \in {Null, attachments[b]}
    BY <1>3
  <2> QED BY <1>4, <2>1, <2>2 DEF Leaves
<1> QED BY <1>5, <1>6, <1>7, <1>8, <1>9, AnswerKeeps

LEMMA InsertAttachmentKeeps == ASSUME Inv, NEW c \in Calls, InsertAttachment(c) PROVE Inv'
<1>0. call[c].pc = "insertAttachment" /\ Answer(c) /\ UNCHANGED <<folders, docs, versions, blobs, mishaps>>
  BY DEF InsertAttachment, At
<1>1. ~IsWriting(c) /\ StepsInv(c) /\ LinkInv(c) BY <1>0 DEF IsWriting, WritingSteps, Inv, CallInv
<1>2. PICK q : q = Req(c) OBVIOUS
<1>3. PICK row : row = Linked(q.doc, Null, q) OBVIOUS
<1>4. PICK a \in Attachments : attachments' = [attachments EXCEPT ![a] = row]
  BY <1>2, <1>3 DEF InsertAttachment
<1>5. /\ q.doc \in Docs /\ q.project \in Scopes /\ q.target \in Scopes /\ q.checked \in BOOLEAN
      /\ <<"links">> \in q.on /\ TargetAllowed(q)
  BY <1>0, <1>1, <1>2 DEF StepsInv, FolderSteps, DocumentRequest, LinkRequest, Scopes
<1>6. row \in AttachmentRows /\ row.doc = q.doc /\ row.ref = Null /\ row.project = q.project /\ TargetAllowed(row)
  BY <1>3, <1>5 DEF AttachmentRows, Linked, TargetAllowed
<1>7. Created(q.doc) /\ (<<"links">> \notin raced => docs[q.doc].project \in {Null, q.project})
  BY <1>0, <1>1, <1>2 DEF LinkInv, At
<1> QED BY <1>0, <1>1, <1>2, <1>4, <1>5, <1>6, <1>7, AttachmentChanged

LEMMA DetachKeeps == ASSUME Inv, NEW c \in Calls, Detach(c) PROVE Inv'
<1>0. /\ call[c].pc = "detach" /\ Answer(c) /\ UNCHANGED <<folders, docs, versions, blobs, mishaps>>
      /\ attachments' = [attachments EXCEPT ![Req(c).attachment] = Null]
  BY DEF Detach, At
<1>1. ~IsWriting(c) BY <1>0 DEF IsWriting, WritingSteps
<1> QED BY <1>0, <1>1, AttachmentChanged

LEMMA LinkKeeps == ASSUME Inv, NEW c \in Calls, Link(c) PROVE Inv'
<1>0. call[c].pc = "link" /\ Answer(c) /\ UNCHANGED <<folders, docs, versions, blobs, mishaps>>
  BY DEF Link, At
<1>1. ~IsWriting(c) /\ StepsInv(c) /\ LinkInv(c) BY <1>0 DEF IsWriting, WritingSteps, Inv, CallInv
<1>2. CASE attachments' = attachments
  BY <1>0, <1>1, <1>2, AnswerReads DEF TablesUntouched, fileVars
<1>3. CASE attachments' # attachments
  <2>1. PICK d, r, q : d = Seen(c).doc /\ r = Seen(c).path /\ q = Req(c) OBVIOUS
  <2>2. PICK row : row = Linked(d, r, q) OBVIOUS
  <2>3. PICK a \in Attachments : attachments' = [attachments EXCEPT ![a] = row]
    BY <1>3, <2>1, <2>2 DEF Link
  <2>4. /\ Created(d) /\ \E v \in versions : v.doc = d /\ v.path = r
        /\ <<"links">> \notin raced => docs[d].project = q.project
        /\ q.link
    BY <1>0, <1>1, <2>1 DEF LinkInv, At
  <2>5. /\ q.project \in Scopes /\ q.target \in Scopes /\ q.checked \in BOOLEAN /\ <<"links">> \in q.on
        /\ TargetAllowed(q)
    BY <1>0, <1>1, <2>1, <2>4 DEF StepsInv, FolderSteps, DocumentRequest, LinkRequest
  <2>6. d \in Docs /\ r \in 1..MaxBlobs
    <3>1. \A v \in versions : v.path \in DOMAIN blobs /\ Len(blobs) <= MaxBlobs /\ blobs \in Seq(BOOLEAN)
      BY DEF Inv, TypeOK
    <3> QED BY <2>4, <3>1, DocumentsAssumption DEF Created
  <2>7. row \in AttachmentRows /\ row.doc = d /\ row.ref = r /\ row.project = q.project /\ TargetAllowed(row)
    BY <2>2, <2>5, <2>6 DEF AttachmentRows, Linked, TargetAllowed
  <2> QED BY <1>0, <1>1, <2>1, <2>3, <2>4, <2>5, <2>7, AttachmentChanged
<1> QED BY <1>2, <1>3

----------------------------------------------------------------------------
(* The steps about files. *)

LEMMA FoldersStepKeeps ==
    ASSUME Inv, NEW c \in Calls, FoldersStep(c), UNCHANGED fileVars
    PROVE  Inv'
<1> USE DEF fileVars
<1>0. call[c].pc \in FolderSteps /\ Answer(c) /\ docs' = docs
  BY DEF FoldersStep, CreateFolder, RenameFolder, MoveFolder, DeleteFolder, At, FolderSteps
<1>1. ~IsWriting(c) /\ FolderRequest(Req(c)) /\ call[c].pc # "free"
  BY <1>0 DEF IsWriting, WritingSteps, Inv, CallInv, StepsInv, FolderSteps
<1>2. FoldersTypeOK /\ TreeInv /\ DocsFiled /\ DOMAIN docs = Docs BY DEF Inv, TypeOK
<1>3. FoldersTypeOK' /\ TreeInv' /\ DocsFiled'
  BY <1>1, <1>2, CreateFolderKeepsTrees, RenameFolderKeepsTrees, MoveFolderKeepsTrees, DeleteFolderKeepsTrees
     DEF FoldersStep
<1>4. /\ call'[c] = Free /\ raced' = raced /\ load' = load /\ HandlersInv'
      /\ \A e \in Calls : e # c => call'[e] = call[e]
  BY <1>0, AnswerShape DEF Inv
<1>5. TypeOK' BY <1>0, <1>3, <1>4 DEF Inv, TypeOK, HandlersInv
<1>6. \A e : Created(e)' <=> Created(e) BY <1>0 DEF Created
<1>7. FilesInv'
  <2>1. \A e \in Calls : (IsWriting(e)' <=> IsWriting(e)) /\ (IsWriting(e) => Seen(e)'.path = Seen(e).path)
    BY <1>1, <1>4, FreeCallInv DEF IsWriting, Seen
  <2> QED BY <1>0, <1>6, <2>1, FilesUntouched DEF Inv
<1>8. LinksInv' BY <1>0, <1>4, <1>6, LinksUntouched DEF Inv
<1>9. Leaves(c)
  <2>1. \A e \in Docs : Created(e) => docs[e].version \in Nat BY DEF Inv, TypeOK, Created, DocumentRows
  <2> QED BY <1>0, <1>6, <2>1 DEF Leaves
<1> QED BY <1>0, <1>1, <1>3, <1>5, <1>7, <1>8, <1>9, AnswerKeeps

\* A file more, and the files that were there are as they were.
LEMMA FileAppended ==
    ASSUME TypeOK, blobs' = Append(blobs, TRUE), Len(blobs) < MaxBlobs, NEW p, p = Len(blobs) + 1
    PROVE  /\ blobs' \in Seq(BOOLEAN) /\ Len(blobs') = p /\ blobs'[p] = TRUE /\ p \in Nat \ {0} /\ p <= MaxBlobs
           /\ DOMAIN blobs = 1..(p - 1) /\ DOMAIN blobs' = 1..p
           /\ \A b \in DOMAIN blobs : blobs'[b] = blobs[b]
<1>0. blobs \in Seq(BOOLEAN) /\ Len(blobs) \in Nat /\ DOMAIN blobs = 1..Len(blobs) BY DEF TypeOK
<1>1. /\ Append(blobs, TRUE) \in Seq(BOOLEAN) /\ Len(Append(blobs, TRUE)) = Len(blobs) + 1
      /\ Append(blobs, TRUE)[Len(blobs) + 1] = TRUE
      /\ \A b \in 1..Len(blobs) : Append(blobs, TRUE)[b] = blobs[b]
  BY <1>0
<1>2. blobs' \in Seq(BOOLEAN) /\ Len(blobs') = p /\ blobs'[p] = TRUE
      /\ \A b \in DOMAIN blobs : blobs'[b] = blobs[b]
  BY <1>0, <1>1
<1>3. p \in Nat \ {0} /\ p <= MaxBlobs /\ DOMAIN blobs = 1..(p - 1)
  BY <1>0, DocumentsAssumption
<1>4. DOMAIN blobs' = 1..p BY <1>2
<1> QED BY <1>2, <1>3, <1>4

\* The new file is that of the handler that stored it, or it is left to nobody.
LEMMA FileStored ==
    ASSUME Inv, NEW c \in Calls, call[c].pc = "store", Len(blobs) < MaxBlobs, blobs' = Append(blobs, TRUE),
           UNCHANGED <<folders, docs, versions, attachments>>, NEW p, p = Len(blobs) + 1,
           raced' = raced, load' = load, HandlersInv', \A e \in Calls : e # c => call'[e] = call[e], CallInv(c)',
           \/ IsWriting(c)' /\ Seen(c)'.path = p /\ mishaps' = mishaps
           \/ ~IsWriting(c)' /\ mishaps' = mishaps \cup {p}
    PROVE  Inv'
<1>1. ~IsWriting(c) /\ TypeOK BY DEF IsWriting, WritingSteps, Inv
<1>2. /\ blobs' \in Seq(BOOLEAN) /\ Len(blobs') = p /\ blobs'[p] = TRUE /\ p \in Nat \ {0} /\ p <= MaxBlobs
      /\ DOMAIN blobs = 1..(p - 1) /\ DOMAIN blobs' = 1..p
      /\ \A b \in DOMAIN blobs : blobs'[b] = blobs[b]
  BY <1>1, FileAppended
<1>3. \A e : Created(e)' <=> Created(e) BY DEF Created
<1>4. TypeOK'
  <2>1. versions' \subseteq [doc: Docs, n: 1..MaxBlobs, path: DOMAIN blobs', content: Contents]
    BY <1>1, <1>2 DEF TypeOK
  <2>2. mishaps' \subseteq DOMAIN blobs' BY <1>1, <1>2 DEF TypeOK
  <2> QED BY <1>1, <1>2, <2>1, <2>2 DEF TypeOK, FoldersTypeOK, HandlersInv
<1>5. TreeInv' /\ DocsFiled' BY SameTrees DEF Inv, TypeOK
<1>6. \A e \in Calls : e # c => /\ IsWriting(e)' <=> IsWriting(e)
                                /\ Seen(e)' = Seen(e)
                                /\ IsWriting(e) => Seen(e).path \in DOMAIN blobs
  BY DEF IsWriting, Seen, Inv, CallInv, FileInv
<1>7. FilesInv'
  <2>1. \A e \in Docs : VersionsOf(e)' = VersionsOf(e) BY DEF VersionsOf
  <2>2. \A e, f \in Calls : e # f /\ IsWriting(e)' /\ IsWriting(f)' => Seen(e)'.path # Seen(f)'.path
    <3> SUFFICES ASSUME NEW e \in Calls, NEW f \in Calls, e # f, IsWriting(e)', IsWriting(f)'
                 PROVE  Seen(e)'.path # Seen(f)'.path
      OBVIOUS
    <3>1. CASE e # c /\ f # c BY <1>6, <3>1 DEF Inv, FilesInv
    <3>2. CASE e = c
      <4>1. Seen(e)'.path = p BY <3>2
      <4>2. Seen(f)'.path \in 1..(p - 1) BY <1>2, <1>6, <3>2
      <4> QED BY <1>2, <4>1, <4>2
    <3>3. CASE f = c
      <4>1. Seen(f)'.path = p BY <3>3
      <4>2. Seen(e)'.path \in 1..(p - 1) BY <1>2, <1>6, <3>3
      <4> QED BY <1>2, <4>1, <4>2
    <3> QED BY <3>1, <3>2, <3>3
  <2>3. \A b \in DOMAIN blobs' \ (mishaps' \cup Writing') : blobs'[b] <=> Referenced(b)'
    <3> SUFFICES ASSUME NEW b \in DOMAIN blobs', b \notin mishaps', b \notin Writing' PROVE blobs'[b] <=> Referenced(b)'
      OBVIOUS
    <3>1. b # p /\ b \notin mishaps BY DEF Writing, IsWriting, WritingSteps
    <3>2. b \in DOMAIN blobs BY <1>2, <3>1
    <3>3. b \notin Writing
      BY <1>1, <1>6 DEF Writing, IsWriting, WritingSteps
    <3>4. blobs[b] <=> Referenced(b) BY <3>1, <3>2, <3>3 DEF Inv, FilesInv, VersionsMatchFiles
    <3>5. Referenced(b)' <=> Referenced(b) BY DEF Referenced
    <3> QED BY <1>2, <3>2, <3>4, <3>5
  <2>4. VersionsMatchFiles' BY <1>3, <2>1, <2>3 DEF Inv, FilesInv, VersionsMatchFiles
  <2> QED BY <1>3, <2>2, <2>4 DEF Inv, FilesInv
<1>8. LinksInv' BY <1>3, LinksUntouched DEF Inv
<1>9. Leaves(c)
  <2>1. \A e \in Docs : Created(e) => docs[e].version \in Nat BY <1>1 DEF TypeOK, Created, DocumentRows
  <2>2. DOMAIN blobs \subseteq DOMAIN blobs' BY <1>2
  <2>3. \A e \in Docs : Created(e) => Created(e)' /\ docs'[e] = docs[e] /\ docs'[e].version >= docs[e].version
    BY <1>3, <2>1
  <2>4. \A b \in DOMAIN blobs : blobs'[b] = blobs[b] BY <1>2
  <2> QED BY <2>2, <2>3, <2>4 DEF Leaves
<1> QED BY <1>3, <1>4, <1>5, <1>7, <1>8, <1>9, StepKeeps

LEMMA StoreKeeps == ASSUME Inv, NEW c \in Calls, Store(c) PROVE Inv'
<1> DEFINE step == IF Seen(c).doc = Null THEN "insert" ELSE "number"
           seen == [doc |-> Seen(c).doc, path |-> Len(blobs) + 1]
<1>0. /\ call[c].pc = "store" /\ Len(blobs) < MaxBlobs /\ blobs' = Append(blobs, TRUE)
      /\ UNCHANGED <<folders, docs, versions, attachments>>
  BY DEF Store, At
<1>1. ~IsWriting(c) /\ StepsInv(c) /\ FileInv(c) /\ VersionInv(c) /\ TypeOK
  BY <1>0 DEF IsWriting, WritingSteps, Inv, CallInv
<1>2. PICK p, d : p = Len(blobs) + 1 /\ d = Seen(c).doc OBVIOUS
<1>3. CASE Goto(c, step, seen) /\ mishaps' = mishaps
  <2>0. step \in {"insert", "number"} /\ (step = "insert" <=> d = Null) BY <1>2
  <2>1. seen.doc = d /\ seen.path = p BY <1>2
  <2> HIDE DEF step, seen
  <2>2. /\ call'[c] = [req |-> Req(c), pc |-> step, seen |-> seen] /\ raced' = raced /\ load' = load /\ HandlersInv'
        /\ \A e \in Calls : e # c => call'[e] = call[e]
    BY <1>0, <1>3, <2>0, GotoShape DEF Inv
  <2>3. Req(c)' = Req(c) /\ Seen(c)' = seen /\ call'[c].pc = step /\ IsWriting(c)'
    BY <2>0, <2>2 DEF Req, Seen, IsWriting, WritingSteps
  <2>4. /\ p \in DOMAIN blobs' /\ blobs'[p] = TRUE /\ \A v \in versions : v.path # p
    <3>1. p \in Nat \ {0} /\ DOMAIN blobs = 1..(p - 1) /\ DOMAIN blobs' = 1..p /\ blobs'[p] = TRUE
      BY <1>0, <1>1, <1>2, FileAppended
    <3>2. \A v \in versions : v.path \in DOMAIN blobs BY <1>1 DEF TypeOK
    <3> QED BY <3>1, <3>2
  <2>5. \A e : Created(e)' <=> Created(e) BY <1>0 DEF Created
  <2>6. CallInv(c)'
    <3>1. DocumentRequest(Req(c)) /\ Req(c).kind \in {"upload", "addVersion"}
      BY <1>0, <1>1 DEF StepsInv, FolderSteps
    <3>2. (Req(c).kind = "upload" => d = Null)
          /\ (Req(c).kind = "addVersion" => /\ d = Req(c).doc /\ Created(d)
                                            /\ <<"doc", d>> \notin raced => ~docs[d].archived)
      BY <1>0, <1>1, <1>2 DEF FileInv, VersionInv, At
    <3>3. d = Null <=> Req(c).kind = "upload" BY <3>1, <3>2, DocumentsAssumption DEF Created
    <3>4. StepsInv(c)'
      BY <1>0, <1>1, <2>0, <2>3, <3>1, <3>3 DEF StepsInv, FolderSteps, WritingSteps
    <3>5. ~Referenced(p)' BY <1>0, <2>4 DEF Referenced
    <3>6. FileInv(c)' BY <2>0, <2>1, <2>3, <2>4, <3>5 DEF FileInv, At
    <3>7. VersionInv(c)'
      <4>1. CASE step = "insert" BY <2>3, <4>1 DEF VersionInv, At
      <4>2. CASE step = "number"
        <5>1. d = Req(c).doc /\ Created(d)' /\ (<<"doc", d>> \notin raced' => ~docs'[d].archived)
          BY <1>0, <2>0, <2>2, <2>5, <3>1, <3>2, <3>3, <4>2
        <5> QED BY <2>1, <2>3, <4>2, <5>1 DEF VersionInv, At
      <4> QED BY <2>0, <4>1, <4>2
    <3>8. LinkInv(c)' BY <2>0, <2>3 DEF LinkInv, At
    <3> QED BY <3>4, <3>6, <3>7, <3>8 DEF CallInv
  <2> QED BY <1>0, <1>2, <1>3, <2>1, <2>2, <2>3, <2>6, FileStored
<1>4. CASE Answer(c) /\ mishaps' = mishaps \cup {p}
  <2>1. /\ call'[c] = Free /\ raced' = raced /\ load' = load /\ HandlersInv'
        /\ \A e \in Calls : e # c => call'[e] = call[e]
    BY <1>0, <1>4, AnswerShape DEF Inv
  <2> QED BY <1>0, <1>2, <1>4, <2>1, FreeCallInv, FileStored
<1> QED BY <1>2, <1>3, <1>4 DEF Store

\* The handler stops writing: the file is removed, or left to nobody.
LEMMA WritingEnds ==
    ASSUME Inv, NEW c \in Calls, IsWriting(c), Answer(c), UNCHANGED <<folders, docs, versions, attachments>>,
           \/ At(c, "cleanup") /\ blobs' = [blobs EXCEPT ![Seen(c).path] = FALSE] /\ mishaps' = mishaps
           \/ blobs' = blobs /\ mishaps' = mishaps \cup {Seen(c).path}
    PROVE  Inv'
<1>1. PICK p : p = Seen(c).path OBVIOUS
<1>2. call[c].pc # "free" /\ TypeOK /\ FileInv(c) BY DEF IsWriting, WritingSteps, Inv, CallInv
<1>3. p \in DOMAIN blobs /\ (At(c, "cleanup") /\ Referenced(p) => p \in mishaps) BY <1>1, <1>2 DEF FileInv
<1>4. /\ call'[c] = Free /\ raced' = raced /\ load' = load /\ HandlersInv'
      /\ \A e \in Calls : e # c => call'[e] = call[e]
  BY AnswerShape DEF Inv
<1>5. /\ blobs' \in Seq(BOOLEAN) /\ Len(blobs') = Len(blobs) /\ DOMAIN blobs' = DOMAIN blobs
      /\ \A b \in DOMAIN blobs : b # p => blobs'[b] = blobs[b]
      /\ mishaps \subseteq mishaps' /\ mishaps' \subseteq DOMAIN blobs
      /\ p \notin mishaps' => At(c, "cleanup") /\ blobs'[p] = FALSE /\ mishaps' = mishaps
  <2>0. blobs \in Seq(BOOLEAN) /\ mishaps \subseteq DOMAIN blobs BY <1>2 DEF TypeOK
  <2>1. CASE At(c, "cleanup") /\ blobs' = [blobs EXCEPT ![p] = FALSE] /\ mishaps' = mishaps
    <3>0. p \in 1..Len(blobs) BY <1>3, <2>0
    <3>1. blobs' \in Seq(BOOLEAN) /\ Len(blobs') = Len(blobs) BY <2>0, <2>1, <3>0, ExceptSeq
    <3>2. DOMAIN blobs' = DOMAIN blobs /\ (\A b \in DOMAIN blobs : b # p => blobs'[b] = blobs[b])
          /\ blobs'[p] = FALSE
      BY <1>3, <2>1
    <3> QED BY <2>0, <2>1, <3>1, <3>2
  <2>2. CASE blobs' = blobs /\ mishaps' = mishaps \cup {p}
    BY <1>3, <2>0, <2>2
  <2> QED BY <1>1, <2>1, <2>2
<1>6. TypeOK' BY <1>2, <1>4, <1>5 DEF TypeOK, FoldersTypeOK, HandlersInv
<1>7. TreeInv' /\ DocsFiled' BY SameTrees DEF Inv, TypeOK
<1>8. \A e : Created(e)' <=> Created(e) BY DEF Created
<1>9. \A e \in Calls : /\ e # c => (IsWriting(e)' <=> IsWriting(e)) /\ Seen(e)' = Seen(e)
                       /\ ~IsWriting(c)'
  BY <1>4, FreeCallInv DEF IsWriting, Seen
<1>10. FilesInv'
  <2>1. \A e \in Docs : VersionsOf(e)' = VersionsOf(e) BY DEF VersionsOf
  <2>2. \A b \in DOMAIN blobs' \ (mishaps' \cup Writing') : blobs'[b] <=> Referenced(b)'
    <3> SUFFICES ASSUME NEW b \in DOMAIN blobs, b \notin mishaps', b \notin Writing' PROVE blobs'[b] <=> Referenced(b)'
      BY <1>5
    <3>1. Referenced(b)' <=> Referenced(b) BY DEF Referenced
    <3>2. CASE b = p BY <1>3, <1>5, <3>1, <3>2
    <3>3. CASE b # p
      <4>1. b \notin Writing BY <1>1, <1>9, <3>3 DEF Writing, IsWriting, WritingSteps
      <4> QED BY <1>5, <3>1, <3>3, <4>1 DEF Inv, FilesInv, VersionsMatchFiles
    <3> QED BY <3>2, <3>3
  <2>3. VersionsMatchFiles' BY <1>8, <2>1, <2>2 DEF Inv, FilesInv, VersionsMatchFiles
  <2> QED BY <1>8, <1>9, <2>3 DEF Inv, FilesInv
<1>11. LinksInv' BY <1>4, <1>8, LinksUntouched DEF Inv
<1>12. Leaves(c)
  <2>1. \A e \in Docs : Created(e) => docs[e].version \in Nat BY <1>2 DEF TypeOK, Created, DocumentRows
  <2> QED BY <1>1, <1>5, <1>8, <2>1 DEF Leaves
<1> QED BY <1>2, <1>6, <1>7, <1>10, <1>11, <1>12, AnswerKeeps

LEMMA CleanUpKeeps == ASSUME Inv, NEW c \in Calls, CleanUp(c) PROVE Inv'
<1>1. IsWriting(c) BY DEF CleanUp, At, IsWriting, WritingSteps
<1> QED BY <1>1, WritingEnds DEF CleanUp

LEMMA DropKeeps == ASSUME Inv, NEW c \in Calls, DropDocument(c) PROVE Inv'
<1>0. /\ call[c].pc # "free" /\ Answer(c) /\ UNCHANGED <<folders, docs, versions, attachments, blobs>>
      /\ mishaps' = IF IsWriting(c) THEN mishaps \cup {Seen(c).path} ELSE mishaps
  BY DEF DropDocument, Drop, InFlight, IsWriting, WritingSteps, At
<1>1. CASE IsWriting(c) BY <1>0, <1>1, WritingEnds
<1>2. CASE ~IsWriting(c) BY <1>0, <1>2, AnswerReads DEF TablesUntouched, fileVars
<1> QED BY <1>1, <1>2

----------------------------------------------------------------------------
(* The steps that write a version. *)

\* No document has more versions than there are files.
LEMMA VersionsFit ==
    ASSUME NEW V, NEW n \in Nat, IsFiniteSet(V), \A v \in V : v.path \in 1..n,
           \A u, v \in V : u.path = v.path => u = v
    PROVE  Cardinality(V) <= n
<1> SUFFICES ASSUME ~(Cardinality(V) <= n) PROVE FALSE OBVIOUS
<1>0. PICK T : T = 1..n OBVIOUS
<1>1. IsFiniteSet(T) /\ Cardinality(T) = n BY <1>0, FS_Interval
<1>2. Cardinality(V) \in Nat BY FS_CardinalityType
<1>3. Cardinality(T) < Cardinality(V) BY <1>1, <1>2
<1>4. PICK f \in [V -> T] : \A v \in V : f[v] = v.path
  <2>1. [v \in V |-> v.path] \in [V -> T] BY <1>0
  <2> QED BY <2>1
<1>5. \E x, y \in V : x # y /\ f[x] = f[y] BY ONLY <1>1, <1>3, f \in [V -> T], IsFiniteSet(V), FS_PigeonHole
<1> QED BY <1>4, <1>5

\* The row d of documents gets the number n, and n is that of a new version with the file p.
Writes(c, d, n, p, v, row) ==
    /\ IsWriting(c) /\ p = Seen(c).path /\ ~Referenced(p)
    /\ d \in Docs /\ n \in Nat \ {0}
    /\ v = [doc |-> d, n |-> n, path |-> p, content |-> Req(c).content] /\ v.content \in Contents
    /\ IF Created(d) THEN n = docs[d].version + 1 /\ row.project = docs[d].project
                          /\ row.folder = docs[d].folder /\ row.archived = docs[d].archived
       ELSE n = 1
    /\ row = [project |-> row.project, folder |-> row.folder, archived |-> row.archived, version |-> n, path |-> p]
    /\ row.project \in Scopes /\ row.folder \in Folders \cup {Null} /\ row.archived \in BOOLEAN
    /\ Fits(row.folder, row.project)
    /\ docs' = [docs EXCEPT ![d] = row]
    /\ versions' = versions \cup {v}
    /\ UNCHANGED <<folders, attachments, blobs>>

LEMMA VersionWritten ==
    ASSUME Inv, NEW c \in Calls, NEW d, NEW n, NEW p, NEW v, NEW row, Writes(c, d, n, p, v, row),
           HandlersInv', raced' = raced, load' = load, \A e \in Calls : e # c => call'[e] = call[e],
           \/ ~IsWriting(c)' /\ mishaps' = mishaps
           \/ IsWriting(c)' /\ Seen(c)'.path = p /\ mishaps' = mishaps \cup {p},
           CallInv(c)'
    PROVE  Inv'
<1> USE DEF Writes
<1>0. call[c].pc # "free" /\ TypeOK /\ FileInv(c) /\ FilesInv /\ DocsFiled /\ LinksInv
  BY DEF IsWriting, WritingSteps, Inv, CallInv
<1>1. /\ p \in DOMAIN blobs /\ blobs[p] /\ DOMAIN blobs = 1..Len(blobs) /\ Len(blobs) \in Nat
      /\ blobs \in Seq(BOOLEAN) /\ Len(blobs) <= MaxBlobs /\ mishaps \subseteq DOMAIN blobs
  BY <1>0 DEF FileInv, TypeOK
<1>2. v.doc = d /\ v.n = n /\ v.path = p OBVIOUS
<1>3. \A u \in versions : u.path # p /\ Created(u.doc) /\ u.path \in DOMAIN blobs
  BY <1>0 DEF Referenced, FilesInv, TypeOK
<1>4. v \notin versions BY <1>2, <1>3
<1>5. IsFiniteSet(versions') /\ \A u, w \in versions' : u.path = w.path => u = w
  BY <1>0, <1>2, <1>3, FS_AddElement DEF FilesInv
<1>6. \A e \in Docs : e # d => VersionsOf(e)' = VersionsOf(e) BY <1>2 DEF VersionsOf
<1>7. VersionsOf(d)' = VersionsOf(d) \cup {v} /\ v \notin VersionsOf(d) BY <1>2, <1>4 DEF VersionsOf
<1>8. IsFiniteSet(VersionsOf(d)) /\ IsFiniteSet(VersionsOf(d)')
  BY <1>0, <1>5, FS_Subset DEF VersionsOf, FilesInv
<1>9. /\ Cardinality(VersionsOf(d)) = n - 1 /\ {u.n : u \in VersionsOf(d)} = 1..(n - 1)
  <2>1. CASE Created(d)
    <3>1. docs[d].version \in Nat BY <1>0, <2>1 DEF TypeOK, Created, DocumentRows
    <3> QED BY <1>0, <2>1, <3>1 DEF FilesInv, VersionsMatchFiles
  <2>2. CASE ~Created(d)
    <3>1. VersionsOf(d) = {} BY <1>3, <2>2 DEF VersionsOf
    <3>2. {u.n : u \in VersionsOf(d)} = {} BY <3>1
    <3>3. n = 1 /\ 1..(n - 1) = {} BY <2>2
    <3> QED BY <3>1, <3>2, <3>3, FS_EmptySet
  <2> QED BY <2>1, <2>2
<1>10. Cardinality(VersionsOf(d)') = n
  <2>1. PICK W : W = VersionsOf(d) OBVIOUS
  <2>2. PICK U : U = VersionsOf(d)' OBVIOUS
  <2>3. IsFiniteSet(W) /\ v \notin W /\ U = W \cup {v} /\ Cardinality(W) = n - 1
    BY <1>7, <1>8, <1>9, <2>1, <2>2
  <2>4. Cardinality(U) = Cardinality(W) + 1 BY <2>3, FS_AddElement
  <2>5. Cardinality(U) = n BY <2>3, <2>4
  <2> QED BY <2>2, <2>5
<1>11. {u.n : u \in VersionsOf(d)'} = 1..n
  <2>1. {u.n : u \in VersionsOf(d)'} = {u.n : u \in VersionsOf(d)} \cup {n} BY <1>2, <1>7
  <2>2. 1..(n - 1) \cup {n} = 1..n OBVIOUS
  <2> QED BY <1>9, <2>1, <2>2
<1>12. n <= MaxBlobs
  <2>1. \A u \in VersionsOf(d)' : u.path \in 1..Len(blobs) BY <1>1, <1>2, <1>3, <1>7 DEF VersionsOf
  <2>2. \A u, w \in VersionsOf(d)' : u.path = w.path => u = w BY <1>5 DEF VersionsOf
  <2>3. Cardinality(VersionsOf(d)') <= Len(blobs) BY <1>1, <1>8, <2>1, <2>2, VersionsFit
  <2> QED BY <1>1, <1>10, <2>3, DocumentsAssumption
<1>13. n \in 1..MaxBlobs /\ p \in 1..MaxBlobs BY <1>1, <1>12, DocumentsAssumption
<1>14. row \in DocumentRows /\ row.version = n /\ row.path = p BY <1>13 DEF DocumentRows
<1>15. row # Null BY <1>14, DocumentsAssumption
<1>16. docs'[d] = row /\ (\A e \in Docs : e # d => docs'[e] = docs[e]) BY <1>0 DEF TypeOK
<1>17. \A e \in Docs : Created(e)' <=> Created(e) \/ e = d BY <1>15, <1>16 DEF Created
<1>18. TypeOK'
  <2>1. docs' \in [Docs -> DocumentRows \cup {Null}] BY <1>0, <1>14 DEF TypeOK
  <2>2. versions' \subseteq [doc: Docs, n: 1..MaxBlobs, path: DOMAIN blobs, content: Contents]
    BY <1>0, <1>1, <1>13 DEF TypeOK
  <2>3. mishaps' \subseteq DOMAIN blobs BY <1>1
  <2> QED BY <1>0, <2>1, <2>2, <2>3 DEF TypeOK, FoldersTypeOK, HandlersInv
<1>19. TreeInv' BY SameTrees DEF Inv, TypeOK
<1>20. DocsFiled'
  <2> SUFFICES ASSUME NEW e \in Docs, Created(e)' PROVE Fits(docs'[e].folder, docs'[e].project)
    BY DEF DocsFiled, Fits, Exists
  <2>1. CASE e = d BY <1>16, <2>1
  <2>2. CASE e # d BY <1>0, <1>16, <1>17, <2>2 DEF DocsFiled
  <2> QED BY <2>1, <2>2
<1>21. \A e \in Calls : e # c => (IsWriting(e)' <=> IsWriting(e)) /\ Seen(e)' = Seen(e)
  BY DEF IsWriting, Seen
<1>22. VersionsMatchFiles'
  <2>1. ASSUME NEW e \in Docs, Created(e)'
        PROVE  /\ {u.n : u \in VersionsOf(e)'} = 1..docs'[e].version
               /\ Cardinality(VersionsOf(e)') = docs'[e].version
               /\ \E u \in VersionsOf(e)' : u.n = docs'[e].version /\ u.path = docs'[e].path
    <3>1. CASE e = d BY <1>2, <1>7, <1>10, <1>11, <1>14, <1>16, <3>1
    <3>2. CASE e # d
      <4>1. Created(e) /\ docs'[e] = docs[e] /\ VersionsOf(e)' = VersionsOf(e) BY <1>6, <1>16, <1>17, <2>1, <3>2
      <4> QED BY <1>0, <4>1 DEF FilesInv, VersionsMatchFiles
    <3> QED BY <3>1, <3>2
  <2>2. ASSUME NEW b \in DOMAIN blobs, b \notin mishaps', b \notin Writing'
        PROVE  blobs[b] <=> Referenced(b)'
    <3>1. Referenced(b)' <=> Referenced(b) \/ b = p BY <1>2 DEF Referenced
    <3>2. CASE b = p BY <1>1, <3>1, <3>2
    <3>3. CASE b # p
      <4>1. b \notin Writing BY <1>21, <2>2, <3>3 DEF Writing, IsWriting, WritingSteps
      <4>2. b \notin mishaps BY <2>2
      <4> QED BY <1>0, <3>1, <3>3, <4>1, <4>2 DEF FilesInv, VersionsMatchFiles
    <3> QED BY <3>2, <3>3
  <2> QED BY <2>1, <2>2 DEF VersionsMatchFiles
<1>23. FilesInv'
  <2>1. \A u \in versions' : Created(u.doc)'
    <3>1. \A u \in versions : u.doc \in Docs BY <1>3 DEF Created
    <3> QED BY <1>2, <1>3, <1>17, <3>1
  <2>2. \A e, f \in Calls : e # f /\ IsWriting(e)' /\ IsWriting(f)' => Seen(e)'.path # Seen(f)'.path
    BY <1>0, <1>21 DEF FilesInv
  <2> QED BY <1>5, <1>22, <2>1, <2>2 DEF FilesInv
<1>24. LinksInv'
  <2>1. \A e \in Docs : Created(e) => Created(e)' /\ docs'[e].project = docs[e].project BY <1>16, <1>17
  <2> QED BY <1>0, <2>1, LinksUntouched
<1>25. Leaves(c)
  <2>1. \A e \in Docs : Created(e) =>
          /\ Created(e)' /\ docs'[e].version >= docs[e].version
          /\ docs'[e].project = docs[e].project /\ docs'[e].archived = docs[e].archived
    <3>1. \A e \in Docs : Created(e) => docs[e].version \in Nat BY <1>0 DEF TypeOK, Created, DocumentRows
    <3> QED BY <1>14, <1>16, <1>17, <3>1
  <2> QED BY <1>2, <2>1 DEF Leaves
<1> QED BY <1>0, <1>18, <1>19, <1>20, <1>23, <1>24, <1>25, StepKeeps

\* A write that fails leaves the file to be removed.
LEMMA FailsKeeps ==
    ASSUME Inv, NEW c \in Calls, call[c].pc \in {"insert", "append"}, Fails(c), UNCHANGED <<folders, attachments, blobs>>
    PROVE  Inv'
<1>0. Goto(c, "cleanup", Seen(c)) /\ TablesUntouched BY DEF Fails, TablesUntouched, fileVars
<1>1. IsWriting(c) /\ StepsInv(c) /\ FileInv(c) BY DEF IsWriting, WritingSteps, Inv, CallInv
<1>2. PICK seen : seen = Seen(c) OBVIOUS
<1>3. call'[c] = [req |-> Req(c), pc |-> "cleanup", seen |-> seen] /\ raced' = raced
  BY <1>0, <1>2, GotoShape DEF Inv
<1>4. Req(c)' = Req(c) /\ Seen(c)' = seen /\ call'[c].pc = "cleanup" BY <1>3 DEF Req, Seen
<1>5. DocumentRequest(Req(c)) /\ Req(c).kind \in {"upload", "addVersion"} BY <1>1 DEF StepsInv, FolderSteps
<1>6. seen.path \in DOMAIN blobs' /\ blobs'[seen.path] /\ ~Referenced(seen.path)'
  BY <1>0, <1>1, <1>2 DEF FileInv, TablesUntouched, fileVars, Referenced
<1>7. CallInv(c)'
  BY <1>4, <1>5, <1>6 DEF CallInv, StepsInv, FileInv, VersionInv, LinkInv, At, FolderSteps, WritingSteps
<1> QED BY <1>0, <1>1, <1>7, GotoReads DEF WritingSteps

\* What is known of a handler whose commit has got no answer.
LEMMA CleanupKnows ==
    ASSUME Inv, NEW c \in Calls, call[c].pc \in {"insert", "append"}, Goto(c, "cleanup", Seen(c)),
           mishaps' = mishaps \cup {Seen(c).path}, blobs' = blobs
    PROVE  CallInv(c)' /\ IsWriting(c)' /\ Seen(c)' = Seen(c)
<1>1. IsWriting(c) /\ StepsInv(c) /\ FileInv(c) BY DEF IsWriting, WritingSteps, Inv, CallInv
<1>2. PICK seen : seen = Seen(c) OBVIOUS
<1>3. call'[c] = [req |-> Req(c), pc |-> "cleanup", seen |-> seen] BY <1>2, GotoShape DEF Inv
<1>4. Req(c)' = Req(c) /\ Seen(c)' = seen /\ call'[c].pc = "cleanup" BY <1>3 DEF Req, Seen
<1>5. DocumentRequest(Req(c)) /\ Req(c).kind \in {"upload", "addVersion"} BY <1>1 DEF StepsInv, FolderSteps
<1>6. seen.path \in DOMAIN blobs' /\ blobs'[seen.path] /\ seen.path \in mishaps'
  BY <1>1, <1>2 DEF FileInv
<1>7. CallInv(c)'
  BY <1>4, <1>5, <1>6 DEF CallInv, StepsInv, FileInv, VersionInv, LinkInv, At, FolderSteps, WritingSteps
<1> QED BY <1>2, <1>4, <1>7 DEF IsWriting, WritingSteps


\* The commit of a new version has been answered, or not.
LEMMA CommitKnows ==
    ASSUME Inv, NEW c \in Calls, call[c].pc \in {"insert", "append"}, Commits(c, Answer(c)), blobs' = blobs
    PROVE  /\ HandlersInv' /\ raced' = raced /\ load' = load
           /\ \A e \in Calls : e # c => call'[e] = call[e]
           /\ \/ ~IsWriting(c)' /\ mishaps' = mishaps
              \/ IsWriting(c)' /\ Seen(c)'.path = Seen(c).path /\ mishaps' = mishaps \cup {Seen(c).path}
           /\ CallInv(c)'
<1>1. CASE Answer(c) /\ UNCHANGED mishaps
  <2>1. /\ call'[c] = Free /\ load' = load /\ raced' = raced /\ HandlersInv'
        /\ \A e \in Calls : e # c => call'[e] = call[e]
    BY <1>1, AnswerShape DEF Inv
  <2> QED BY <1>1, <2>1, FreeCallInv
<1>2. CASE Goto(c, "cleanup", Seen(c)) /\ mishaps' = mishaps \cup {Seen(c).path}
  <2>1. PICK seen : seen = Seen(c) OBVIOUS
  <2>2. /\ load' = load /\ raced' = raced /\ HandlersInv'
        /\ \A e \in Calls : e # c => call'[e] = call[e]
    BY <1>2, <2>1, GotoShape DEF Inv
  <2>3. CallInv(c)' /\ IsWriting(c)' /\ Seen(c)' = Seen(c) BY <1>2, CleanupKnows
  <2> QED BY <1>2, <2>2, <2>3
<1> QED BY <1>1, <1>2 DEF Commits

LEMMA InsertDocumentKeeps == ASSUME Inv, NEW c \in Calls, InsertDocument(c) PROVE Inv'
<1>0. call[c].pc = "insert" /\ UNCHANGED <<folders, attachments, blobs>> BY DEF InsertDocument, At
<1>1. CASE Fails(c) BY <1>0, <1>1, FailsKeeps
<1>2. CASE ~Fails(c)
  <2>0. PICK p, q : p = Seen(c).path /\ q = Req(c) OBVIOUS
  <2>1. PICK d \in NextDoc :
          /\ Fits(q.folder, q.project)
          /\ docs' = [docs EXCEPT ![d] = [project |-> q.project, folder |-> q.folder,
                                          archived |-> FALSE, version |-> 1, path |-> p]]
          /\ versions' = versions \cup {Version(d, 1, c)}
          /\ Commits(c, IF q.link THEN Goto(c, "link", [doc |-> d, path |-> p]) ELSE Answer(c))
    BY <1>2, <2>0 DEF InsertDocument
  <2>2. PICK v, row : /\ v = [doc |-> d, n |-> 1, path |-> p, content |-> q.content]
                      /\ row = [project |-> q.project, folder |-> q.folder,
                                archived |-> FALSE, version |-> 1, path |-> p]
    OBVIOUS
  <2>3. IsWriting(c) /\ StepsInv(c) /\ FileInv(c) /\ TypeOK BY <1>0 DEF IsWriting, WritingSteps, Inv, CallInv
  <2>4. /\ DocumentRequest(q) /\ q.kind = "upload" /\ q.project \in Scopes /\ q.folder \in Folders \cup {Null}
        /\ q.content \in Contents
    BY <1>0, <2>0, <2>3 DEF StepsInv, FolderSteps, DocumentRequest
  <2>5. d \in Docs /\ ~Created(d) BY DEF NextDoc
  <2>6. ~Referenced(p) /\ p \in DOMAIN blobs BY <1>0, <2>0, <2>3 DEF FileInv
  <2>7. Writes(c, d, 1, p, v, row)
    BY <1>0, <2>0, <2>1, <2>2, <2>3, <2>4, <2>5, <2>6 DEF Writes, Version
  <2>8. CASE Commits(c, Answer(c))
    BY <1>0, <2>0, <2>7, <2>8, CommitKnows, VersionWritten
  <2>9. CASE q.link /\ Goto(c, "link", [doc |-> d, path |-> p]) /\ UNCHANGED mishaps
    <3>0. PICK seen : seen = [doc |-> d, path |-> p] OBVIOUS
    <3>1. /\ call'[c] = [req |-> q, pc |-> "link", seen |-> seen] /\ load' = load /\ raced' = raced /\ HandlersInv'
          /\ \A e \in Calls : e # c => call'[e] = call[e]
      BY <1>0, <2>0, <2>9, <3>0, GotoShape DEF Inv
    <3>2. Req(c)' = q /\ Seen(c)' = seen /\ call'[c].pc = "link" BY <3>1 DEF Req, Seen
    <3>3. p \in 1..MaxBlobs /\ 1 \in 1..MaxBlobs BY <2>3, <2>6, DocumentsAssumption DEF TypeOK
    <3>4. row # Null
      <4>1. row \in DocumentRows BY <2>2, <2>4, <3>3 DEF DocumentRows
      <4> QED BY <4>1, DocumentsAssumption
    <3>5. docs'[d] = row /\ Created(d)' BY <2>1, <2>2, <2>3, <2>5, <3>4 DEF TypeOK, Created
    <3>6. v \in versions' /\ v.doc = d /\ v.path = p BY <2>0, <2>1, <2>2 DEF Version
    <3>7. seen.doc = d /\ seen.path = p /\ docs'[d].project = q.project BY <2>2, <3>0, <3>5
    <3>8. StepsInv(c)'
      <4>1. TargetAllowed(q) BY <1>0, <2>0, <2>3, <2>4, <2>9 DEF StepsInv
      <4> QED BY <2>4, <3>2, <4>1 DEF StepsInv, FolderSteps, WritingSteps
    <3>9. ~IsWriting(c)' BY <3>2 DEF IsWriting, WritingSteps
    <3>10. FileInv(c)' /\ VersionInv(c)' BY <3>2, <3>9 DEF FileInv, VersionInv, At
    <3>11. LinkInv(c)' BY <2>9, <3>2, <3>5, <3>6, <3>7 DEF LinkInv, At
    <3> QED BY <2>7, <2>9, <3>1, <3>8, <3>9, <3>10, <3>11, VersionWritten DEF CallInv
  <2>10. Commits(c, Answer(c)) \/ (q.link /\ Goto(c, "link", [doc |-> d, path |-> p]) /\ UNCHANGED mishaps)
    BY <2>1 DEF Commits
  <2> QED BY <2>8, <2>9, <2>10
<1> QED BY <1>1, <1>2

LEMMA AppendVersionKeeps == ASSUME Inv, NEW c \in Calls, AppendVersion(c) PROVE Inv'
<1>0. call[c].pc = "append" /\ UNCHANGED <<folders, attachments, blobs>> BY DEF AppendVersion, At
<1>1. CASE Fails(c) BY <1>0, <1>1, FailsKeeps
<1>2. CASE ~Fails(c)
  <2>0. PICK p, q, d, n : p = Seen(c).path /\ q = Req(c) /\ d = Seen(c).doc /\ n = Seen(c).n OBVIOUS
  <2>1. /\ \A v \in VersionsOf(d) : v.n # n
        /\ versions' = versions \cup {Version(d, n, c)}
        /\ docs' = [docs EXCEPT ![d].version = n, ![d].path = p]
        /\ Commits(c, Answer(c))
    BY <1>2, <2>0 DEF AppendVersion, WriteVersion
  <2>2. PICK v : v = [doc |-> d, n |-> n, path |-> p, content |-> q.content] OBVIOUS
  <2>3. /\ IsWriting(c) /\ StepsInv(c) /\ FileInv(c) /\ VersionInv(c) /\ TypeOK /\ DocsFiled /\ FilesInv
    BY <1>0 DEF IsWriting, WritingSteps, Inv, CallInv
  <2>4. DocumentRequest(q) /\ q.kind = "addVersion" /\ q.content \in Contents
    BY <1>0, <2>0, <2>3 DEF StepsInv, FolderSteps, DocumentRequest
  <2>5. /\ d = q.doc /\ Created(d) /\ d \in Docs /\ n \in Nat /\ 1 < n /\ n <= docs[d].version + 1
    BY <1>0, <2>0, <2>3 DEF VersionInv, At, Created
  <2>6. ~Referenced(p) BY <1>0, <2>0, <2>3 DEF FileInv
  <2>7. docs[d] \in DocumentRows BY <2>3, <2>5 DEF TypeOK, Created
  <2>8. n = docs[d].version + 1
    <3>1. docs[d].version \in Nat BY <2>7 DEF DocumentRows
    <3>2. {u.n : u \in VersionsOf(d)} = 1..docs[d].version BY <2>3, <2>5 DEF FilesInv, VersionsMatchFiles
    <3>3. n \notin 1..docs[d].version BY <2>1, <3>2
    <3> QED BY <2>5, <3>1, <3>3
  <2>9. PICK row : row = [project |-> docs[d].project, folder |-> docs[d].folder,
                          archived |-> docs[d].archived, version |-> n, path |-> p]
    OBVIOUS
  <2>10. docs' = [docs EXCEPT ![d] = row]
    <3>1. PICK m : m = [docs[d] EXCEPT !.version = n] OBVIOUS
    <3>2. m = [project |-> docs[d].project, folder |-> docs[d].folder,
               archived |-> docs[d].archived, version |-> n, path |-> docs[d].path]
      BY <2>7, <3>1 DEF DocumentRows
    <3>3. [m EXCEPT !.path = p] = row BY <2>9, <3>2
    <3>4. docs' = [docs EXCEPT ![d] = [m EXCEPT !.path = p]] BY <2>1, <2>3, <2>5, <3>1 DEF TypeOK
    <3> QED BY <3>3, <3>4
  <2>11. /\ row.project = docs[d].project /\ row.folder = docs[d].folder /\ row.archived = docs[d].archived
         /\ row.project \in Scopes /\ row.folder \in Folders \cup {Null} /\ row.archived \in BOOLEAN
         /\ row = [project |-> row.project, folder |-> row.folder, archived |-> row.archived, version |-> n, path |-> p]
    BY <2>7, <2>9 DEF DocumentRows
  <2>12. Fits(row.folder, row.project) BY <2>3, <2>5, <2>11 DEF DocsFiled
  <2>13. v.content \in Contents /\ v = Version(d, n, c) BY <2>0, <2>2, <2>4 DEF Version
  <2>14. n \in Nat \ {0} BY <2>5
  <2>15. Writes(c, d, n, p, v, row)
    BY <1>0, <2>0, <2>1, <2>2, <2>3, <2>5, <2>6, <2>8, <2>10, <2>11, <2>12, <2>13, <2>14 DEF Writes
  <2> QED BY <1>0, <2>0, <2>1, <2>15, CommitKnows, VersionWritten
<1> QED BY <1>1, <1>2

----------------------------------------------------------------------------
(* The invariant holds at the start, and is kept by every step. *)

LEMMA InitHasInv == Init => Inv
<1> SUFFICES ASSUME Init PROVE Inv OBVIOUS
<1>1. \A c \in Calls : call[c] = Free BY DEF Init, HandlersInit
<1>2. HandlersInv
  <2>1. CallShape BY DEF Init, HandlersInit, CallShape, Req, Seen, Free
  <2>2. HandlersTypeOK BY <1>1 DEF Init, HandlersInit, HandlersTypeOK, Req, At, Free
  <2>3. RacedInv BY <1>1 DEF RacedInv, InFlight, Free
  <2> QED BY <2>1, <2>2, <2>3 DEF HandlersInv
<1>3. \A d : ~Created(d) BY DEF Init, Created
<1>4. blobs = <<>> /\ blobs \in Seq(BOOLEAN) /\ Len(blobs) = 0 /\ DOMAIN blobs = {} BY DEF Init
<1>5. FoldersTypeOK BY FirstFoldersAssumption DEF Init, FoldersTypeOK
<1>6. TypeOK BY <1>2, <1>4, <1>5, DocumentsAssumption DEF Init, TypeOK, HandlersInv
<1>7. TreeInv
  <2> SUFFICES ASSUME NEW f \in Folders, Exists(f)
               PROVE  /\ folders[f].parent = Null
                      /\ NameFree(folders[f].name, folders[f].project, folders[f].parent, f)
    BY DEF TreeInv, Holds
  <2> QED BY FirstFoldersAssumption DEF Init, Exists, NameFree
<1>8. DocsFiled BY <1>3 DEF DocsFiled
<1>9. FilesInv
  <2>1. ~\E c \in Calls : IsWriting(c) BY <1>1 DEF IsWriting, WritingSteps, Free
  <2> QED BY <1>3, <1>4, <2>1, FS_EmptySet DEF Init, FilesInv, VersionsMatchFiles
<1>10. LinksInv BY DEF Init, LinksInv, LinkedInProject
<1>11. \A c \in Calls : CallInv(c)
  BY <1>1 DEF CallInv, StepsInv, FileInv, VersionInv, LinkInv, At, IsWriting, FolderSteps, WritingSteps, Free
<1> QED BY <1>2, <1>6, <1>7, <1>8, <1>9, <1>10, <1>11 DEF Inv

\* Nothing changes at all.
LEMMA StutterKeeps == ASSUME Inv, UNCHANGED vars PROVE Inv'
<1> USE DEF vars, handlers, fileVars
<1>1. HandlersInv' BY DEF Inv, HandlersInv, CallShape, HandlersTypeOK, RacedInv, InFlight, Req, Seen, At
<1>2. TypeOK' BY <1>1 DEF Inv, TypeOK, FoldersTypeOK, HandlersInv
<1>3. TreeInv' /\ DocsFiled' BY SameTrees DEF Inv, TypeOK
<1>4. \A d \in Docs : Created(d)' <=> Created(d) BY DEF Created
<1>5. \A d \in Calls : (IsWriting(d)' <=> IsWriting(d)) /\ (IsWriting(d) => Seen(d)'.path = Seen(d).path)
  BY DEF IsWriting, Seen
<1>6. FilesInv' BY <1>4, <1>5, FilesUntouched DEF Inv
<1>7. LinksInv' BY <1>4, LinksUntouched DEF Inv
<1>8. ASSUME NEW d \in Calls PROVE CallInv(d)'
  <2>1. CallInv(d) BY DEF Inv
  <2>2. \A z : Referenced(z)' <=> Referenced(z) BY DEF Referenced
  <2> QED BY <2>1, <2>2 DEF CallInv, StepsInv, FileInv, VersionInv, LinkInv, At, IsWriting, Req, Seen, Created
<1> QED BY <1>1, <1>2, <1>3, <1>6, <1>7, <1>8 DEF Inv

LEMMA DocumentsStepKeeps == ASSUME Inv, NEW c \in Calls, DocumentsStep(c) PROVE Inv'
<1>1. CASE Upload(c) BY <1>1, UploadKeeps
<1>2. CASE AddVersion(c) BY <1>2, AddVersionKeeps
<1>3. CASE Store(c) BY <1>3, StoreKeeps
<1>4. CASE InsertDocument(c) BY <1>4, InsertDocumentKeeps
<1>5. CASE Link(c) BY <1>5, LinkKeeps
<1>6. CASE NumberVersion(c) BY <1>6, NumberVersionKeeps
<1>7. CASE AppendVersion(c) BY <1>7, AppendVersionKeeps
<1>8. CASE CleanUp(c) BY <1>8, CleanUpKeeps
<1>9. CASE Reassign(c) BY <1>9, ReassignKeeps
<1>10. CASE CountAttachments(c) BY <1>10, CountAttachmentsKeeps
<1>11. CASE Own(c) BY <1>11, OwnKeeps
<1>12. CASE Archive(c) \/ Restore(c) BY <1>12, ArchivedKeeps
<1>13. CASE File(c) BY <1>13, FileKeeps
<1>14. CASE Refile(c) BY <1>14, RefileKeeps
<1>15. CASE Attach(c) BY <1>15, AttachKeeps
<1>16. CASE InsertAttachment(c) BY <1>16, InsertAttachmentKeeps
<1>17. CASE Detach(c) BY <1>17, DetachKeeps
<1>18. CASE DropDocument(c) BY <1>18, DropKeeps
<1> QED
  BY <1>1, <1>2, <1>3, <1>4, <1>5, <1>6, <1>7, <1>8, <1>9, <1>10, <1>11, <1>12, <1>13, <1>14, <1>15,
     <1>16, <1>17, <1>18 DEF DocumentsStep

\* The invariant is inductive.
LEMMA NextKeeps == Inv /\ [Next]_vars => Inv'
<1> SUFFICES ASSUME Inv, [Next]_vars PROVE Inv' OBVIOUS
<1>1. CASE UNCHANGED vars BY <1>1, StutterKeeps
<1>2. ASSUME NEW c \in Calls, Arrive(c), UNCHANGED <<folders, docs, fileVars>> PROVE Inv'
  BY <1>2, ArriveKeeps DEF TablesUntouched
<1>3. ASSUME NEW c \in Calls, FoldersStep(c), UNCHANGED fileVars PROVE Inv' BY <1>3, FoldersStepKeeps
<1>4. ASSUME NEW c \in Calls, DocumentsStep(c) PROVE Inv' BY <1>4, DocumentsStepKeeps
<1> QED BY <1>1, <1>2, <1>3, <1>4 DEF Next

LEMMA InvHolds == Spec => []Inv
BY InitHasInv, NextKeeps, PTL DEF Spec

----------------------------------------------------------------------------
(* An archived document. *)

Frozen(d) == /\ docs'[d].folder = docs[d].folder
             /\ <<"doc", d>> \notin raced => [docs'[d] EXCEPT !.archived = TRUE] = docs[d]

\* What an archived document is made of.
LEMMA ArchivedRow ==
    ASSUME TypeOK, NEW d \in Docs, Created(d), docs[d].archived
    PROVE  /\ docs[d] \in DocumentRows
           /\ docs[d] = [project |-> docs[d].project, folder |-> docs[d].folder, archived |-> TRUE,
                         version |-> docs[d].version, path |-> docs[d].path]
           /\ \A b : [[docs[d] EXCEPT !.archived = b] EXCEPT !.archived = TRUE] = docs[d]
           /\ [docs[d] EXCEPT !.archived = TRUE] = docs[d]
<1>1. docs[d] \in DocumentRows BY DEF TypeOK, Created
<1>2. docs[d].archived = TRUE BY <1>1 DEF DocumentRows
<1> QED BY <1>1, <1>2 DEF DocumentRows

LEMMA ArchivedStays ==
    ASSUME Inv, Next, NEW d \in Docs, Created(d), docs[d].archived
    PROVE  Frozen(d)
<1>0. TypeOK BY DEF Inv
<1>1. docs'[d] = docs[d] => Frozen(d) BY <1>0, ArchivedRow DEF Frozen
<1>2. docs' = docs => Frozen(d) BY <1>1
<1>3. ASSUME NEW c \in Calls, InsertDocument(c) PROVE Frozen(d)
  <2>1. CASE docs' = docs BY <1>2, <2>1
  <2>2. CASE \E e \in NextDoc : \E row : docs' = [docs EXCEPT ![e] = row]
    <3>1. PICK e \in NextDoc : \E row : docs' = [docs EXCEPT ![e] = row] BY <2>2
    <3>2. e # d BY DEF NextDoc
    <3>3. docs'[d] = docs[d] BY <1>0, <3>1, <3>2 DEF TypeOK
    <3> QED BY <1>1, <3>3
  <2> QED BY <1>3, <2>1, <2>2 DEF InsertDocument, Fails
<1>4. ASSUME NEW c \in Calls, AppendVersion(c) PROVE Frozen(d)
  <2>1. CASE docs' = docs BY <1>2, <2>1
  <2>2. CASE \E n, p : docs' = [docs EXCEPT ![Seen(c).doc].version = n, ![Seen(c).doc].path = p]
    <3>0. PICK e : e = Seen(c).doc OBVIOUS
    <3>1. PICK n, p : docs' = [docs EXCEPT ![e].version = n, ![e].path = p] BY <2>2, <3>0
    <3>2. e = Req(c).doc /\ Created(e) /\ e \in Docs /\ (<<"doc", e>> \notin raced => ~docs[e].archived)
      BY <1>4, <3>0 DEF AppendVersion, At, Inv, CallInv, VersionInv, Created
    <3>3. CASE e # d
      <4>1. docs'[d] = docs[d] BY <1>0, <3>1, <3>3 DEF TypeOK
      <4> QED BY <1>1, <4>1
    <3>4. CASE e = d
      <4>1. docs'[d].folder = docs[d].folder BY <1>0, <3>1, <3>4, ArchivedRow DEF TypeOK, DocumentRows
      <4> QED BY <3>2, <3>4, <4>1 DEF Frozen
    <3> QED BY <3>3, <3>4
  <2> QED BY <1>4, <2>1, <2>2 DEF AppendVersion, Fails, WriteVersion
<1>5. ASSUME NEW c \in Calls, Own(c) PROVE Frozen(d)
  <2>1. CASE docs' = docs BY <1>2, <2>1
  <2>2. CASE docs' = [docs EXCEPT ![Req(c).doc].project = Req(c).project]
    <3>0. PICK e, s : e = Req(c).doc /\ s = Req(c).project OBVIOUS
    <3>1. docs' = [docs EXCEPT ![e].project = s] BY <2>2, <3>0
    <3>2. Created(e) /\ e \in Docs /\ (<<"doc", e>> \notin raced => ~docs[e].archived)
      BY <1>5, <3>0 DEF Own, At, Inv, CallInv, LinkInv, Created
    <3>3. CASE e # d
      <4>1. docs'[d] = docs[d] BY <1>0, <3>1, <3>3 DEF TypeOK
      <4> QED BY <1>1, <4>1
    <3>4. CASE e = d
      <4>1. docs'[d].folder = docs[d].folder BY <1>0, <3>1, <3>4, ArchivedRow DEF TypeOK, DocumentRows
      <4> QED BY <3>2, <3>4, <4>1 DEF Frozen
    <3> QED BY <3>3, <3>4
  <2> QED BY <1>5, <2>1, <2>2 DEF Own
<1>6. ASSUME NEW c \in Calls, Archive(c) \/ Restore(c) PROVE Frozen(d)
  <2>1. CASE docs' = docs BY <1>2, <2>1
  <2>2. CASE \E b : docs' = [docs EXCEPT ![Req(c).doc].archived = b]
    <3>0. PICK e : e = Req(c).doc OBVIOUS
    <3>1. PICK b : docs' = [docs EXCEPT ![e].archived = b] BY <2>2, <3>0
    <3>3. CASE e # d
      <4>1. docs'[d] = docs[d] BY <1>0, <3>1, <3>3 DEF TypeOK
      <4> QED BY <1>1, <4>1
    <3>4. CASE e = d
      <4>1. docs'[d] = [docs[d] EXCEPT !.archived = b] BY <1>0, <3>1, <3>4 DEF TypeOK
      <4>2. docs'[d].folder = docs[d].folder BY <1>0, <4>1, ArchivedRow DEF DocumentRows
      <4> QED BY <1>0, <4>1, <4>2, ArchivedRow DEF Frozen
    <3> QED BY <3>3, <3>4
  <2> QED BY <1>6, <2>1, <2>2 DEF Archive, Restore, SetArchived
<1>7. ASSUME NEW c \in Calls, Refile(c) PROVE Frozen(d)
  <2>1. CASE docs' = docs BY <1>2, <2>1
  <2>2. CASE ~docs[Req(c).doc].archived /\ docs' = [docs EXCEPT ![Req(c).doc].folder = Req(c).folder]
    <3>1. Req(c).doc # d BY <2>2
    <3> QED BY <1>1, <2>2, <3>1
  <2> QED BY <1>7, <2>1, <2>2 DEF Refile
<1>8. ASSUME NEW c \in Calls, FoldersStep(c) PROVE docs' = docs
  BY <1>8 DEF FoldersStep, CreateFolder, RenameFolder, MoveFolder, DeleteFolder
<1>9. ASSUME NEW c \in Calls,
             \/ Upload(c) \/ AddVersion(c) \/ Store(c) \/ Link(c) \/ NumberVersion(c) \/ CleanUp(c)
             \/ Reassign(c) \/ CountAttachments(c) \/ File(c) \/ Attach(c) \/ InsertAttachment(c)
             \/ Detach(c) \/ DropDocument(c)
      PROVE  docs' = docs
  BY <1>9 DEF Upload, AddVersion, Store, Link, NumberVersion, CleanUp, Reassign, CountAttachments, File,
              Attach, InsertAttachment, Detach, DropDocument
<1> QED BY <1>2, <1>3, <1>4, <1>5, <1>6, <1>7, <1>8, <1>9 DEF Next, DocumentsStep

----------------------------------------------------------------------------
(* The theorems. *)

\* Every variable has its type: in particular the number of a version, and of the file of a
\* document, is never more than there are files (documents.service.ts:1218-1245).
THEOREM DocumentsTypeCorrect == Spec => []TypeOK
<1>1. Inv => TypeOK BY DEF Inv
<1> QED BY <1>1, InvHolds, PTL

\* The versions of a document are numbered without gaps, each once, and the storage holds
\* their files and no others, unless a process died, the answer of a commit was lost, a
\* removal failed twice or the storage threw after it had kept the file
\* (documents.service.ts:752, 876, 1218-1245, 1277-1293).
THEOREM VersionsMatchFilesHolds == Spec => []VersionsMatchFiles
<1>1. Inv => VersionsMatchFiles BY DEF Inv, FilesInv
<1> QED BY <1>1, InvHolds, PTL

\* The folders are trees, one name once in a folder, each in its project, and every document
\* is in a folder of its project, whatever moves, deletions and reassignments overlap
\* (document-folders.service.ts:140-220).
THEOREM FoldersHoldTogetherHolds == Spec => []FoldersHoldTogether
<1>1. Inv => FoldersHoldTogether BY DEF Inv, TreeInv, DocsFiled, FoldersHoldTogether
<1> QED BY <1>1, InvHolds, PTL

\* What was attached through a project is a document of it or of the company, and so it is of
\* the project of the work it hangs on when that was compared with the request's, unless
\* requests about the links have overlapped (documents.service.ts:508,
\* attachments.service.ts:56-65, upload.service.ts:113-120).
THEOREM AttachmentsStayInProjectHolds == Spec => []AttachmentsStayInProject
<1>1. Inv => AttachmentsStayInProject
  BY DEF Inv, LinksInv, LinkedInProject, TargetAllowed, AttachmentsStayInProject
<1> QED BY <1>1, InvHolds, PTL

\* An archived document keeps its folder, and its project and versions unless another
\* request about it overlapped (documents.service.ts:470-472, 850-852, 975-977).
THEOREM ArchivedIsFrozenHolds == Spec => ArchivedIsFrozen
<1>1. Inv /\ [Next]_vars => [\A d \in Docs : Created(d) /\ docs[d].archived =>
          /\ docs'[d].folder = docs[d].folder
          /\ <<"doc", d>> \notin raced => [docs'[d] EXCEPT !.archived = TRUE] = docs[d]]_docs
  BY ArchivedStays DEF Frozen, vars
<1> QED BY <1>1, InvHolds, PTL DEF Spec, ArchivedIsFrozen
=============================================================================
