------------------------------ MODULE MCStock ------------------------------
(* Small instances of Stock. *)
EXTENDS Stock, TLC

CONSTANTS cement, panel, siteA, siteB, depot, nobody, k1, n1, c1, c2, c3

At_(p, w) == [project |-> p, warehouse |-> w]
A == At_(siteA, nobody)
B == At_(siteB, nobody)
D == At_(nobody, depot)
NoSite == At_(nobody, nobody)

MCRows == {RowAt(cement, A), RowAt(cement, B), RowAt(cement, D), RowAt(cement, At_(siteA, depot)),
           RowAt(panel, A), RowAt(panel, B), RowAt(panel, NoSite)}

Of(material, qty) == [material |-> material, qty |-> qty]

Request(kind, from, to, items, key, number) ==
    [kind |-> kind, from |-> from, to |-> to, items |-> items, key |-> key, number |-> number]

Receive(to, m, q, key)        == Request("receive", NoSite, to, <<Of(m, q)>>, key, nobody)
Consume(site, m, q, key)      == Request("consume", site, NoSite, <<Of(m, q)>>, key, nobody)
Transfer(from, to, m, q, key) == Request("transfer", from, to, <<Of(m, q)>>, key, nobody)
Note(to, items, key, number)  == Request("aviz", NoSite, to, items, key, number)

MCOpening == RowAt(cement, A) :> 2 @@ RowAt(cement, B) :> 1 @@ RowAt(cement, At_(siteA, depot)) :> 0

MCOps == {
    Receive(A, cement, 1, k1), Receive(A, panel, 1, nobody), Receive(NoSite, panel, 1, nobody),
    Receive(D, cement, 1, nobody), Consume(D, cement, 1, nobody),
    Consume(A, cement, 2, k1), Consume(A, panel, 1, nobody), Consume(B, panel, 1, nobody),
    Transfer(A, B, cement, 1, k1), Transfer(B, A, cement, 1, nobody),
    Transfer(A, D, cement, 2, nobody), Transfer(B, B, cement, 1, nobody),
    Transfer(D, A, cement, 1, nobody),
    Note(A, <<Of(cement, 1), Of(panel, 1)>>, k1, n1),
    Note(A, <<Of(panel, 1), Of(cement, 1)>>, nobody, n1),
    Note(A, <<Of(panel, 1), Of(panel, 1)>>, k1, n1),
    Note(A, <<Of(panel, 0)>>, nobody, n1) }

Symmetry == Permutations(Calls)
=============================================================================
