--------------------------- MODULE MCIndexCaches ---------------------------
(* Values for model-checking IndexCaches.  Lexical: the days of a dataset, *)
(* one of them in two orders, and another dataset whose ids are numbered   *)
(* the same way, as the synthetic ones are (mem_0, mem_1, ...).  Dense:    *)
(* four events of two users, injected in another order than their ids'.   *)
EXTENDS IndexCaches

M(i, u, t) == [id |-> i, user |-> u, text |-> t]

Day0 == <<M("mem_0", "ann", "x0")>>
Day1 == <<M("mem_0", "ann", "x0"), M("mem_1", "bob", "x1")>>
Day1Reordered == <<M("mem_1", "bob", "x1"), M("mem_0", "ann", "x0")>>
Pruned == <<M("mem_1", "bob", "x1")>>
Other == <<M("mem_0", "bob", "y0")>>

MCCorpora == {Day0, Day1, Day1Reordered, Pruned, Other}

MCDataset == <<2, 3, 1, 4>>
MCOwner == <<"ann", "ann", "bob", "bob">>
=============================================================================
