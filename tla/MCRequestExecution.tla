------------------------- MODULE MCRequestExecution -------------------------
(* Instances of RequestExecution for TLC: the providers' retry budgets.      *)
EXTENDS RequestExecution, TLC
CONSTANTS p1, p2
Two == {p1, p2}
\* The first provider may retry once, the second may not.
OneRetry == (p1 :> 1) @@ (p2 :> 0)
EachRetry == [p \in Two |-> 1]
=============================================================================
