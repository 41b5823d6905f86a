---------------------------- MODULE MCAccounting ----------------------------
(* A short and a long session, of which the long one reads from the cache;  *)
(* loads of which the one with more requests is not the faster one.         *)
EXTENDS Accounting

SomeUsages ==
    { [prompt |-> 4, cached |-> 0, completion |-> 1], [prompt |-> 8, cached |-> 16, completion |-> 4] }
SomeLoads ==
    { [speed |-> 33, reference |-> 0], [speed |-> 40, reference |-> 10], [speed |-> 66, reference |-> 33] }
=============================================================================
