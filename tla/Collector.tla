------------------------------ MODULE Collector ------------------------------
(* The collector as its clients see it: it comes and goes.                  *)
VARIABLE
    up      \* the collector is reachable and its database works
=============================================================================
