----------------------------- MODULE MCServing -----------------------------
(* One server and a peer on one database: two places against a queue of    *)
(* one, so that a job can find the queue full, and three requests on one   *)
(* connection, so that the last can find both places still taken by the    *)
(* work of requests that timed out.                                        *)
EXTENDS Serving

Places == [h \in Host |-> 2]
=============================================================================
