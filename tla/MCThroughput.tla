---------------------------- MODULE MCThroughput ----------------------------
(* Instances of Throughput.                                                  *)
EXTENDS Throughput

\* The three kinds of test, a write test first.
AllTests == <<"write", "rewrite", "read">>
=============================================================================
