-------------------------- MODULE MCIssueScheduler --------------------------
(* Every graph over at most three issues, cyclic ones included.            *)
EXTENDS IssueScheduler, TLC


\* A scheduler whose prepare() raised is abandoned, and a drained one has
\* nothing left to do: both may stop.
=============================================================================
