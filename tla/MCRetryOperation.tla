--------------------------- MODULE MCRetryOperation ---------------------------
(***************************************************************************)
(* RetryOperation with the default parameters of the policy, as the        *)
(* constructor of ExponentialBackOffWithJitter sets them.                  *)
(***************************************************************************)
EXTENDS RetryOperation

MCNormal == [c |-> 100, cMin |-> 100, cMax |-> 10000, ju |-> 25, jd |-> 50]
MCThrottled ==
  [c |-> 5000, cMin |-> 10000, cMax |-> 60000, ju |-> 25, jd |-> 50]
=============================================================================
