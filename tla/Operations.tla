-------------------------------- MODULE Operations --------------------------------
(***************************************************************************)
(* What a transport of provisioning promises of its operations: after an   *)
(* operation has begun it is told errors, at most MaxErrors of them, and   *)
(* one result at most.                                                     *)
(***************************************************************************)
EXTENDS Naturals

CONSTANTS Ids, MaxErrors

VARIABLES begun,    \* the operations that have begun
          results,  \* how many results each has been told
          errors    \* how many errors

Init == /\ begun = {}
        /\ results = [i \in Ids |-> 0]
        /\ errors = [i \in Ids |-> 0]

Begin(i) == i \notin begun /\ begun' = begun \cup {i} /\ UNCHANGED <<results, errors>>

TellResult(i) ==
  /\ i \in begun /\ results[i] = 0
  /\ results' = [results EXCEPT ![i] = 1]
  /\ UNCHANGED <<begun, errors>>

TellError(i) ==
  /\ i \in begun /\ errors[i] < MaxErrors
  /\ errors' = [errors EXCEPT ![i] = @ + 1]
  /\ UNCHANGED <<begun, results>>

Next == \E i \in Ids : Begin(i) \/ TellResult(i) \/ TellError(i)

Spec == Init /\ [][Next]_<<begun, results, errors>>

=============================================================================
