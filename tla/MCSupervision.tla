---------------------------- MODULE MCSupervision ----------------------------
(* Values for the constants of Supervision and the symmetry TLC may use.    *)
EXTENDS Supervision, TLC

\* Any call may be any operation.
AnyOp == [c \in Calls |-> OpKinds]

\* Every call is one of the two that change what runs.
StartStop == [c \in Calls |-> {"start", "stop"}]

\* A session starting the gateway while another user restarts it.
TwoCalls == {"first", "second"}
StartAndRestart == [first |-> {"start"}, second |-> {"restart"}]

Symmetry == Permutations(Instances) \cup Permutations(Calls)

=============================================================================
