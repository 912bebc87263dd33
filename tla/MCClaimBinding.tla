--------------------------- MODULE MCClaimBinding ---------------------------
(* Instances of ClaimBinding for TLC.                                      *)
EXTENDS ClaimBinding

CONSTANTS a, b

OneMachine == {1}
TwoMachines == {1, 2}
AnyMachine == [c \in Claims |-> Machines]
BySelector == [c \in Claims |-> {None}]
\* Recreated or edited, the claim may change between the two.
EitherWay == [c \in Claims |-> {None, 1}]

\* a has a selector, b names Machine 1.
BothWays == [c \in Claims |-> IF c = b THEN {1} ELSE {None}]
=============================================================================
