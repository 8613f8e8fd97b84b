------------------------------ MODULE ClientUser ------------------------------
(***************************************************************************)
(* What the models of the client's frame share: the user, who acts a       *)
(* bounded number of times, and the value that stands for null.            *)
(***************************************************************************)
EXTENDS Naturals

CONSTANT None

VARIABLE ops \* things the user did

UserActs(most) == ops < most /\ ops' = ops + 1
==============================================================================
