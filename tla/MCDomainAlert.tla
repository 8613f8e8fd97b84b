---------------------------- MODULE MCDomainAlert ----------------------------
(***************************************************************************)
(* DomainAlert for TLC: the constants are given by each .cfg.  The job     *)
(* with requests beside it, several domains and every fault at once are    *)
(* too many, so a behaviour is one of two parts: checks that overlap about *)
(* one domain, with every fault, and the job with lists of two domains,    *)
(* failing deliveries and deletions.                                       *)
(***************************************************************************)
EXTENDS DomainAlert

CONSTANT Other \* the second domain: never renewed, never under maintenance

VARIABLE part

PartInit == Init /\ part \in {"overlap", "lists"}

PartNext ==
  /\ Next /\ UNCHANGED part
  /\ Other \notin quiet' /\ (cond[Other] = "good" \/ cond'[Other] # "good")
  /\ part = "overlap" => Other \notin rows' /\ cond'[Other] = "good"
  /\ part = "lists" => crashes' = 0 /\ \A c \in Requests : pc'[c] = "idle"

PartSpec == PartInit /\ [][PartNext]_<<vars, part>> /\ Fairness
==============================================================================
