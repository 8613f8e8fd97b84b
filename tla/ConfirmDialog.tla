----------------------------- MODULE ConfirmDialog -----------------------------
(***************************************************************************)
(* The dialog of the browser client (static/app.js) that confirms the      *)
(* deletion of a domain or of a user, whose name must be typed.  There is  *)
(* one dialog, one target and one button for all deletions, and a deletion *)
(* closes the dialog only when it is answered.                             *)
(***************************************************************************)
EXTENDS Integers, ClientUser

CONSTANTS Users,   \* names of users; Self among them
          Self,    \* _currentUsername
          Domains, \* names of domains
          MaxDialogOps   \* bound: things the user does

ASSUME DialogAssumption ==
    /\ Self \in Users /\ Users \cap Domains = {} /\ None \notin Users \cup Domains /\ MaxDialogOps \in Nat

Names == Users \cup Domains

VARIABLES
    target,  \* _confirmDeleteTarget, and _confirmDeleteType with it; or None
    open,    \* has the dialog the class open
    hidden,  \* did Escape leave display: none on it
    input,   \* the text typed
    row,     \* is the input displayed
    watched, \* the name the input's handler compares with
    enabled, \* is the button Delete enabled
    reqs,    \* deletions on their way: the name, and what they wait for
    typed    \* ghost: names typed while their deletion was asked about

dialogVars == <<target, open, hidden, input, row, watched, enabled, reqs, typed, ops>>

DialogInit ==
    /\ target = None /\ open = FALSE /\ hidden = FALSE /\ input = None /\ row = FALSE
    /\ watched = None /\ enabled = TRUE /\ reqs = {} /\ typed = {} /\ ops = 0

Visible == open /\ ~hidden
Clicked == UserActs(MaxDialogOps)

-----------------------------------------------------------------------------
\* closeConfirmModal
Close == open' = FALSE /\ target' = None

\* confirmDelete; the page is reached only while no dialog covers it.
Ask(n) ==
    /\ ~Visible /\ n # Self /\ Clicked
    /\ target' = n /\ open' = TRUE /\ input' = None /\ row' = (n \in Users)
    /\ watched' = IF n \in Users THEN n ELSE watched
    /\ enabled' = (n \notin Users)
    /\ UNCHANGED <<hidden, reqs, typed>>

Type(n) ==
    /\ Visible /\ row /\ Clicked
    /\ input' = n /\ enabled' = (n = watched)
    /\ typed' = IF n = target THEN typed \cup {n} ELSE typed
    /\ UNCHANGED <<target, open, hidden, row, watched, reqs>>

\* A domain's card fades out first.
Delete ==
    /\ Visible /\ enabled /\ target # None /\ Clicked
    /\ reqs' = reqs \cup {[name |-> target, at |-> IF target \in Users THEN "sent" ELSE "fading"]}
    /\ enabled' = FALSE
    /\ UNCHANGED <<target, open, hidden, input, row, watched, typed>>

Faded(r) ==
    /\ r.at = "fading" /\ reqs' = (reqs \ {r}) \cup {[name |-> r.name, at |-> "sent"]}
    /\ UNCHANGED <<target, open, hidden, input, row, watched, enabled, typed, ops>>

\* The deletion is answered; that it was done is logged.  A user who could not
\* be deleted is not logged.
Deleted(r) ==
    /\ r.at = "sent" /\ reqs' = (reqs \ {r}) \cup {[name |-> r.name, at |-> "logging"]}
    /\ UNCHANGED <<target, open, hidden, input, row, watched, enabled, typed, ops>>

\* Mutant: a deletion that ends closes the dialog only if it is still its own.
EndsOwn(r) ==
    /\ r.at = "logging" \/ (r.at = "sent" /\ r.name \in Users)
    /\ reqs' = reqs \ {r} /\ enabled' = TRUE
    /\ IF target = r.name THEN Close ELSE UNCHANGED <<target, open>>
    /\ UNCHANGED <<hidden, input, row, watched, typed, ops>>

\* The button is freed and the dialog closed, whatever it asks about now.
Ends(r) ==
    /\ r.at = "logging" \/ (r.at = "sent" /\ r.name \in Users)
    /\ reqs' = reqs \ {r} /\ enabled' = TRUE /\ Close
    /\ UNCHANGED <<hidden, input, row, watched, typed, ops>>

Cancel ==
    /\ Visible /\ Clicked /\ Close
    /\ UNCHANGED <<hidden, input, row, watched, enabled, reqs, typed>>

\* Escape hides every dialog, open or not, and nothing shows it again.
Escape ==
    /\ ~hidden /\ Clicked
    /\ hidden' = TRUE /\ Close
    /\ UNCHANGED <<input, row, watched, enabled, reqs, typed>>

ReloadPage ==
    /\ Clicked
    /\ target' = None /\ open' = FALSE /\ hidden' = FALSE /\ input' = None /\ row' = FALSE
    /\ watched' = None /\ enabled' = TRUE /\ reqs' = {} /\ typed' = typed

DialogNext ==
    \/ \E n \in Names : Ask(n) \/ Type(n)
    \/ \E r \in reqs : Faded(r) \/ Deleted(r) \/ Ends(r)
    \/ Delete \/ Cancel \/ Escape \/ ReloadPage

DialogSpec == DialogInit /\ [][DialogNext]_dialogVars

-----------------------------------------------------------------------------
(* Properties *)

\* Every variable holds values of its type.
DialogTypeOK ==
    /\ target \in Names \cup {None} /\ input \in Names \cup {None} /\ watched \in Users \cup {None}
    /\ open \in BOOLEAN /\ hidden \in BOOLEAN /\ row \in BOOLEAN /\ enabled \in BOOLEAN
    /\ typed \subseteq Users
    /\ \A r \in reqs : r.name \in Names \ {Self} /\ r.at \in {"fading", "sent", "logging"}

\* A user is deleted only when the user's own name was typed for it, although
\* one button serves all deletions and an answer that comes late enables it,
\* while another deletion may be asked about.
TypedBeforeDelete == \A r \in reqs : r.name \in Users => r.name \in typed
==============================================================================
