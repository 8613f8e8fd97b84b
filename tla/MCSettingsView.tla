---------------------------- MODULE MCSettingsView ----------------------------
(***************************************************************************)
(* The settings view and the lists only an administrator sees, which share *)
(* nothing but the user: a behaviour is one of them while the other stays  *)
(* as it starts.                                                           *)
(***************************************************************************)
EXTENDS SettingsForms, AdminPages

VARIABLE part

formsOwn == <<db, ghosts, screen, stored, network, errors>>
listsOwn == <<kind, table, memory, control, listScreen, loads, reqs, failures, disturbed, beyond>>

\* Bounds: two loads on their way, and of the numbers of the security form only
\* those of its own table are left blank.
FormsBound == Len(gets) <= 2 /\ form["retention"] # Blank

Init ==
    /\ part \in {"forms", "lists"} /\ FormsInit /\ ListsInit
    /\ part = "forms" => kind = "keys" /\ DOMAIN table = Ids
    /\ part = "lists" => db.on = 0

Next ==
    /\ UNCHANGED part
    /\ \/ part = "forms" /\ FormsNext /\ FormsBound' /\ UNCHANGED listsOwn
       \/ part = "lists" /\ ListsNext /\ UNCHANGED formsOwn

Spec == Init /\ [][Next]_<<part, formVars, listVars>>

\* Every variable of either part holds values of its type.
TypeOK == FormsTypeOK /\ ListsTypeOK
==============================================================================
