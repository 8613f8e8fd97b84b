---------------------------- MODULE MCClientFrame ----------------------------
(***************************************************************************)
(* The parts of the client's frame, which share nothing but the user: a    *)
(* behaviour is one of them while the others stay as they start.           *)
(***************************************************************************)
EXTENDS ClientShell, ClientSession, ConfirmDialog, TemplateEditor

VARIABLE part

shellOwn == <<account, view, hash, events, refresh, now, dashboard>>
sessionOwn == <<page, cookie, nonces, token, flight, healed, loginForm>>
dialogOwn == <<target, open, hidden, input, row, watched, enabled, reqs, typed>>
editorOwn == <<templates, windows, errors>>

Init ==
    /\ part \in {"shell", "session", "dialog", "editor"}
    /\ ShellInit /\ SessionInit /\ DialogInit /\ EditorInit
    /\ part # "shell" => role = "admin" /\ hash = None /\ ~savedAuto
    /\ part # "editor" => (\A t \in Templates : db[t] = 0) /\ (\A w \in Windows : days[w] = EveryDay)

Next ==
    /\ UNCHANGED part
    /\ \/ part = "shell" /\ ShellNext /\ UNCHANGED <<sessionOwn, dialogOwn, editorOwn>>
       \/ part = "session" /\ SessionNext /\ UNCHANGED <<shellOwn, dialogOwn, editorOwn>>
       \/ part = "dialog" /\ DialogNext /\ UNCHANGED <<shellOwn, sessionOwn, editorOwn>>
       \/ part = "editor" /\ EditorNext /\ UNCHANGED <<shellOwn, sessionOwn, dialogOwn>>

Spec == Init /\ [][Next]_<<part, shellVars, sessionVars, dialogVars, editorVars>>
==============================================================================
