----------------------------- MODULE TemplateEditor -----------------------------
(***************************************************************************)
(* The e-mail templates and the maintenance windows in the settings view   *)
(* of the browser client (static/app.js).  Of a template one text stands   *)
(* for subject and bodies; of a window, the day of the week.               *)
(***************************************************************************)
EXTENDS Integers, Sequences, SequencesExt, ClientUser

CONSTANTS Templates, \* names of templates
          Texts,     \* what a template may be, no part of it blank; 0 is its default
          Windows,   \* ids of maintenance windows
          Days,      \* values of day_of_week; 7 is every day
          MaxEditorOps, \* bound: things the user does
          MaxErrors     \* bound: requests that fail

ASSUME TemplateAssumption ==
    /\ Templates # {} /\ Days \subseteq 0..7 /\ 7 \in Days /\ 0 \in Texts /\ None \notin Texts \cup Windows
    /\ None \notin [Templates -> Texts] /\ None \notin [of : Windows \cup {None}, day : Days]
    /\ None \notin [tpl : Templates, text : Texts, stored : BOOLEAN] /\ None \notin [Windows -> Days]
    /\ {MaxEditorOps, MaxErrors} \subseteq Nat

VARIABLES
    db,       \* the server's text of each template
    memory,   \* _emailTplDefaults, or None before the first load
    current,  \* _currentEmailTpl
    form,     \* the text in the form
    original, \* _emailTplOriginal, or None
    dirty,    \* _emailTplDirty
    fetches,    \* GETs on their way: the rows, or None before the server reads
    put,      \* the save on its way: template, text, stored; or None
    resets,   \* restores on their way: the templates, stored
    days,     \* the server's day_of_week of each window
    gets,     \* GETs of the windows for an edit: the id, the rows
    editing,  \* _editingMwId
    window,   \* the form of a window: the window that filled it, the day; or None
    puts,     \* the save of a window on its way: id, day, the window meant, stored
    errors,
    raced     \* ghost: a save overlapped a load, an edit or another tab, or failed

templates == <<db, memory, current, form, original, dirty, fetches, put, resets, raced>>
windows   == <<days, gets, editing, window, puts>>
editorVars == <<templates, windows, ops, errors>>
Does == UserActs(MaxEditorOps) /\ UNCHANGED errors
FailsOnce == errors < MaxErrors /\ errors' = errors + 1 /\ UNCHANGED ops
Goes == UNCHANGED <<ops, errors>>

EveryDay == 7

EditorInit ==
    /\ db \in [Templates -> Texts] /\ memory = None /\ current = CHOOSE t \in Templates : TRUE
    /\ form = 0 /\ original = None /\ dirty = FALSE /\ fetches = <<>> /\ put = None /\ resets = <<>>
    /\ raced = FALSE
    /\ days \in [Windows -> Days] /\ gets = <<>> /\ editing = None /\ window = None /\ puts = <<>>
    /\ ops = 0 /\ errors = 0

-----------------------------------------------------------------------------
(* Templates *)

Busy == put # None \/ resets # <<>>
Fetch == fetches' = Append(fetches, None)

\* renderEmailTplTab: the text typed for the other template is gone.
RenderTab(t) ==
    /\ current' = t
    /\ form' = (IF memory' = None THEN 0 ELSE memory'[t])
    /\ original' = form' /\ dirty' = FALSE

\* The tab E-mail templates: loadEmailTemplates
OpenTemplates ==
    /\ Does /\ Fetch /\ raced' = (raced \/ Busy)
    /\ UNCHANGED <<db, memory, current, form, original, dirty, put, resets, windows>>

Served(k) ==
    /\ fetches[k] = None /\ fetches' = [fetches EXCEPT ![k] = db]
    /\ Goes /\ UNCHANGED <<db, memory, current, form, original, dirty, put, resets, raced, windows>>

Loaded(k) ==
    /\ fetches[k] # None /\ fetches' = RemoveAt(fetches, k)
    /\ memory' = fetches[k] /\ RenderTab(current)
    /\ Goes /\ UNCHANGED <<db, put, resets, raced, windows>>

FetchFailed(k) ==
    /\ FailsOnce /\ fetches' = RemoveAt(fetches, k) /\ raced' = TRUE
    /\ UNCHANGED <<db, memory, current, form, original, dirty, put, resets, windows>>

ChooseTab(t) ==
    /\ t # current /\ Does /\ UNCHANGED memory /\ RenderTab(t)
    /\ raced' = (raced \/ put # None)
    /\ UNCHANGED <<db, fetches, put, resets, windows>>

Edit(text) ==
    /\ text # form /\ Does
    /\ form' = text /\ dirty' = (text # original)
    /\ raced' = (raced \/ put # None)
    /\ UNCHANGED <<db, memory, current, original, fetches, put, resets, windows>>

\* The button is disabled while a save is on its way.
Save ==
    /\ put = None /\ Does
    /\ put' = [tpl |-> current, text |-> form, stored |-> FALSE]
    /\ raced' = (raced \/ fetches # <<>> \/ resets # <<>>)
    /\ UNCHANGED <<db, memory, current, form, original, dirty, fetches, resets, windows>>

Stored ==
    /\ put # None /\ ~put.stored
    /\ db' = [db EXCEPT ![put.tpl] = put.text] /\ put' = [tpl |-> put.tpl, text |-> put.text, stored |-> TRUE]
    /\ Goes /\ UNCHANGED <<memory, current, form, original, dirty, fetches, resets, raced, windows>>

\* Mutant: the text saved is not kept.
SavedForgets ==
    /\ put # None /\ put.stored /\ put' = None
    /\ UNCHANGED memory /\ original' = form /\ dirty' = FALSE
    /\ Goes /\ UNCHANGED <<db, current, form, fetches, resets, raced, windows>>

\* What was sent is kept for the tab that is open now, and what the form holds
\* now is taken for saved.
Saved ==
    /\ put # None /\ put.stored /\ put' = None
    /\ memory' = IF memory = None THEN None ELSE [memory EXCEPT ![current] = put.text]
    /\ original' = form /\ dirty' = FALSE
    /\ Goes /\ UNCHANGED <<db, current, form, fetches, resets, raced, windows>>

SaveFailed ==
    /\ put # None /\ FailsOnce /\ put' = None /\ raced' = TRUE
    /\ UNCHANGED <<db, memory, current, form, original, dirty, fetches, resets, windows>>

\* "Restore to default" of the open tab, or "Reset all"
Restore(S) ==
    /\ Does /\ resets' = Append(resets, [tpls |-> S, stored |-> FALSE])
    /\ raced' = (raced \/ put # None \/ fetches # <<>>)
    /\ UNCHANGED <<db, memory, current, form, original, dirty, fetches, put, windows>>

RestoreStored(k) ==
    /\ ~resets[k].stored /\ resets' = [resets EXCEPT ![k] = [tpls |-> resets[k].tpls, stored |-> TRUE]]
    /\ db' = [t \in Templates |-> IF t \in resets[k].tpls THEN 0 ELSE db[t]]
    /\ Goes /\ UNCHANGED <<memory, current, form, original, dirty, fetches, put, raced, windows>>

Restored(k) ==
    /\ resets[k].stored /\ resets' = RemoveAt(resets, k) /\ Fetch
    /\ raced' = (raced \/ put # None \/ Len(resets) > 1)
    /\ Goes /\ UNCHANGED <<db, memory, current, form, original, dirty, put, windows>>

RestoreFailed(k) ==
    /\ FailsOnce /\ resets' = RemoveAt(resets, k) /\ raced' = TRUE
    /\ UNCHANGED <<db, memory, current, form, original, dirty, fetches, put, windows>>

-----------------------------------------------------------------------------
(* Maintenance windows *)

\* The list is on the screen while the form is not.
EditWindow(w) ==
    /\ window = None /\ Does /\ gets' = Append(gets, [id |-> w, rows |-> None])
    /\ UNCHANGED <<templates, days, editing, window, puts>>

WindowsServed(k) ==
    /\ gets[k].rows = None /\ gets' = [gets EXCEPT ![k] = [id |-> gets[k].id, rows |-> days]]
    /\ Goes /\ UNCHANGED <<templates, days, editing, window, puts>>

\* showMaintenanceForm
ShowForm(w, row) == editing' = w /\ window' = [of |-> w, day |-> row]

\* Answers come in any order, also while the form is already shown.
EditAnswered(k) ==
    /\ gets[k].rows # None /\ gets' = RemoveAt(gets, k)
    /\ ShowForm(gets[k].id, gets[k].rows[gets[k].id])
    /\ Goes /\ UNCHANGED <<templates, days, puts>>

EditFailed(k) ==
    /\ FailsOnce /\ gets' = RemoveAt(gets, k)
    /\ UNCHANGED <<templates, days, editing, window, puts>>

AddWindow ==
    /\ window = None /\ Does /\ ShowForm(None, EveryDay)
    /\ UNCHANGED <<templates, days, gets, puts>>

ChooseDay(d) ==
    /\ window # None /\ window.day # d /\ Does /\ window' = [of |-> window.of, day |-> d]
    /\ UNCHANGED <<templates, days, gets, editing, puts>>

\* parseInt(...) || 7: Sunday, 0, is sent as every day.  The button is disabled
\* until the answer.
SaveWindow ==
    /\ window # None /\ Does
    /\ puts = <<>>
    /\ puts' = Append(puts, [id |-> editing, of |-> window.of, stored |-> FALSE,
                             day |-> IF window.day = 0 THEN EveryDay ELSE window.day])
    /\ UNCHANGED <<templates, days, gets, editing, window>>

WindowStored(k) ==
    /\ ~puts[k].stored /\ puts' = [puts EXCEPT ![k] = [id |-> puts[k].id, of |-> puts[k].of, stored |-> TRUE, day |-> puts[k].day]]
    /\ days' = IF puts[k].id = None THEN days ELSE [days EXCEPT ![puts[k].id] = puts[k].day]
    /\ Goes /\ UNCHANGED <<templates, gets, editing, window>>

HideForm == editing' = None /\ window' = None

\* The answer hides the form, whichever window it shows by then.
WindowSaved(k) ==
    /\ puts[k].stored /\ puts' = RemoveAt(puts, k) /\ HideForm
    /\ Goes /\ UNCHANGED <<templates, days, gets>>

\* The form stays as it is.
WindowSaveFailed(k) ==
    /\ FailsOnce /\ puts' = RemoveAt(puts, k)
    /\ UNCHANGED <<templates, days, gets, editing, window>>

CancelWindow ==
    /\ window # None /\ Does /\ HideForm
    /\ UNCHANGED <<templates, days, gets, puts>>

EditorNext ==
    \/ OpenTemplates \/ Save \/ Stored \/ Saved \/ SaveFailed \/ Restore({current}) \/ Restore(Templates)
    \/ \E k \in DOMAIN fetches : Served(k) \/ Loaded(k) \/ FetchFailed(k)
    \/ \E k \in DOMAIN resets : RestoreStored(k) \/ Restored(k) \/ RestoreFailed(k)
    \/ \E t \in Templates : ChooseTab(t)
    \/ \E text \in Texts : Edit(text)
    \/ \E w \in Windows : EditWindow(w)
    \/ \E k \in DOMAIN gets : WindowsServed(k) \/ EditAnswered(k) \/ EditFailed(k)
    \/ \E d \in Days : ChooseDay(d)
    \/ \E k \in DOMAIN puts : WindowStored(k) \/ WindowSaved(k) \/ WindowSaveFailed(k)
    \/ AddWindow \/ SaveWindow \/ CancelWindow

EditorSpec == EditorInit /\ [][EditorNext]_editorVars

-----------------------------------------------------------------------------
(* Properties *)

Table == [Templates -> Texts]
Rows  == [Windows -> Days]
Get   == [id : Windows, rows : Rows \cup {None}]
Reset == [tpls : SUBSET Templates, stored : BOOLEAN]
Put   == [id : Windows \cup {None}, of : Windows \cup {None}, stored : BOOLEAN, day : Days]

\* Every variable holds values of its type.
EditorTypeOK ==
    /\ db \in Table /\ memory \in Table \cup {None} /\ current \in Templates
    /\ form \in Texts /\ original \in Texts \cup {None} /\ dirty \in BOOLEAN /\ raced \in BOOLEAN
    /\ fetches \in Seq(Table \cup {None})
    /\ put \in [tpl : Templates, text : Texts, stored : BOOLEAN] \cup {None}
    /\ resets \in Seq(Reset)
    /\ days \in Rows /\ gets \in Seq(Get) /\ puts \in Seq(Put)
    /\ editing \in Windows \cup {None} /\ window \in [of : Windows \cup {None}, day : Days] \cup {None}
    /\ ops \in Nat /\ errors \in Nat

\* When everything is answered, a template that is not marked as changed is
\* shown as the server has it, whichever tabs were opened, saved and restored;
\* but not after a save that overlapped an edit, a tab, a load or a restore,
\* or after one whose answer was lost.
UnmarkedIsStored ==
    memory # None /\ fetches = <<>> /\ ~Busy /\ ~raced /\ ~dirty => form = db[current]

\* A save of a maintenance window goes to the window whose row filled the
\* form, although the rows are asked for at each edit and answers overtake
\* each other: no window gets another's times.
SavesOwnWindow == \A k \in DOMAIN puts : puts[k].id = puts[k].of
==============================================================================
