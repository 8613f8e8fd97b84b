----------------------------- MODULE SettingsForms -----------------------------
(***************************************************************************)
(* The settings view of the browser client (static/app.js): the fields of  *)
(* four forms, what each was filled with, the flags behind "Unsaved        *)
(* changes", the copy of the settings kept in sessionStorage, and the      *)
(* requests that load, save and import settings.                           *)
(*                                                                         *)
(* One field stands for each way a field is treated.                       *)
(***************************************************************************)
EXTENDS Integers, Sequences, SequencesExt, ClientUser

CONSTANTS Values,    \* what a field can have on the server; 0 is its default
          Blank,     \* a number field of the security form left empty or at zero
          MaxOps,    \* bound: things the user does
          MaxErrors  \* bound: requests that fail

MainFields == {"server", "threshold"} \* server: kept in .env, never stored
HookFields == {"hook", "on"}          \* on: a check box, stored as a boolean
Settings   == MainFields \cup HookFields \cup {"title"}
SecurityFields == {"policy", "retention"} \* log_retention_days is one of the settings
Fields     == Settings \cup SecurityFields

\* The fields of each form, by its button
FieldsOf(by) == CASE by = "main" -> MainFields [] by = "hooks" -> HookFields
                  [] by = "status" -> {"title"} [] by = "security" -> SecurityFields
                  [] by = "import" -> Fields \ {"server"}
Forms  == {"main", "hooks", "status", "security"}
Savers == Forms \cup {"import"}

Shown == Values \cup {Blank}

\* A load on its way: the GETs that are due and what the others have brought.
\* loadSettings is one, loadSecuritySettings two at a time.
Get == {g \in [for : {"settings", "policy"}, due : SUBSET {"settings", "security"},
                rows : [Fields -> Values \cup {None}]] :
          /\ g.for = "settings" /\ "settings" \notin g.due => \A f \in Settings : g.rows[f] # None
          /\ g.for = "policy" /\ "security" \notin g.due => g.rows["policy"] # None}

\* A save on its way
Put == [sent : UNION {[S -> Values] : S \in SUBSET Fields}, form : [Fields -> Shown],
        touched : SUBSET Fields, at : {"sent", "stored", "logging"}]

ASSUME SettingsAssumption ==
    /\ {0, 1} \subseteq Values /\ Blank \notin Values /\ None \notin Shown \cup Put
    /\ {MaxOps, MaxErrors} \subseteq Nat

VARIABLES
    db,       \* the server's value of each field
    form,     \* what each field holds
    password, \* is there text in smtp_password
    original, \* _settingsOriginal and _securityOriginal; None while they are {}
    dirty,    \* _settingsDirty, _securityDirty
    stored,   \* sessionStorage 'vigil-settings', or None
    gets,     \* loads on their way
    puts,     \* the save each form has on its way, or None, with the fields
              \* sent and the form and the touched fields at that time
    leaving,  \* an import is about to reload the page
    errors,
    clean,    \* what each field was last filled with or saved as
    touched,  \* fields not filled, or changed by the user since they were
    assumed,  \* the security form was filled without an answer about the retention
    slipped,  \* a save took edits it had not sent for saved
    raced     \* a save overlapped a load or a save, or was stored in part or
              \* without an answer

formVars == <<db, form, password, original, dirty, stored, gets, puts, leaving, ops, errors,
          clean, touched, assumed, slipped, raced>>
ghosts  == <<clean, touched, assumed, slipped, raced>>
screen  == <<form, password, original, dirty>>
network == <<gets, puts, leaving>>

NoneOf(S) == [f \in S |-> None]
Saving == \E by \in Savers : puts[by] # None
Does == UserActs(MaxOps) /\ UNCHANGED errors
Fails == errors < MaxErrors /\ errors' = errors + 1 /\ UNCHANGED ops

\* getSettingsFormData differs from what the form was filled with.
SettingsDiffer == \E f \in Settings : form'[f] # original'[f]

SecurityDiffers == \E f \in SecurityFields : form'[f] # original'[f]

\* updateUnsavedIndicator, with what _securityDirty became before it
UpdateIndicator(security) == dirty' = [settings |-> SettingsDiffer, security |-> security]

FormsInit ==
    /\ db \in {[f \in Fields |-> IF f = "on" THEN v ELSE 0] : v \in {0, 1}}
    /\ form = [f \in Fields |-> 0] /\ password = FALSE
    /\ original = NoneOf(Fields) /\ dirty = [settings |-> FALSE, security |-> FALSE]
    /\ stored = None /\ gets = <<>> /\ puts = NoneOf(Savers) /\ leaving = FALSE
    /\ ops = 0 /\ errors = 0
    /\ clean = NoneOf(Fields) /\ touched = Fields /\ assumed = FALSE
    /\ slipped = FALSE /\ raced = FALSE

-----------------------------------------------------------------------------
(* Loading *)

\* populateSettingsForm.  A stored boolean is compared with the number 0, so
\* its box is ticked whether it is true or false.
Populate(s) ==
    /\ form' = [f \in Fields |-> IF f = "on" THEN 1 ELSE IF f \in Settings THEN s[f] ELSE form[f]]
    /\ password' = FALSE
    /\ original' = [f \in Fields |-> IF f \in Settings THEN form'[f] ELSE original[f]]
    /\ UpdateIndicator(dirty.security)
    /\ clean' = [f \in Fields |-> IF f \in Settings THEN form'[f] ELSE clean[f]]
    /\ touched' = touched \ Settings

Load(for, due) == [for |-> for, due |-> due, rows |-> NoneOf(Fields)]

\* loadSettings: from sessionStorage, or by a GET; loadSecuritySettings always by
\* two.
Open ==
    /\ Does
    /\ LET policy == Load("policy", {"security", "settings"}) IN
         IF stored # None
         THEN Populate(stored) /\ gets' = Append(gets, policy)
         ELSE /\ gets' = gets \o <<Load("settings", {"settings"}), policy>>
              /\ UNCHANGED screen /\ UNCHANGED <<clean, touched>>
    /\ raced' = (raced \/ Saving \/ leaving)
    /\ UNCHANGED <<db, stored, puts, leaving, assumed, slipped>>

\* What a load takes from the answer to one of its GETs
Reads(for, from) ==
    IF from = "security" THEN {"policy"} ELSE IF for = "policy" THEN {"retention"} ELSE Settings

Served(k, from) ==
    /\ from \in gets[k].due
    /\ gets' = [gets EXCEPT ![k].due = @ \ {from},
                            ![k].rows = [f \in Fields |-> IF f \in Reads(gets[k].for, from)
                                                         THEN db[f] ELSE @[f]]]
    /\ UNCHANGED <<db, screen, stored, puts, leaving, ops, errors, ghosts>>

\* loadSecuritySettings goes on without an answer to GET /api/settings.
RestLost(k) ==
    /\ gets[k].for = "policy" /\ "settings" \in gets[k].due /\ Fails
    /\ gets' = [gets EXCEPT ![k].due = @ \ {"settings"}]
    /\ UNCHANGED <<db, screen, stored, puts, leaving, ghosts>>

SettingsLoaded(k) ==
    /\ gets[k].for = "settings" /\ gets[k].due = {}
    /\ gets' = RemoveAt(gets, k)
    /\ stored' = [f \in Settings |-> gets[k].rows[f]]
    /\ Populate(stored')
    /\ UNCHANGED <<db, puts, leaving, ops, errors, assumed, slipped, raced>>

\* Mutant: the form is filled with what it was filled with before.
PolicyLoadedFromOriginal(k) ==
    /\ gets[k].for = "policy" /\ gets[k].due = {}
    /\ gets' = RemoveAt(gets, k)
    /\ form' = [form EXCEPT !.policy = original.policy]
    /\ original' = [original EXCEPT !.policy = form'.policy]
    /\ UpdateIndicator(FALSE)
    /\ clean' = [clean EXCEPT !.policy = form'.policy]
    /\ touched' = touched \ SecurityFields
    /\ UNCHANGED <<db, password, stored, puts, leaving, ops, errors, assumed, slipped, raced>>

\* loadSecuritySettings: without an answer about it the retention is shown at its
\* default, and that is taken for loaded.
PolicyLoaded(k) ==
    /\ gets[k].for = "policy" /\ gets[k].due = {}
    /\ gets' = RemoveAt(gets, k)
    /\ assumed' = (gets[k].rows.retention = None)
    /\ form' = [form EXCEPT !.policy = gets[k].rows.policy,
                            !.retention = IF assumed' THEN 0 ELSE gets[k].rows.retention]
    /\ original' = [f \in Fields |-> IF f \in SecurityFields THEN form'[f] ELSE original[f]]
    /\ UpdateIndicator(FALSE)
    /\ clean' = [f \in Fields |-> IF f \in SecurityFields THEN form'[f] ELSE clean[f]]
    /\ touched' = touched \ SecurityFields
    /\ UNCHANGED <<db, password, stored, puts, leaving, ops, errors, slipped, raced>>

LoadFailed(k) ==
    /\ Fails /\ gets' = RemoveAt(gets, k)
    /\ UNCHANGED <<db, screen, stored, puts, leaving, ghosts>>

-----------------------------------------------------------------------------
(* Editing *)

\* The settings and webhooks forms listen for input, and so does the security
\* form; the form of the status page does not.
Edit(f, v) ==
    /\ Does /\ v # form[f] /\ (v = Blank => f \in SecurityFields)
    /\ form' = [form EXCEPT ![f] = v] /\ touched' = touched \cup {f}
    /\ UNCHANGED <<db, password, original, stored, network, clean, assumed, slipped, raced>>
    /\ CASE f = "title"             -> UNCHANGED dirty
         [] f \in SecurityFields     -> UpdateIndicator(SecurityDiffers)
         [] OTHER                    -> UpdateIndicator(dirty.security)

TypePassword ==
    /\ Does /\ password' = TRUE
    /\ UNCHANGED <<db, form, original, stored, network, ghosts>>
    /\ UpdateIndicator(dirty.security)

\* reset-smtp
ResetSmtp ==
    /\ Does /\ password' = FALSE
    /\ form' = [f \in Fields |-> IF f \in MainFields THEN 0 ELSE form[f]]
    /\ touched' = touched \cup MainFields
    /\ UNCHANGED <<db, original, stored, network, clean, assumed, slipped, raced>>
    /\ UpdateIndicator(dirty.security)

\* reset-security
ResetSecurity ==
    /\ Does
    /\ form' = [form EXCEPT !.policy = 0, !.retention = 0]
    /\ touched' = touched \cup SecurityFields
    /\ UNCHANGED <<db, password, original, stored, network, clean, assumed, slipped, raced>>
    /\ UpdateIndicator(SecurityDiffers)

-----------------------------------------------------------------------------
(* Saving *)

\* parseInt(x) || default, for the numbers of the security form
Coerced(v) == IF v = Blank THEN 0 ELSE v

Send(by, fields) ==
    /\ Does /\ puts[by] = None
    /\ puts' = [puts EXCEPT ![by] = [sent |-> [f \in fields |-> Coerced(form[f])], form |-> form,
                                     touched |-> touched, at |-> "sent"]]
    /\ raced' = (raced \/ gets # <<>> \/ Saving)
    /\ UNCHANGED <<db, screen, stored, gets, leaving, clean, touched, assumed, slipped>>

\* Mutant: every field is sent, not the changed ones.
SaveMainWhole ==
    /\ password \/ \E f \in Settings : form[f] # original[f]
    /\ Send("main", Settings)

\* The settings form sends the fields of getSettingsFormData that changed, of
\* whichever form they are, if any did or a password was typed: all of them
\* when the form was not filled yet.
SaveMain ==
    /\ password \/ \E f \in Settings : form[f] # original[f]
    /\ Send("main", {f \in Settings : form[f] # original[f]})

\* The other forms send all their fields.
Save(by) == by \in Forms \ {"main"} /\ Send(by, FieldsOf(by))

\* A file with settings: one value for every field that is stored
Import ==
    /\ Does /\ puts["import"] = None
    /\ \E v \in Values :
         puts' = [puts EXCEPT !["import"] = [sent |-> [f \in FieldsOf("import") |-> v],
                                             form |-> form, touched |-> Fields, at |-> "sent"]]
    /\ raced' = (raced \/ gets # <<>> \/ Saving)
    /\ UNCHANGED <<db, screen, stored, gets, leaving, clean, touched, assumed, slipped>>

\* PUT /api/settings and its like: update_settings skips what .env manages.
Store(by) ==
    /\ puts[by] # None /\ puts[by].at = "sent"
    /\ db' = [f \in Fields |-> IF f \in DOMAIN puts[by].sent \ {"server"}
                               THEN puts[by].sent[f] ELSE db[f]]
    /\ puts' = [puts EXCEPT ![by].at = "stored"]
    /\ UNCHANGED <<screen, stored, gets, leaving, ops, errors, ghosts>>

Accepted(by) ==
    /\ puts[by] # None /\ puts[by].at = "stored"
    /\ clean' = [f \in Fields |-> IF f \in DOMAIN puts[by].sent THEN puts[by].sent[f] ELSE clean[f]]
    /\ touched' = touched \ {f \in DOMAIN puts[by].sent : form[f] = puts[by].sent[f]}
    /\ UNCHANGED <<db, form, password, gets, leaving, ops, errors, raced>>

\* Mutant: the fields as they are now are taken for saved, not those sent.
MainSavedNow ==
    /\ Accepted("main")
    /\ original' = [f \in Fields |-> IF f \in Settings THEN form[f] ELSE original[f]]
    /\ UpdateIndicator(dirty.security)
    /\ puts' = [puts EXCEPT !["main"].at = "logging"]
    /\ UNCHANGED <<stored, assumed, slipped>>

\* The settings form compares from now on with what it sent; the log entry comes
\* before sessionStorage is cleared.
MainSaved ==
    /\ Accepted("main")
    /\ original' = [f \in Fields |-> IF f \in Settings THEN puts["main"].form[f] ELSE original[f]]
    /\ UpdateIndicator(dirty.security)
    /\ puts' = [puts EXCEPT !["main"].at = "logging"]
    /\ UNCHANGED <<stored, assumed, slipped>>

\* Mutant: the copy in sessionStorage is kept.
MainLoggedKeepsCopy ==
    /\ puts["main"] # None /\ puts["main"].at = "logging"
    /\ puts' = [puts EXCEPT !["main"] = None]
    /\ UNCHANGED <<db, screen, stored, gets, leaving, ops, errors, ghosts>>

MainLogged ==
    /\ puts["main"] # None /\ puts["main"].at = "logging"
    /\ puts' = [puts EXCEPT !["main"] = None]
    /\ stored' = None
    /\ UNCHANGED <<db, screen, gets, leaving, ops, errors, ghosts>>

\* Webhooks and status page: all fields of all three forms are taken for saved.
OtherSaved(by) ==
    /\ by \in {"hooks", "status"} /\ Accepted(by)
    /\ original' = [f \in Fields |-> IF f \in Settings THEN form[f] ELSE original[f]]
    /\ UpdateIndicator(dirty.security)
    /\ puts' = [puts EXCEPT ![by] = None] /\ stored' = None
    /\ slipped' = (slipped \/ \E f \in Settings : form[f] # clean'[f])
    /\ UNCHANGED assumed

\* What was typed is taken for saved, also where another value was sent.
SecuritySaved ==
    /\ Accepted("security")
    /\ original' = [f \in Fields |-> IF f \in SecurityFields THEN form[f] ELSE original[f]]
    /\ UpdateIndicator(FALSE)
    /\ puts' = [puts EXCEPT !["security"] = None]
    /\ slipped' = (slipped \/ \E f \in SecurityFields : form[f] # puts["security"].form[f])
    /\ assumed' = FALSE
    /\ UNCHANGED stored

\* 1.5 s later the page is loaded again.
Imported ==
    /\ puts["import"] # None /\ puts["import"].at = "stored"
    /\ puts' = [puts EXCEPT !["import"] = None]
    /\ stored' = None /\ leaving' = TRUE
    /\ UNCHANGED <<db, screen, gets, ops, errors, ghosts>>

\* A request or its answer is lost, or the server refuses: nothing changes here.
SaveFailed(by) ==
    /\ puts[by] # None /\ puts[by].at # "logging" /\ Fails
    /\ puts' = [puts EXCEPT ![by] = None]
    /\ raced' = (raced \/ puts[by].at = "stored")
    /\ UNCHANGED <<db, screen, stored, gets, leaving, clean, touched, assumed, slipped>>

\* Two tables are written one after the other, and the second write can fail: by
\* the security form its own table first, by an import the settings.
StoredInPart(by) ==
    /\ by \in {"security", "import"} /\ puts[by] # None /\ puts[by].at = "sent" /\ Fails
    /\ LET first == {f \in DOMAIN puts[by].sent : by = "security" <=> f = "policy"} IN
         db' = [f \in Fields |-> IF f \in first THEN puts[by].sent[f] ELSE db[f]]
    /\ puts' = [puts EXCEPT ![by] = None] /\ raced' = TRUE
    /\ UNCHANGED <<screen, stored, gets, leaving, clean, touched, assumed, slipped>>

Reload ==
    /\ leaving /\ leaving' = FALSE
    /\ form' = [f \in Fields |-> 0] /\ password' = FALSE
    /\ original' = NoneOf(Fields) /\ dirty' = [settings |-> FALSE, security |-> FALSE]
    /\ gets' = <<>> /\ puts' = NoneOf(Savers)
    /\ clean' = NoneOf(Fields) /\ touched' = Fields /\ assumed' = FALSE
    /\ slipped' = FALSE /\ raced' = (raced \/ Saving)
    /\ UNCHANGED <<db, stored, ops, errors>>

FormsNext ==
    \/ Open
    \/ \E k \in DOMAIN gets : \/ \E from \in {"settings", "security"} : Served(k, from)
                              \/ SettingsLoaded(k) \/ PolicyLoaded(k)
                              \/ RestLost(k) \/ LoadFailed(k)
    \/ \E f \in Fields, v \in Shown : Edit(f, v)
    \/ TypePassword \/ ResetSmtp \/ ResetSecurity
    \/ SaveMain \/ MainSaved \/ MainLogged \/ SecuritySaved
    \/ Import \/ Imported \/ Reload
    \/ \E by \in Savers : \/ Save(by) \/ Store(by) \/ StoredInPart(by)
                             \/ OtherSaved(by) \/ SaveFailed(by)

FormsSpec == FormsInit /\ [][FormsNext]_formVars

-----------------------------------------------------------------------------
(* Properties *)

Quiet == gets = <<>> /\ ~Saving /\ ~leaving
Unsaved(f) == clean[f] # None /\ form[f] # clean[f]

\* A number the security form was saved with blank: the server has the default,
\* the form goes on with the blank.
SavedBlank(f) == f \in SecurityFields /\ form[f] = Blank /\ original[f] = Blank

\* Every variable holds values of its type.
FormsTypeOK ==
    LET Held == Shown \cup {None} IN
    /\ db \in [Fields -> Values] /\ form \in [Fields -> Shown] /\ password \in BOOLEAN
    /\ original \in [Fields -> Held] /\ clean \in [Fields -> Values \cup {None}]
    /\ dirty \in [settings : BOOLEAN, security : BOOLEAN]
    /\ stored = None \/ stored \in [Settings -> Values]
    /\ gets \in Seq(Get) /\ puts \in [Savers -> Put \cup {None}]
    /\ {leaving, assumed, slipped, raced} \subseteq BOOLEAN /\ touched \subseteq Fields
    /\ ops \in Nat /\ errors \in 0..MaxErrors

\* While a field holds what was neither loaded nor saved, "Unsaved changes" is
\* on, also when the edit was made while a save of the settings form was on its
\* way: but for the status page, for edits other forms took for saved, and for
\* numbers the security form was saved with blank.  A save of the settings form
\* that overlaps one of another form takes what that one saved for unsaved, and
\* going back to the value before it for saved.
EditsAreWarned ==
    ~slipped => /\ ~raced /\ (\E f \in Settings \ {"title"} : Unsaved(f)) => dirty.settings
                /\ (\E f \in SecurityFields : Unsaved(f) /\ ~SavedBlank(f)) => dirty.security

\* What a field was filled with or saved as is what the server has, once
\* everything is answered: but for the check boxes, which are shown ticked, what
\* .env manages, which is not saved, and a retention shown without an answer
\* about it.
CleanIsStored ==
    Quiet /\ ~raced =>
        \A f \in Fields \ {"server", "on"} :
            clean[f] # None /\ ~(f = "retention" /\ assumed) => clean[f] = db[f]

\* "Delta save: only send changed fields": once it was filled, the settings
\* form stores no field the user left alone since, although some fields do not
\* show what is stored.  A save that overlaps the load can.
DeltaOnly ==
    [][\A f \in Fields : ~raced /\ Store("main") /\ db'[f] # db[f] => f \in puts["main"].touched]_formVars
==============================================================================
