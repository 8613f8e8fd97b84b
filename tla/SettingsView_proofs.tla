-------------------------- MODULE SettingsView_proofs --------------------------
(***************************************************************************)
(* Proofs about the settings forms, for any values of the fields and any   *)
(* number of loads, saves, imports and failures, about the lists of        *)
(* administration, for any rows, size of a page and number of requests,    *)
(* and about the two as parts of one view.                                 *)
(***************************************************************************)
EXTENDS MCSettingsView, SequenceTheorems, FiniteSetTheorems, TLAPS

-------------------------------------------------------------------------------
(* Sequences *)

(* A sequence stays one when an element goes or comes. *)
LEMMA RemoveAtSeq ==
  ASSUME NEW S, NEW s \in Seq(S), NEW k \in DOMAIN s
  PROVE  RemoveAt(s, k) \in Seq(S)
<1>1. k \in 1..Len(s)
  OBVIOUS
<1>2. SubSeq(s, 1, k - 1) \in Seq(S)
  BY <1>1
<1>3. SubSeq(s, k + 1, Len(s)) \in Seq(S)
  BY <1>1
<1> QED
  BY <1>2, <1>3 DEF RemoveAt

LEMMA AppendSeq ==
  ASSUME NEW S, NEW s \in Seq(S), NEW e \in S
  PROVE  Append(s, e) \in Seq(S)
OBVIOUS

LEMMA OneReplacedSeq ==
  ASSUME NEW S, NEW s \in Seq(S), NEW k \in DOMAIN s, NEW e \in S
  PROVE  [s EXCEPT ![k] = e] \in Seq(S)
OBVIOUS

LEMMA ConcatTwo ==
  ASSUME NEW S, NEW s \in Seq(S), NEW d \in S, NEW e \in S
  PROVE  s \o <<d, e>> \in Seq(S)
<1>1. <<d, e>> \in Seq(S)
  OBVIOUS
<1> QED
  BY <1>1

-------------------------------------------------------------------------------
(* The settings forms: types *)

LEMMA FormsInitType == FormsInit => FormsTypeOK
<1> SUFFICES ASSUME FormsInit PROVE FormsTypeOK
  OBVIOUS
<1>1. gets \in Seq(Get)
  BY EmptySeq DEF FormsInit
<1>2. puts \in [Savers -> Put \cup {None}]
  BY DEF FormsInit, NoneOf
<1>3. db \in [Fields -> Values] /\ form \in [Fields -> Shown]
  BY SettingsAssumption DEF FormsInit, Shown
<1>4. original \in [Fields -> Shown \cup {None}] /\ clean \in [Fields -> Values \cup {None}]
  BY DEF FormsInit, NoneOf
<1>5. dirty \in [settings : BOOLEAN, security : BOOLEAN]
  BY DEF FormsInit
<1>6. ops \in Nat /\ errors \in 0..MaxErrors
  BY SettingsAssumption DEF FormsInit
<1>7. password \in BOOLEAN /\ {leaving, assumed, slipped, raced} \subseteq BOOLEAN /\ touched \subseteq Fields
  BY DEF FormsInit
<1>8. stored = None
  BY DEF FormsInit
<1> QED
  BY <1>1, <1>2, <1>3, <1>4, <1>5, <1>6, <1>7, <1>8 DEF FormsTypeOK

(* The flags are Booleans, whatever the security form gave.                *)
LEMMA IndicatorType ==
  ASSUME NEW b \in BOOLEAN, UpdateIndicator(b)
  PROVE  dirty' \in [settings : BOOLEAN, security : BOOLEAN]
<1>1. SettingsDiffer \in BOOLEAN
  BY DEF SettingsDiffer
<1> HIDE DEF SettingsDiffer
<1> QED
  BY <1>1 DEF UpdateIndicator

(* What populateSettingsForm leaves is of the types of the fields.         *)
LEMMA PopulateType ==
  ASSUME FormsTypeOK, NEW s \in [Settings -> Values], Populate(s)
  PROVE  /\ form' \in [Fields -> Shown] /\ password' \in BOOLEAN
         /\ original' \in [Fields -> Shown \cup {None}] /\ clean' \in [Fields -> Values \cup {None}]
         /\ dirty' \in [settings : BOOLEAN, security : BOOLEAN] /\ touched' \subseteq Fields
<1>1. 1 \in Values /\ form \in [Fields -> Shown] /\ clean \in [Fields -> Values \cup {None}]
      /\ original \in [Fields -> Shown \cup {None}] /\ touched \subseteq Fields
  BY SettingsAssumption DEF FormsTypeOK
<1>2. \A f \in Settings : (IF f = "on" THEN 1 ELSE s[f]) \in Values
  BY <1>1
<1>3. /\ form' = [f \in Fields |-> IF f = "on" THEN 1 ELSE IF f \in Settings THEN s[f] ELSE form[f]]
      /\ original' = [f \in Fields |-> IF f \in Settings THEN form'[f] ELSE original[f]]
      /\ clean' = [f \in Fields |-> IF f \in Settings THEN form'[f] ELSE clean[f]]
      /\ password' = FALSE /\ touched' = touched \ Settings /\ UpdateIndicator(dirty.security)
  BY DEF Populate
<1>4. form' \in [Fields -> Shown] /\ \A f \in Settings : f \in Fields => form'[f] \in Values
  BY <1>1, <1>2, <1>3 DEF Shown
<1>5. original' \in [Fields -> Shown \cup {None}]
  BY <1>1, <1>3, <1>4
<1>6. clean' \in [Fields -> Values \cup {None}]
  BY <1>1, <1>3, <1>4
<1>7. dirty.security \in BOOLEAN
  BY DEF FormsTypeOK
<1>8. dirty' \in [settings : BOOLEAN, security : BOOLEAN]
  BY <1>3, <1>7, IndicatorType
<1> QED
  BY <1>1, <1>3, <1>4, <1>5, <1>6, <1>8

(* A load that is due, and one whose GET is answered or lost.              *)
LEMMA GetTypes ==
  ASSUME FormsTypeOK, NEW g \in Get
  PROVE  /\ \A f : f \in Fields => g.rows[f] \in Values \cup {None}
         /\ g.for = "settings" /\ g.due = {} => \A f \in Settings : g.rows[f] \in Values
         /\ g.for = "policy" /\ g.due = {} => g.rows["policy"] \in Values
         /\ g.for = "policy" => [g EXCEPT !.due = @ \ {"settings"}] \in Get
         /\ \A from \in g.due :
              [g EXCEPT !.due = @ \ {from},
                        !.rows = [f \in Fields |-> IF f \in Reads(g.for, from) THEN db[f] ELSE @[f]]]
                \in Get
<1>1. /\ g.for \in {"settings", "policy"} /\ g.due \subseteq {"settings", "security"}
      /\ g.rows \in [Fields -> Values \cup {None}]
      /\ g.for = "settings" /\ "settings" \notin g.due => \A f \in Settings : g.rows[f] # None
      /\ g.for = "policy" /\ "security" \notin g.due => g.rows["policy"] # None
  BY DEF Get
<1>2. Settings \subseteq Fields /\ "policy" \in Fields /\ None \notin Values
  BY SettingsAssumption DEF Fields, SecurityFields, Shown
<1>3. g.for = "policy" => [g EXCEPT !.due = @ \ {"settings"}] \in Get
  <2> SUFFICES ASSUME g.for = "policy" PROVE [g EXCEPT !.due = @ \ {"settings"}] \in Get
    OBVIOUS
  <2> DEFINE h == [g EXCEPT !.due = @ \ {"settings"}]
  <2>1. /\ h \in [for : {"settings", "policy"}, due : SUBSET {"settings", "security"},
                   rows : [Fields -> Values \cup {None}]]
        /\ h.for = "policy" /\ h.rows = g.rows /\ h.due = g.due \ {"settings"}
    BY DEF Get
  <2>2. "security" \notin h.due => h.rows["policy"] # None
    BY <1>1, <2>1
  <2> HIDE DEF h
  <2>3. h \in Get
    BY <2>1, <2>2 DEF Get
  <2> QED
    BY <2>3 DEF h
<1>4. ASSUME NEW from \in g.due
      PROVE  [g EXCEPT !.due = @ \ {from},
                       !.rows = [f \in Fields |-> IF f \in Reads(g.for, from) THEN db[f] ELSE @[f]]]
               \in Get
  <2> DEFINE rows == [f \in Fields |-> IF f \in Reads(g.for, from) THEN db[f] ELSE g.rows[f]]
             h == [g EXCEPT !.due = @ \ {from}, !.rows = rows]
  <2>1. db \in [Fields -> Values]
    BY DEF FormsTypeOK
  <2>2. rows \in [Fields -> Values \cup {None}]
    BY <1>1, <2>1
  <2>3. \A f \in Fields : rows[f] = IF f \in Reads(g.for, from) THEN db[f] ELSE g.rows[f]
    OBVIOUS
  <2>4. g.for = "settings" /\ from = "settings" => \A f \in Settings : rows[f] # None
    BY <1>2, <2>1, <2>3 DEF Reads
  <2>5. g.for = "settings" /\ "settings" \notin g.due => \A f \in Settings : rows[f] # None
    BY <1>1, <1>2, <2>1, <2>3
  <2>6. g.for = "policy" /\ (from = "security" \/ "security" \notin g.due) => rows["policy"] # None
    BY <1>1, <1>2, <2>1, <2>3 DEF Reads
  <2> HIDE DEF rows
  <2>7. /\ h \in [for : {"settings", "policy"}, due : SUBSET {"settings", "security"},
                   rows : [Fields -> Values \cup {None}]]
        /\ h.for = g.for /\ h.rows = rows /\ h.due = g.due \ {from}
    BY <2>2 DEF Get
  <2> HIDE DEF h
  <2>8. h \in Get
    BY <2>4, <2>5, <2>6, <2>7 DEF Get
  <2> QED
    BY <2>8 DEF h, rows
<1>5. /\ g.for = "settings" /\ g.due = {} => \A f \in Settings : g.rows[f] \in Values
      /\ g.for = "policy" /\ g.due = {} => g.rows["policy"] \in Values
  BY <1>1, <1>2
<1> QED
  BY <1>1, <1>3, <1>4, <1>5

LEMMA LoadType ==
  /\ Load("settings", {"settings"}) \in Get
  /\ Load("policy", {"security", "settings"}) \in Get
BY DEF Load, NoneOf, Get

LEMMA FormsTypeStep == FormsTypeOK /\ [FormsNext]_formVars => FormsTypeOK'
<1> SUFFICES ASSUME FormsTypeOK, [FormsNext]_formVars PROVE FormsTypeOK'
  OBVIOUS
<1>0. 0 \in Values /\ None \notin Values /\ Values \subseteq Shown
  BY SettingsAssumption DEF Shown
<1>a. gets \in Seq(Get) /\ db \in [Fields -> Values]
  BY DEF FormsTypeOK
<1>b. ASSUME Does \/ UNCHANGED <<ops, errors>> \/ Fails PROVE ops' \in Nat /\ errors' \in 0..MaxErrors
  BY <1>b, SettingsAssumption DEF Does, Fails, UserActs, FormsTypeOK
<1>11. dirty.security \in BOOLEAN
  BY DEF FormsTypeOK
<1>1. CASE Open
  <2>1. gets' \in Seq(Get)
    <3>1. \/ gets' = Append(gets, Load("policy", {"security", "settings"}))
          \/ gets' = gets \o <<Load("settings", {"settings"}), Load("policy", {"security", "settings"})>>
      BY <1>1 DEF Open
    <3> QED
      BY <1>a, <3>1, LoadType, AppendSeq, ConcatTwo
  <2>2. raced' \in BOOLEAN /\ UNCHANGED <<db, stored, puts, leaving, assumed, slipped>> /\ Does
    BY <1>1 DEF Open, FormsTypeOK, Saving
  <2>3. CASE stored # None
    <3>1. Populate(stored) /\ stored \in [Settings -> Values]
      BY <1>1, <2>3 DEF Open, FormsTypeOK
    <3> QED
      BY <1>b, <2>1, <2>2, <3>1, PopulateType DEF FormsTypeOK
  <2>4. CASE stored = None
    BY <1>1, <1>b, <2>1, <2>2, <2>4 DEF Open, FormsTypeOK, screen
  <2> QED
    BY <2>3, <2>4
<1>2. ASSUME NEW k \in DOMAIN gets, NEW from, Served(k, from) PROVE FormsTypeOK'
  <2>1. gets[k] \in Get
    BY <1>a
  <2> DEFINE h == [gets[k] EXCEPT !.due = @ \ {from},
                     !.rows = [f \in Fields |-> IF f \in Reads(gets[k].for, from) THEN db[f] ELSE @[f]]]
  <2>2. h \in Get
    BY <1>2, <2>1, GetTypes DEF Served
  <2>3. gets' = [gets EXCEPT ![k] = h]
    BY <1>2, <1>a DEF Served
  <2> HIDE DEF h
  <2>4. gets' \in Seq(Get)
    BY <1>a, <2>2, <2>3, OneReplacedSeq
  <2> QED
    BY <1>2, <2>4 DEF Served, FormsTypeOK, screen, ghosts
<1>19. ASSUME NEW k \in DOMAIN gets, RestLost(k) PROVE FormsTypeOK'
  <2>1. gets[k] \in Get
    BY <1>a
  <2> DEFINE h == [gets[k] EXCEPT !.due = @ \ {"settings"}]
  <2>2. h \in Get
    BY <1>19, <2>1, GetTypes DEF RestLost
  <2>3. gets' = [gets EXCEPT ![k] = h]
    BY <1>19, <1>a DEF RestLost
  <2> HIDE DEF h
  <2>4. gets' \in Seq(Get)
    BY <1>a, <2>2, <2>3, OneReplacedSeq
  <2> QED
    BY <1>19, <1>b, <2>4 DEF RestLost, FormsTypeOK, screen, ghosts
<1>3. ASSUME NEW k \in DOMAIN gets, SettingsLoaded(k) \/ PolicyLoaded(k) \/ LoadFailed(k)
      PROVE  FormsTypeOK'
  <2>1. gets[k] \in Get
    BY <1>a
  <2>2. gets' \in Seq(Get)
    BY <1>3, <1>a, RemoveAtSeq DEF SettingsLoaded, PolicyLoaded, LoadFailed
  <2>3. CASE SettingsLoaded(k)
    <3>1. stored' \in [Settings -> Values]
      <4>1. \A f \in Settings : gets[k].rows[f] \in Values
        BY <2>1, <2>3, GetTypes DEF SettingsLoaded
      <4> QED
        BY <2>3, <4>1 DEF SettingsLoaded
    <3>2. Populate(stored')
      BY <2>3 DEF SettingsLoaded
    <3>3. UNCHANGED <<db, puts, leaving, ops, errors, assumed, slipped, raced>>
      BY <2>3 DEF SettingsLoaded
    <3>4. /\ form' \in [Fields -> Shown] /\ password' \in BOOLEAN
          /\ original' \in [Fields -> Shown \cup {None}] /\ clean' \in [Fields -> Values \cup {None}]
          /\ dirty' \in [settings : BOOLEAN, security : BOOLEAN] /\ touched' \subseteq Fields
      BY <3>1, <3>2, PopulateType
    <3> QED
      BY <2>2, <3>1, <3>3, <3>4 DEF FormsTypeOK
  <2>4. CASE PolicyLoaded(k)
    <3>1. /\ gets[k].rows["policy"] \in Values /\ gets[k].rows["retention"] \in Values \cup {None}
          /\ "policy" \in Fields /\ "retention" \in Fields
      BY <2>1, <2>4, GetTypes DEF PolicyLoaded, Fields, SecurityFields
    <3>2. dirty' \in [settings : BOOLEAN, security : BOOLEAN]
      BY <2>4, IndicatorType DEF PolicyLoaded
    <3>3. /\ form' = [form EXCEPT !["policy"] = gets[k].rows["policy"],
                      !["retention"] = IF assumed' THEN 0 ELSE gets[k].rows["retention"]]
          /\ assumed' = (gets[k].rows["retention"] = None)
      BY <2>4 DEF PolicyLoaded
    <3>4. form \in [Fields -> Shown] /\ original \in [Fields -> Shown \cup {None}]
          /\ clean \in [Fields -> Values \cup {None}]
      BY DEF FormsTypeOK
    <3>5. form' \in [Fields -> Shown] /\ form'["policy"] \in Values /\ form'["retention"] \in Values
      BY <1>0, <3>1, <3>3, <3>4
    <3>6. original' \in [Fields -> Shown \cup {None}] /\ clean' \in [Fields -> Values \cup {None}]
      BY <2>4, <3>4, <3>5 DEF PolicyLoaded, SecurityFields
    <3>7. assumed' \in BOOLEAN /\ touched' \subseteq Fields
      BY <2>4, <3>3 DEF PolicyLoaded, FormsTypeOK
    <3> QED
      BY <2>2, <2>4, <3>2, <3>5, <3>6, <3>7 DEF PolicyLoaded, FormsTypeOK
  <2>5. CASE LoadFailed(k)
    BY <2>2, <2>5, <1>b DEF LoadFailed, FormsTypeOK, screen, ghosts
  <2> QED
    BY <1>3, <2>3, <2>4, <2>5
<1>20. SecurityDiffers \in BOOLEAN
  BY DEF SecurityDiffers
<1>4. ASSUME NEW f \in Fields, NEW v \in Shown, Edit(f, v) PROVE FormsTypeOK'
  <2>1. dirty' \in [settings : BOOLEAN, security : BOOLEAN]
    <3>1. CASE f = "title"
      BY <1>4, <3>1 DEF Edit, FormsTypeOK, SecurityFields
    <3>2. CASE f \in SecurityFields
      <4>1. UpdateIndicator(SecurityDiffers)
        BY <1>4, <3>2 DEF Edit, SecurityFields
      <4> HIDE DEF SecurityDiffers
      <4> QED
        BY <1>20, <4>1, IndicatorType
    <3>3. CASE f \notin {"title"} \cup SecurityFields
      BY <1>4, <1>11, <3>3, IndicatorType DEF Edit
    <3> QED
      BY <3>1, <3>2, <3>3
  <2>2. form' \in [Fields -> Shown] /\ touched' \subseteq Fields
    BY <1>4 DEF Edit, FormsTypeOK
  <2> QED
    BY <1>4, <1>b, <2>1, <2>2 DEF Edit, FormsTypeOK, network
<1>5. CASE TypePassword \/ ResetSmtp \/ ResetSecurity
  <2>1. form' \in [Fields -> Shown] /\ password' \in BOOLEAN /\ touched' \subseteq Fields
    <3>1. CASE TypePassword
      BY <3>1 DEF TypePassword, FormsTypeOK, ghosts
    <3>2. CASE ResetSmtp
      BY <1>0, <3>2 DEF ResetSmtp, FormsTypeOK, Fields, Settings
    <3>3. CASE ResetSecurity
      BY <1>0, <3>3 DEF ResetSecurity, FormsTypeOK, Fields, SecurityFields
    <3> QED
      BY <1>5, <3>1, <3>2, <3>3
  <2>2. dirty' \in [settings : BOOLEAN, security : BOOLEAN]
    <3>1. CASE TypePassword \/ ResetSmtp
      BY <1>11, <3>1, IndicatorType DEF TypePassword, ResetSmtp
    <3>2. CASE ResetSecurity
      <4>1. UpdateIndicator(SecurityDiffers)
        BY <3>2 DEF ResetSecurity
      <4> HIDE DEF SecurityDiffers
      <4> QED
        BY <1>20, <4>1, IndicatorType
    <3> QED
      BY <1>5, <3>1, <3>2
  <2> QED
    BY <1>5, <1>b, <2>1, <2>2 DEF TypePassword, ResetSmtp, ResetSecurity, FormsTypeOK, network, ghosts
<1>6. ASSUME NEW by \in Savers, NEW S \in SUBSET Fields, Send(by, S) PROVE FormsTypeOK'
  <2> DEFINE sent == [f \in S |-> Coerced(form[f])]
             p == [sent |-> sent, form |-> form, touched |-> touched, at |-> "sent"]
  <2>1. sent \in [S -> Values]
    <3>1. \A f \in S : form[f] \in Values \cup {Blank}
      BY DEF FormsTypeOK, Shown
    <3> QED
      BY <1>0, <3>1 DEF Coerced
  <2>2. p \in Put
    BY <2>1 DEF FormsTypeOK, Put
  <2>3. puts' = [puts EXCEPT ![by] = p]
    BY <1>6 DEF Send
  <2> HIDE DEF p
  <2> QED
    BY <1>6, <1>b, <2>2, <2>3 DEF Send, FormsTypeOK, screen
<1>7. CASE SaveMain \/ \E by \in Savers : Save(by)
  <2>1. "main" \in Savers /\ \A by \in Forms : FieldsOf(by) \subseteq Fields
    BY DEF Savers, Forms, FieldsOf, Fields, Settings, MainFields, HookFields, SecurityFields
  <2> QED
    BY <1>6, <1>7, <2>1 DEF SaveMain, Save, Fields
<1>8. CASE Import
  <2>1. PICK v \in Values :
          puts' = [puts EXCEPT !["import"] = [sent |-> [f \in FieldsOf("import") |-> v],
                                              form |-> form, touched |-> Fields, at |-> "sent"]]
    BY <1>8 DEF Import
  <2> DEFINE sent == [f \in FieldsOf("import") |-> v]
             p == [sent |-> sent, form |-> form, touched |-> Fields, at |-> "sent"]
  <2>2. FieldsOf("import") \in SUBSET Fields
    BY DEF FieldsOf
  <2>3. sent \in [FieldsOf("import") -> Values]
    OBVIOUS
  <2>4. p \in Put
    BY <2>2, <2>3 DEF FormsTypeOK, Put
  <2> HIDE DEF p
  <2>5. puts' = [puts EXCEPT !["import"] = p]
    BY <2>1 DEF p
  <2> QED
    BY <1>8, <1>b, <2>4, <2>5 DEF Import, FormsTypeOK, screen
<1>9. ASSUME NEW by \in Savers, Store(by) PROVE FormsTypeOK'
  <2>1. puts[by] \in Put
    BY <1>9 DEF Store, FormsTypeOK
  <2>2. [puts[by] EXCEPT !.at = "stored"] \in Put
    BY <2>1 DEF Put
  <2>3. puts' = [puts EXCEPT ![by] = [puts[by] EXCEPT !.at = "stored"]]
    BY <1>9 DEF Store
  <2>4. puts' \in [Savers -> Put \cup {None}]
    BY <2>2, <2>3 DEF FormsTypeOK
  <2>5. \A f \in DOMAIN puts[by].sent : puts[by].sent[f] \in Values
    BY <2>1 DEF Put
  <2>6. db' \in [Fields -> Values]
    BY <1>9, <2>5, <1>a DEF Store
  <2> QED
    BY <1>9, <2>4, <2>6 DEF Store, FormsTypeOK, screen, ghosts
<1>10. ASSUME NEW by \in Savers, Accepted(by),
              puts' = [puts EXCEPT ![by] = None] \/ puts' = [puts EXCEPT ![by].at = "logging"],
              original' \in [Fields -> Shown \cup {None}], \E b : UpdateIndicator(b) /\ b \in BOOLEAN,
              stored' \in {stored, None}, slipped' \in BOOLEAN, assumed' \in BOOLEAN
       PROVE  FormsTypeOK'
  <2>1. puts[by] \in Put
    BY <1>10 DEF Accepted, FormsTypeOK
  <2>2. [puts[by] EXCEPT !.at = "logging"] \in Put
    BY <2>1 DEF Put
  <2>3. puts' \in [Savers -> Put \cup {None}]
    BY <1>10, <2>2 DEF FormsTypeOK
  <2>4. \A f \in DOMAIN puts[by].sent : puts[by].sent[f] \in Values
    BY <2>1 DEF Put
  <2>5. clean' \in [Fields -> Values \cup {None}] /\ touched' \subseteq Fields
    BY <1>10, <2>4 DEF Accepted, FormsTypeOK
  <2>6. dirty' \in [settings : BOOLEAN, security : BOOLEAN]
    BY <1>10 DEF UpdateIndicator, SettingsDiffer
  <2> QED
    BY <1>10, <2>3, <2>5, <2>6 DEF Accepted, FormsTypeOK
<1>12. CASE MainSaved
  <2>1. puts["main"] \in Put /\ "main" \in Savers
    BY <1>12 DEF MainSaved, Accepted, FormsTypeOK, Savers, Forms
  <2>2. original' \in [Fields -> Shown \cup {None}]
    BY <1>12, <2>1 DEF MainSaved, FormsTypeOK, Put
  <2>3. slipped' \in BOOLEAN /\ assumed' \in BOOLEAN
    BY <1>12 DEF MainSaved, FormsTypeOK
  <2> QED
    BY <1>10, <1>11, <1>12, <2>1, <2>2, <2>3 DEF MainSaved
<1>13. ASSUME NEW by \in Savers, OtherSaved(by) PROVE FormsTypeOK'
  <2>1. original' \in [Fields -> Shown \cup {None}] /\ slipped' \in BOOLEAN /\ assumed' \in BOOLEAN
    BY <1>13 DEF OtherSaved, FormsTypeOK
  <2> QED
    BY <1>10, <1>11, <1>13, <2>1 DEF OtherSaved
<1>14. CASE SecuritySaved
  <2>1. original' \in [Fields -> Shown \cup {None}] /\ slipped' \in BOOLEAN /\ assumed' \in BOOLEAN
    BY <1>14 DEF SecuritySaved, FormsTypeOK, Fields
  <2>2. "security" \in Savers
    BY DEF Savers, Forms
  <2> QED
    BY <1>10, <1>14, <2>1, <2>2 DEF SecuritySaved
<1>15. CASE MainLogged \/ Imported
  <2>1. puts' \in [Savers -> Put \cup {None}]
    BY <1>15 DEF MainLogged, Imported, FormsTypeOK
  <2> QED
    BY <1>15, <2>1 DEF MainLogged, Imported, FormsTypeOK, screen, ghosts
<1>16. ASSUME NEW by \in Savers, SaveFailed(by) PROVE FormsTypeOK'
  <2>1. puts' \in [Savers -> Put \cup {None}]
    BY <1>16 DEF SaveFailed, FormsTypeOK
  <2>2. raced' \in BOOLEAN
    BY <1>16 DEF SaveFailed, FormsTypeOK
  <2> QED
    BY <1>16, <1>b, <2>1, <2>2 DEF SaveFailed, FormsTypeOK, screen
<1>21. ASSUME NEW by \in Savers, StoredInPart(by) PROVE FormsTypeOK'
  <2>1. puts[by] \in Put /\ by \in {"security", "import"}
    BY <1>21 DEF StoredInPart, FormsTypeOK
  <2>2. PICK S : S = {f \in DOMAIN puts[by].sent : by = "security" <=> f = "policy"}
    OBVIOUS
  <2>3. db' = [f \in Fields |-> IF f \in S THEN puts[by].sent[f] ELSE db[f]]
    BY <1>21, <2>2 DEF StoredInPart
  <2>4. \A f \in S : puts[by].sent[f] \in Values
    BY <2>1, <2>2 DEF Put
  <2>5. db' \in [Fields -> Values]
    BY <1>a, <2>3, <2>4
  <2>6. puts' \in [Savers -> Put \cup {None}]
    BY <1>21 DEF StoredInPart, FormsTypeOK
  <2> QED
    BY <1>21, <1>b, <2>5, <2>6 DEF StoredInPart, FormsTypeOK, screen
<1>17. CASE Reload
  <2>1. gets' \in Seq(Get)
    BY <1>17, EmptySeq DEF Reload
  <2>2. puts' \in [Savers -> Put \cup {None}] /\ raced' \in BOOLEAN
    BY <1>17 DEF Reload, NoneOf, FormsTypeOK, Saving
  <2> QED
    BY <1>0, <1>17, <2>1, <2>2 DEF Reload, FormsTypeOK, NoneOf
<1>18. CASE UNCHANGED formVars
  BY <1>18 DEF formVars, FormsTypeOK
<1> QED
  BY <1>1, <1>2, <1>3, <1>4, <1>5, <1>7, <1>8, <1>9, <1>12, <1>13, <1>14, <1>15, <1>16, <1>17,
     <1>18, <1>19, <1>21 DEF FormsNext

(* For any values of the fields: every variable of the forms holds values  *)
(* of its type.                                                            *)
THEOREM FormsTypeCorrect == FormsSpec => []FormsTypeOK
BY FormsInitType, FormsTypeStep, PTL DEF FormsSpec

-------------------------------------------------------------------------------
(* The settings forms: what holds while saves and loads do not overlap *)

(* What the forms' saves send: the settings form only settings, the others *)
(* their own fields; the security form what its numbers come to.           *)
SentOK(by, p) ==
  /\ IF by = "main" THEN DOMAIN p.sent \subseteq Settings ELSE DOMAIN p.sent = FieldsOf(by)
  /\ by = "security" => \A f \in SecurityFields : p.sent[f] = Coerced(p.form[f])
SentAre == \A by \in Savers : puts[by] # None => SentOK(by, puts[by])

(* Without a race, one save is on its way at a time, and no load beside it. *)
Alone ==
  ~raced => /\ \A a, b \in Savers : puts[a] # None /\ puts[b] # None => a = b
            /\ Saving \/ leaving => gets = <<>>

(* What loads have read, and the copy in sessionStorage, is what the server *)
(* has, but for the fields of a save that it stored and the page has not    *)
(* worked off.                                                              *)
GoodGet == {g \in Get : \A f \in Fields : g.rows[f] # None => g.rows[f] = db[f]}
ReadsInv == ~raced => gets \in Seq(GoodGet)
CopyInv ==
  ~raced /\ stored # None
    /\ (\A by \in Savers : puts[by] # None => puts[by].at = "sent" \/ by = "security")
    => \A f \in Settings : stored[f] = db[f]
StoredInv ==
  ~raced => \A by \in Savers : puts[by] # None /\ puts[by].at # "sent" =>
              \A f \in DOMAIN puts[by].sent \ {"server"} : db[f] = puts[by].sent[f]
CleanInv ==
  ~raced /\ ~leaving => \A f \in Fields \ {"server", "on"} :
    clean[f] # None /\ ~(f = "retention" /\ assumed) =>
    \/ clean[f] = db[f]
    \/ \E by \in Savers : /\ puts[by] # None /\ puts[by].at = "stored"
                          /\ f \in DOMAIN puts[by].sent

(* Only the security form has fields that can be blank.                    *)
FilledInv == \A f \in Settings : form[f] \in Values

(* A field the user left alone holds what the form was filled with; a save *)
(* of the settings form has sent the others.                               *)
LeftInv == ~raced => \A f \in Settings \ touched : form[f] = original[f]
MainInv ==
  ~raced /\ puts["main"] # None =>
    LET put == puts["main"] IN
    /\ DOMAIN put.sent \subseteq put.touched
    /\ put.at # "logging" =>
         /\ DOMAIN put.sent \subseteq touched
         /\ \A f \in Settings : put.form[f] = IF f \in DOMAIN put.sent THEN put.sent[f]
                                                                       ELSE original[f]

(* The flags compare the form with original, which is what was loaded or   *)
(* saved unless a form took for saved what it did not send.                *)
OriginalInv ==
  ~slipped /\ ~raced => \A f \in Settings : clean[f] # None => original[f] = clean[f]
PolicyInv ==
  ~slipped => \A f \in SecurityFields :
    clean[f] # None => original[f] = clean[f] \/ original[f] = Blank
DirtyInv ==
  /\ \A f \in Settings \ {"title"} : clean[f] # None /\ form[f] # original[f] => dirty.settings
  /\ \A f \in SecurityFields : clean[f] # None /\ form[f] # original[f] => dirty.security

NetInv == FormsTypeOK /\ SentAre /\ Alone /\ ReadsInv /\ CopyInv /\ StoredInv /\ CleanInv

(* The fields each form sends.                                             *)
LEMMA SentFields ==
  /\ FieldsOf("main") = MainFields /\ FieldsOf("hooks") = HookFields
  /\ FieldsOf("status") = {"title"} /\ FieldsOf("security") = SecurityFields
  /\ FieldsOf("import") = Fields \ {"server"}
  /\ Savers = {"main", "hooks", "status", "security", "import"}
  /\ Fields = {"server", "threshold", "hook", "on", "title", "policy", "retention"}
  /\ Settings = {"server", "threshold", "hook", "on", "title"}
  /\ SecurityFields = {"policy", "retention"}
BY DEF FieldsOf, Savers, Forms, Fields, Settings, MainFields, HookFields, SecurityFields

(* What a save on its way holds.                                           *)
LEMMA PutFields ==
  ASSUME FormsTypeOK, NEW by \in Savers, puts[by] # None
  PROVE  /\ puts[by] \in Put /\ puts[by].at \in {"sent", "stored", "logging"}
         /\ DOMAIN puts[by].sent \subseteq Fields
         /\ \A f \in DOMAIN puts[by].sent : puts[by].sent[f] \in Values
         /\ puts[by].form \in [Fields -> Shown] /\ puts[by].touched \subseteq Fields
<1>1. puts[by] \in Put
  BY DEF FormsTypeOK
<1>2. PICK S \in SUBSET Fields : puts[by].sent \in [S -> Values]
  BY <1>1 DEF Put
<1> QED
  BY <1>1, <1>2 DEF Put

LEMMA NetInit == FormsInit => NetInv
<1> SUFFICES ASSUME FormsInit PROVE NetInv
  OBVIOUS
<1>1. FormsTypeOK
  BY FormsInitType
<1>2. puts = NoneOf(Savers) /\ gets = <<>> /\ stored = None /\ clean = NoneOf(Fields)
  BY DEF FormsInit
<1>3. \A by \in Savers : puts[by] = None
  BY <1>2 DEF NoneOf
<1>4. \A f \in Fields : clean[f] = None
  BY <1>2 DEF NoneOf
<1>5. gets \in Seq(GoodGet)
  BY <1>2, EmptySeq
<1> QED
  BY <1>1, <1>2, <1>3, <1>4, <1>5
     DEF NetInv, SentAre, Alone, ReadsInv, CopyInv, StoredInv, CleanInv

(* A load comes, is read or ends: no save and no other load is meant.      *)
LEMMA NetLoads ==
  ASSUME NetInv, FormsTypeOK', NEW k \in DOMAIN gets, NEW from,
         Served(k, from) \/ RestLost(k) \/ SettingsLoaded(k) \/ PolicyLoaded(k) \/ LoadFailed(k)
  PROVE  NetInv'
<1>1. UNCHANGED <<db, puts, leaving, raced>>
  BY DEF Served, RestLost, SettingsLoaded, PolicyLoaded, LoadFailed, ghosts
<1>2. GoodGet' = GoodGet
  BY <1>1 DEF GoodGet
<1>3. CASE raced
  BY <1>1, <1>3 DEF NetInv, SentAre, Alone, ReadsInv, CopyInv, StoredInv, CleanInv
<1>4. CASE ~raced
  <2>1. gets \in Seq(GoodGet) /\ gets[k] \in GoodGet /\ gets[k] \in Get /\ gets # <<>>
    BY <1>4 DEF NetInv, ReadsInv, GoodGet
  <2>2. ~Saving /\ ~leaving
    BY <1>4, <2>1 DEF NetInv, Alone
  <2>a. FormsTypeOK /\ db \in [Fields -> Values] /\ gets \in Seq(Get)
    BY DEF NetInv, FormsTypeOK
  <2>b. \A f \in Fields : gets[k].rows[f] # None => gets[k].rows[f] = db[f]
    BY <2>1 DEF GoodGet
  <2>c. /\ gets[k].for = "settings" /\ gets[k].due = {} => \A f \in Settings : gets[k].rows[f] = db[f]
        /\ gets[k].for = "policy" /\ gets[k].due = {} => gets[k].rows["policy"] = db["policy"]
    <3>1. /\ gets[k].for = "settings" /\ gets[k].due = {} => \A f \in Settings : gets[k].rows[f] \in Values
          /\ gets[k].for = "policy" /\ gets[k].due = {} => gets[k].rows["policy"] \in Values
      BY <2>1, <2>a, GetTypes
    <3>2. None \notin Values /\ Settings \subseteq Fields /\ "policy" \in Fields
      BY SettingsAssumption, SentFields DEF Shown
    <3> QED
      BY <2>b, <3>1, <3>2
  <2>3. gets' \in Seq(GoodGet)
    <3>1. CASE Served(k, from)
      <4> DEFINE h == [gets[k] EXCEPT !.due = @ \ {from},
                         !.rows = [f \in Fields |-> IF f \in Reads(gets[k].for, from) THEN db[f] ELSE @[f]]]
      <4>1. h \in Get
        BY <2>1, <2>a, <3>1, GetTypes DEF Served
      <4>2. \A f \in Fields : h.rows[f] # None => h.rows[f] = db[f]
        BY <2>1, <2>b DEF Get
      <4>3. gets' = [gets EXCEPT ![k] = h]
        BY <2>a, <3>1 DEF Served
      <4> HIDE DEF h
      <4>4. h \in GoodGet
        BY <4>1, <4>2 DEF GoodGet
      <4> QED
        BY <2>1, <4>3, <4>4, OneReplacedSeq
    <3>2. CASE RestLost(k)
      <4> DEFINE h == [gets[k] EXCEPT !.due = @ \ {"settings"}]
      <4>1. h \in Get
        BY <2>1, <2>a, <3>2, GetTypes DEF RestLost
      <4>2. h.rows = gets[k].rows
        BY <2>1 DEF Get
      <4>3. gets' = [gets EXCEPT ![k] = h]
        BY <2>a, <3>2 DEF RestLost
      <4> HIDE DEF h
      <4>4. h \in GoodGet
        BY <2>b, <4>1, <4>2 DEF GoodGet
      <4> QED
        BY <2>1, <4>3, <4>4, OneReplacedSeq
    <3>3. CASE ~(Served(k, from) \/ RestLost(k))
      BY <2>1, <3>3, RemoveAtSeq DEF SettingsLoaded, PolicyLoaded, LoadFailed
    <3> QED
      BY <3>1, <3>2, <3>3
  <2>4. \A by \in Savers : puts[by] = None
    BY <2>2 DEF Saving
  <2>5. SentAre' /\ Alone' /\ ReadsInv' /\ StoredInv'
    BY <1>1, <1>2, <2>2, <2>3, <2>4 DEF SentAre, Alone, ReadsInv, StoredInv, Saving
  <2>7. CopyInv'
    <3>1. CASE SettingsLoaded(k)
      <4>1. \A f \in Settings : gets[k].rows[f] = db[f]
        BY <2>1, <2>c, <3>1 DEF SettingsLoaded
      <4>2. \A f \in Settings : stored'[f] = db[f]
        BY <3>1, <4>1 DEF SettingsLoaded
      <4> QED
        BY <1>1, <4>2 DEF CopyInv
    <3>2. CASE ~SettingsLoaded(k)
      <4>1. stored' = stored
        BY <3>2 DEF Served, RestLost, PolicyLoaded, LoadFailed
      <4> QED
        BY <1>1, <4>1 DEF CopyInv, NetInv
    <3> QED
      BY <3>1, <3>2
  <2>8. CleanInv'
    <3>1. \A f \in Fields \ {"server", "on"} :
            clean[f] # None /\ ~(f = "retention" /\ assumed) => clean[f] = db[f]
      BY <1>4, <2>2, <2>4 DEF NetInv, CleanInv
    <3>2. \A f \in Fields \ {"server", "on"} :
            clean'[f] # None /\ ~(f = "retention" /\ assumed') => clean'[f] = db[f]
      <4>1. CASE SettingsLoaded(k)
        <5>1. \A f \in Settings : gets[k].rows[f] = db[f]
          BY <2>c, <4>1 DEF SettingsLoaded
        <5>2. /\ \A f \in Settings \ {"on"} : clean'[f] = db[f]
              /\ \A f \in SecurityFields : clean'[f] = clean[f]
              /\ assumed' = assumed
          BY <4>1, <5>1, SentFields DEF SettingsLoaded, Populate
        <5> QED
          BY <3>1, <5>2, SentFields
      <4>2. CASE PolicyLoaded(k)
        <5>1. gets[k].rows["policy"] = db["policy"]
          BY <2>c, <4>2 DEF PolicyLoaded
        <5>2. assumed' = (gets[k].rows["retention"] = None)
          BY <4>2 DEF PolicyLoaded
        <5>3. ~assumed' => gets[k].rows["retention"] = db["retention"]
          BY <2>b, <5>2, SentFields
        <5>4. /\ form'["policy"] = gets[k].rows["policy"]
              /\ ~assumed' => form'["retention"] = gets[k].rows["retention"]
          BY <2>a, <4>2, SentFields DEF PolicyLoaded, FormsTypeOK
        <5>5. /\ \A f \in SecurityFields : clean'[f] = form'[f]
              /\ \A f \in Settings : clean'[f] = clean[f]
          BY <4>2, SentFields DEF PolicyLoaded
        <5> QED
          BY <3>1, <5>1, <5>3, <5>4, <5>5, SentFields
      <4>3. CASE Served(k, from) \/ RestLost(k) \/ LoadFailed(k)
        BY <3>1, <4>3 DEF Served, RestLost, LoadFailed, ghosts
      <4> QED
        BY <4>1, <4>2, <4>3
    <3> QED
      BY <1>1, <3>2 DEF CleanInv
  <2> QED
    BY <2>5, <2>7, <2>8 DEF NetInv
<1> QED
  BY <1>3, <1>4

(* A load is asked for: with a save on its way, that is a race.            *)
LEMMA NetOpen ==
  ASSUME NetInv, FormsTypeOK', Open
  PROVE  NetInv'
<1>1. UNCHANGED <<db, puts, leaving, stored, assumed>> /\ raced' = (raced \/ Saving \/ leaving)
  BY DEF Open
<1>2. GoodGet' = GoodGet
  BY <1>1 DEF GoodGet
<1>3. CASE raced'
  BY <1>1, <1>3 DEF NetInv, SentAre, Alone, ReadsInv, CopyInv, StoredInv, CleanInv
<1>4. CASE ~raced'
  <2>1. ~raced /\ ~Saving /\ ~leaving /\ \A by \in Savers : puts[by] = None
    BY <1>1, <1>4 DEF Saving
  <2>2. gets' \in Seq(GoodGet)
    <3>1. \A f \in Fields : NoneOf(Fields)[f] = None
      BY DEF NoneOf
    <3>2. /\ Load("settings", {"settings"}) \in GoodGet
          /\ Load("policy", {"security", "settings"}) \in GoodGet
      BY <3>1, LoadType DEF GoodGet, Load
    <3>3. \/ gets' = Append(gets, Load("policy", {"security", "settings"}))
          \/ gets' = gets \o <<Load("settings", {"settings"}), Load("policy", {"security", "settings"})>>
      BY DEF Open
    <3>4. gets \in Seq(GoodGet)
      BY <2>1 DEF NetInv, ReadsInv
    <3> QED
      BY <3>2, <3>3, <3>4, AppendSeq, ConcatTwo
  <2>3. SentAre' /\ Alone' /\ ReadsInv' /\ CopyInv' /\ StoredInv'
    BY <1>1, <1>2, <2>1, <2>2 DEF NetInv, SentAre, Alone, ReadsInv, CopyInv, StoredInv, Saving
  <2>4. \A f \in Fields \ {"server", "on"} :
          clean[f] # None /\ ~(f = "retention" /\ assumed) => clean[f] = db[f]
    BY <2>1 DEF NetInv, CleanInv
  <2>5. \A f \in Fields \ {"server", "on"} :
          clean'[f] # None /\ ~(f = "retention" /\ assumed) => clean'[f] = db[f]
    <3>1. CASE stored = None
      BY <2>4, <3>1 DEF Open
    <3>2. CASE stored # None
      <4>1. \A f \in Settings : stored[f] = db[f]
        BY <2>1, <3>2 DEF NetInv, CopyInv
      <4>2. /\ \A f \in Settings \ {"on"} : clean'[f] = stored[f]
            /\ \A f \in SecurityFields : clean'[f] = clean[f]
        BY <3>2, SentFields DEF Open, Populate
      <4> QED
        BY <2>4, <4>1, <4>2, SentFields
    <3> QED
      BY <3>1, <3>2
  <2>6. CleanInv'
    BY <1>1, <2>5 DEF CleanInv
  <2> QED
    BY <2>3, <2>6 DEF NetInv
<1> QED
  BY <1>3, <1>4

(* A save is sent: with a load or another save on its way, that is a race. *)
LEMMA NetSend ==
  ASSUME NetInv, FormsTypeOK', NEW by \in Savers, puts[by] = None,
         NEW p, p.at = "sent", puts' = [puts EXCEPT ![by] = p],
         SentOK(by, p),
         raced' = (raced \/ gets # <<>> \/ Saving),
         UNCHANGED <<db, stored, gets, leaving, clean, assumed>>
  PROVE  NetInv'
<1>1. puts'[by] = p /\ \A a \in Savers \ {by} : puts'[a] = puts[a]
  BY DEF NetInv, FormsTypeOK
<1>2. SentAre'
  BY <1>1 DEF NetInv, SentAre
<1>3. CASE raced'
  BY <1>2, <1>3 DEF NetInv, Alone, ReadsInv, CopyInv, StoredInv, CleanInv
<1>4. CASE ~raced'
  <2>1. ~raced /\ gets = <<>> /\ \A a \in Savers : puts[a] = None
    BY <1>4 DEF Saving
  <2>2. GoodGet' = GoodGet
    BY DEF GoodGet
  <2>3. Alone' /\ ReadsInv' /\ StoredInv'
    BY <1>1, <2>1, <2>2 DEF NetInv, Alone, ReadsInv, StoredInv
  <2>4. CopyInv'
    BY <1>1, <2>1 DEF NetInv, CopyInv
  <2>5. CleanInv'
    BY <1>1, <2>1 DEF NetInv, CleanInv
  <2> QED
    BY <1>2, <2>3, <2>4, <2>5 DEF NetInv
<1> QED
  BY <1>3, <1>4

LEMMA NetSent ==
  ASSUME NetInv, FormsTypeOK', NEW by \in Savers,
         SaveMain \/ Save(by) \/ Import
  PROVE  NetInv'
<1>1. FormsTypeOK
  BY DEF NetInv
<1>2. ASSUME NEW a \in Savers, NEW S \in SUBSET Fields, Send(a, S),
             IF a = "main" THEN S \subseteq Settings ELSE S = FieldsOf(a)
      PROVE  NetInv'
  <2> DEFINE p == [sent |-> [f \in S |-> Coerced(form[f])], form |-> form, touched |-> touched,
                   at |-> "sent"]
  <2>2. p.at = "sent" /\ SentOK(a, p)
    BY <1>2, SentFields DEF SentOK
  <2>3. puts' = [puts EXCEPT ![a] = p] /\ puts[a] = None /\ raced' = (raced \/ gets # <<>> \/ Saving)
    BY <1>2 DEF Send
  <2>4. UNCHANGED <<db, stored, gets, leaving, clean, assumed>>
    BY <1>2 DEF Send
  <2> HIDE DEF p
  <2> QED
    BY <1>2, <2>2, <2>3, <2>4, NetSend
<1>3. CASE SaveMain
  <2>1. "main" \in Savers /\ {f \in Settings : form[f] # original[f]} \in SUBSET Fields
    BY SentFields
  <2> QED
    BY <1>2, <1>3, <2>1 DEF SaveMain
<1>4. CASE Save(by)
  <2>1. by # "main" /\ FieldsOf(by) \in SUBSET Fields
    BY <1>4 DEF Save, Forms, FieldsOf, Fields, Settings, MainFields, HookFields, SecurityFields
  <2> QED
    BY <1>2, <1>4, <2>1 DEF Save
<1>5. CASE Import
  <2>1. PICK v \in Values :
          puts' = [puts EXCEPT !["import"] = [sent |-> [f \in FieldsOf("import") |-> v],
                                              form |-> form, touched |-> Fields, at |-> "sent"]]
    BY <1>5 DEF Import
  <2> DEFINE p == [sent |-> [f \in FieldsOf("import") |-> v], form |-> form, touched |-> Fields,
                   at |-> "sent"]
  <2>2. p.at = "sent" /\ SentOK("import", p)
    BY DEF SentOK
  <2>3. /\ puts["import"] = None /\ raced' = (raced \/ gets # <<>> \/ Saving)
        /\ UNCHANGED <<db, stored, gets, leaving, clean, assumed>>
    BY <1>5 DEF Import
  <2>4. "import" \in Savers /\ "import" # "main"
    BY SentFields
  <2>5. puts' = [puts EXCEPT !["import"] = p]
    BY <2>1
  <2> HIDE DEF p
  <2> QED
    BY <2>2, <2>3, <2>4, <2>5, NetSend
<1> QED
  BY <1>3, <1>4, <1>5

(* The server stores what was sent.                                        *)
LEMMA NetStore ==
  ASSUME NetInv, FormsTypeOK', NEW by \in Savers, Store(by)
  PROVE  NetInv'
<1>1. /\ puts[by] # None /\ puts[by].at = "sent"
      /\ UNCHANGED <<stored, gets, leaving, clean, assumed, raced>>
  BY DEF Store, screen, ghosts
<1>2. puts[by] \in Put /\ DOMAIN puts[by].sent \subseteq Fields
  BY <1>1, PutFields DEF NetInv
<1>3. /\ puts' = [puts EXCEPT ![by] = [puts[by] EXCEPT !.at = "stored"]]
      /\ puts \in [Savers -> Put \cup {None}]
  BY DEF Store, NetInv, FormsTypeOK
<1>4. /\ puts'[by].at = "stored" /\ puts'[by].sent = puts[by].sent /\ puts'[by].form = puts[by].form
      /\ \A a \in Savers \ {by} : puts'[a] = puts[a]
  BY <1>2, <1>3 DEF Put
<1>8. puts'[by] # None
  BY <1>2, <1>3, SettingsAssumption DEF Put
<1>5. SentAre'
  BY <1>1, <1>4 DEF NetInv, SentAre, SentOK
<1>6. CASE raced
  BY <1>1, <1>5, <1>6 DEF NetInv, Alone, ReadsInv, CopyInv, StoredInv, CleanInv
<1>7. CASE ~raced
  <2>1. gets = <<>> /\ \A a \in Savers \ {by} : puts[a] = None
    BY <1>1, <1>7 DEF NetInv, Alone, Saving
  <2>2. Alone' /\ ReadsInv'
    BY <1>1, <1>4, <2>1, EmptySeq DEF NetInv, Alone, ReadsInv
  <2>3. \A f \in Fields : db'[f] = IF f \in DOMAIN puts[by].sent \ {"server"}
                                  THEN puts[by].sent[f] ELSE db[f]
    BY DEF Store
  <2>4. StoredInv'
    BY <1>2, <1>4, <2>1, <2>3 DEF StoredInv
  <2>5. CopyInv'
    <3>1. CASE by = "security"
      <4>1. DOMAIN puts[by].sent = SecurityFields
        BY <1>1, <3>1, SentFields DEF NetInv, SentAre, SentOK
      <4>2. \A f \in Settings : db'[f] = db[f]
        BY <2>3, <4>1, SentFields
      <4>3. \A a \in Savers : puts[a] # None => puts[a].at = "sent" \/ a = "security"
        BY <1>1, <2>1
      <4> QED
        BY <1>1, <1>7, <4>2, <4>3 DEF NetInv, CopyInv
    <3>2. CASE by # "security"
      <4>1. puts'[by] # None => ~(puts'[by].at = "sent" \/ by = "security")
        BY <1>4, <3>2
      <4> QED
        BY <1>8, <4>1 DEF CopyInv
    <3> QED
      BY <3>1, <3>2
  <2>6. CleanInv'
    <3>1. ASSUME NEW f \in Fields \ {"server", "on"}, clean[f] # None, ~(f = "retention" /\ assumed),
                 ~leaving, f \notin DOMAIN puts[by].sent
          PROVE  clean[f] = db'[f]
      BY <1>1, <1>7, <2>1, <2>3, <3>1 DEF NetInv, CleanInv
    <3>2. \A f \in DOMAIN puts[by].sent :
            \E a \in Savers : puts'[a] # None /\ puts'[a].at = "stored" /\ f \in DOMAIN puts'[a].sent
      BY <1>4, <1>8
    <3>3. \A f \in Fields : clean'[f] = clean[f]
      BY <1>1
    <3> QED
      BY <1>1, <3>1, <3>2, <3>3 DEF CleanInv
  <2> QED
    BY <1>5, <2>2, <2>4, <2>5, <2>6 DEF NetInv
<1> QED
  BY <1>6, <1>7

(* A save taken note of leaves what is shown as saved as the server has it. *)
LEMMA AcceptedClean ==
  ASSUME NetInv, NEW by \in Savers, Accepted(by), ~raced, ~leaving
  PROVE  /\ \A f \in Fields \ {"server", "on"} :
              clean'[f] # None /\ ~(f = "retention" /\ assumed) => clean'[f] = db[f]
         /\ \A f \in Fields \cap (DOMAIN puts[by].sent \ {"server"}) : clean'[f] = db[f]
<1>1. puts[by] # None /\ puts[by].at = "stored"
  BY DEF Accepted
<1>2. \A a \in Savers : puts[a] # None => a = by
  BY <1>1 DEF NetInv, Alone
<1>3. \A f \in Fields : clean'[f] = IF f \in DOMAIN puts[by].sent THEN puts[by].sent[f] ELSE clean[f]
  BY DEF Accepted
<1>4. \A f \in DOMAIN puts[by].sent \ {"server"} : db[f] = puts[by].sent[f]
  BY <1>1 DEF NetInv, StoredInv
<1>5. ASSUME NEW f \in Fields \ {"server", "on"}, f \notin DOMAIN puts[by].sent, clean[f] # None,
             ~(f = "retention" /\ assumed)
      PROVE  clean[f] = db[f]
  BY <1>2, <1>5 DEF NetInv, CleanInv
<1> QED
  BY <1>3, <1>4, <1>5

(* A save ends.                                                            *)
LEMMA NetEnds ==
  ASSUME NetInv, FormsTypeOK', NEW by \in Savers, puts[by] # None,
         puts' = [puts EXCEPT ![by] = None],
         db' = db \/ raced', gets' = gets, raced => raced', CleanInv', CopyInv'
  PROVE  NetInv'
<1>1. puts'[by] = None /\ \A a \in Savers \ {by} : puts'[a] = puts[a]
  BY DEF NetInv, FormsTypeOK
<1>2. db' = db => GoodGet' = GoodGet
  BY DEF GoodGet
<1>3. SentAre' /\ ReadsInv' /\ StoredInv'
  BY <1>1, <1>2 DEF NetInv, SentAre, ReadsInv, StoredInv
<1>4. Alone'
  BY <1>1 DEF NetInv, Alone, Saving
<1> QED
  BY <1>3, <1>4 DEF NetInv

LEMMA NetAnswers ==
  ASSUME NetInv, FormsTypeOK', NEW by \in Savers,
         MainLogged \/ OtherSaved(by) \/ SecuritySaved \/ Imported \/ SaveFailed(by) \/ StoredInPart(by)
  PROVE  NetInv'
<1>1. CASE MainLogged
  <2>1. /\ puts["main"] # None /\ puts["main"].at = "logging" /\ "main" \in Savers
        /\ puts' = [puts EXCEPT !["main"] = None] /\ stored' = None
        /\ UNCHANGED <<db, gets, leaving, clean, assumed, raced>>
    BY <1>1 DEF MainLogged, Savers, Forms, ghosts
  <2>2. CopyInv'
    BY <2>1 DEF CopyInv
  <2>3. CleanInv'
    <3>1. ASSUME NEW f \in Fields \ {"server", "on"}, clean[f] # None, ~(f = "retention" /\ assumed),
                 ~raced, ~leaving
          PROVE  clean[f] = db[f]
      <4>1. \A a \in Savers : puts[a] # None => a = "main"
        BY <2>1, <3>1 DEF NetInv, Alone
      <4> QED
        BY <2>1, <3>1, <4>1 DEF NetInv, CleanInv
    <3> QED
      BY <2>1, <3>1 DEF CleanInv
  <2> QED
    BY <2>1, <2>2, <2>3, NetEnds
<1>2. CASE OtherSaved(by)
  <2>1. /\ puts[by] # None /\ Accepted(by) /\ puts' = [puts EXCEPT ![by] = None] /\ stored' = None
        /\ UNCHANGED <<db, gets, leaving, assumed, raced>>
    BY <1>2 DEF OtherSaved, Accepted
  <2>2. CopyInv'
    BY <2>1 DEF CopyInv
  <2>3. CleanInv'
    BY <2>1, AcceptedClean DEF CleanInv
  <2> QED
    BY <2>1, <2>2, <2>3, NetEnds
<1>3. CASE SecuritySaved
  <2>1. /\ puts["security"] # None /\ "security" \in Savers /\ Accepted("security")
        /\ puts' = [puts EXCEPT !["security"] = None]
        /\ UNCHANGED <<db, gets, leaving, raced, stored>>
    BY <1>3 DEF SecuritySaved, Accepted, Savers, Forms
  <2>4. DOMAIN puts["security"].sent = SecurityFields
    BY <2>1, SentFields DEF NetInv, SentAre, SentOK
  <2>2. CopyInv'
    <3>1. ~raced => \A a \in Savers : puts[a] # None => a = "security"
      BY <2>1 DEF NetInv, Alone
    <3> QED
      BY <2>1, <3>1 DEF NetInv, CopyInv
  <2>3. CleanInv'
    <3> SUFFICES ASSUME ~raced, ~leaving, NEW f \in Fields \ {"server", "on"}, clean'[f] # None
                 PROVE  clean'[f] = db[f]
      BY <2>1 DEF CleanInv
    <3> QED
      BY <2>1, <2>4, AcceptedClean, SentFields
  <2> QED
    BY <2>1, <2>2, <2>3, NetEnds
<1>4. CASE Imported
  <2>1. /\ puts["import"] # None /\ "import" \in Savers /\ leaving' /\ stored' = None
        /\ puts' = [puts EXCEPT !["import"] = None] /\ UNCHANGED <<db, gets, raced>>
    BY <1>4 DEF Imported, Savers, ghosts
  <2>2. CopyInv' /\ CleanInv'
    BY <2>1 DEF CopyInv, CleanInv
  <2> QED
    BY <2>1, <2>2, NetEnds
<1>5. CASE SaveFailed(by)
  <2>1. /\ puts[by] # None /\ puts[by].at # "logging" /\ puts' = [puts EXCEPT ![by] = None]
        /\ UNCHANGED <<db, gets, leaving, clean, assumed, stored>>
        /\ raced' = (raced \/ puts[by].at = "stored")
    BY <1>5 DEF SaveFailed
  <2>2. puts[by].at \in {"sent", "stored", "logging"}
    BY <2>1, PutFields DEF NetInv
  <2>3. ~raced' => /\ puts[by].at = "sent" /\ ~raced
                   /\ \A a \in Savers : puts[a] # None => a = by
    BY <2>1, <2>2 DEF NetInv, Alone
  <2>4. CopyInv'
    BY <2>1, <2>3 DEF NetInv, CopyInv
  <2>5. CleanInv'
    BY <2>1, <2>3 DEF NetInv, CleanInv
  <2> QED
    BY <2>1, <2>4, <2>5, NetEnds
<1>6. CASE StoredInPart(by)
  <2>1. puts[by] # None /\ puts' = [puts EXCEPT ![by] = None] /\ gets' = gets /\ raced'
    BY <1>6 DEF StoredInPart
  <2>2. CopyInv' /\ CleanInv'
    BY <2>1 DEF CopyInv, CleanInv
  <2> QED
    BY <2>1, <2>2, NetEnds
<1> QED
  BY <1>1, <1>2, <1>3, <1>4, <1>5, <1>6

(* The settings form's save goes on with its log entry.                    *)
LEMMA NetMainSaved ==
  ASSUME NetInv, FormsTypeOK', MainSaved
  PROVE  NetInv'
<1>1. /\ puts["main"] # None /\ puts["main"].at = "stored" /\ "main" \in Savers /\ Accepted("main")
      /\ UNCHANGED <<db, gets, leaving, assumed, raced, stored>>
  BY DEF MainSaved, Accepted, Savers, Forms
<1>2. puts["main"] \in Put
  BY <1>1, PutFields DEF NetInv
<1>3. puts' = [puts EXCEPT !["main"] = [puts["main"] EXCEPT !.at = "logging"]]
  BY DEF MainSaved
<1>4. /\ puts'["main"].at = "logging" /\ puts'["main"].sent = puts["main"].sent
      /\ puts'["main"] # None /\ \A a \in Savers \ {"main"} : puts'[a] = puts[a]
  BY <1>1, <1>2, <1>3, SettingsAssumption DEF Put, NetInv, FormsTypeOK
<1>5. GoodGet' = GoodGet
  BY <1>1 DEF GoodGet
<1>6. SentAre' /\ ReadsInv'
  BY <1>1, <1>4, <1>5 DEF NetInv, SentAre, SentOK, ReadsInv
<1>7. Alone'
  BY <1>1, <1>4 DEF NetInv, Alone, Saving
<1>8. CopyInv'
  BY <1>1, <1>4 DEF CopyInv
<1>9. StoredInv'
  BY <1>1, <1>4 DEF NetInv, StoredInv
<1>10. CleanInv'
  BY <1>1, AcceptedClean DEF CleanInv
<1> QED
  BY <1>6, <1>7, <1>8, <1>9, <1>10 DEF NetInv

LEMMA NetReload ==
  ASSUME NetInv, FormsTypeOK', Reload
  PROVE  NetInv'
<1>1. /\ gets' = <<>> /\ leaving /\ ~leaving' /\ puts' = NoneOf(Savers) /\ clean' = NoneOf(Fields)
      /\ raced' = (raced \/ Saving) /\ UNCHANGED <<db, stored>>
  BY DEF Reload
<1>2. \A by \in Savers : puts'[by] = None
  BY <1>1 DEF NoneOf
<1>3. \A f \in Fields : clean'[f] = None
  BY <1>1 DEF NoneOf
<1>4. ReadsInv'
  BY <1>1, EmptySeq DEF ReadsInv
<1>5. CopyInv'
  <2>1. ~raced' => ~raced /\ \A by \in Savers : puts[by] = None
    BY <1>1 DEF Saving
  <2> QED
    BY <1>1, <2>1 DEF NetInv, CopyInv
<1> QED
  BY <1>1, <1>2, <1>3, <1>4, <1>5 DEF NetInv, SentAre, Alone, StoredInv, CleanInv, Saving

LEMMA NetStep == NetInv /\ [FormsNext]_formVars => NetInv'
<1> SUFFICES ASSUME NetInv, [FormsNext]_formVars PROVE NetInv'
  OBVIOUS
<1>1. FormsTypeOK'
  BY FormsTypeStep DEF NetInv
<1>2. CASE \/ UNCHANGED formVars \/ TypePassword \/ ResetSmtp \/ ResetSecurity
           \/ \E f \in Fields, v \in Shown : Edit(f, v)
  <2>1. UNCHANGED <<db, puts, gets, leaving, stored, clean, assumed, raced>>
    BY <1>2 DEF formVars, TypePassword, ResetSmtp, ResetSecurity, Edit, network, ghosts
  <2>2. GoodGet' = GoodGet
    BY <2>1 DEF GoodGet
  <2> QED
    BY <1>1, <2>1, <2>2 DEF NetInv, SentAre, Alone, ReadsInv, CopyInv, StoredInv, CleanInv, Saving
<1>3. CASE Open
  BY <1>1, <1>3, NetOpen
<1>4. CASE \E k \in DOMAIN gets : \/ \E from \in {"settings", "security"} : Served(k, from)
                                 \/ SettingsLoaded(k) \/ PolicyLoaded(k) \/ RestLost(k) \/ LoadFailed(k)
  BY <1>1, <1>4, NetLoads
<1>5. CASE SaveMain \/ Import \/ \E by \in Savers : Save(by)
  <2>1. "main" \in Savers
    BY SentFields
  <2> QED
    BY <1>1, <1>5, <2>1, NetSent
<1>6. CASE \E by \in Savers : Store(by)
  BY <1>1, <1>6, NetStore
<1>7. CASE \/ MainLogged \/ SecuritySaved \/ Imported
           \/ \E by \in Savers : OtherSaved(by) \/ SaveFailed(by) \/ StoredInPart(by)
  <2>1. "main" \in Savers
    BY SentFields
  <2> QED
    BY <1>1, <1>7, <2>1, NetAnswers
<1>8. CASE MainSaved
  BY <1>1, <1>8, NetMainSaved
<1>9. CASE Reload
  BY <1>1, <1>9, NetReload
<1> QED
  BY <1>2, <1>3, <1>4, <1>5, <1>6, <1>7, <1>8, <1>9 DEF FormsNext

LEMMA SavedOK == NetInv => CleanIsStored
<1> SUFFICES ASSUME NetInv, Quiet, ~raced, NEW f \in Fields \ {"server", "on"}, clean[f] # None,
                    ~(f = "retention" /\ assumed)
             PROVE  clean[f] = db[f]
  BY DEF CleanIsStored
<1> QED
  BY DEF NetInv, CleanInv, Quiet, Saving

(* For any values of the fields, any number of loads, saves, imports and   *)
(* failures: once every request is answered, none overlapped another and   *)
(* no save was stored in part, what the forms take for loaded or saved is  *)
(* what the server has, but for a retention shown without an answer.       *)
THEOREM SavedIsStored == FormsSpec => []CleanIsStored
BY SavedOK, NetInit, NetStep, PTL DEF FormsSpec

FormInv == NetInv /\ FilledInv /\ LeftInv /\ MainInv /\ OriginalInv /\ PolicyInv /\ DirtyInv

(* The flags after updateUnsavedIndicator.                                 *)
LEMMA IndicatorIs ==
  ASSUME NEW b \in BOOLEAN, UpdateIndicator(b)
  PROVE  /\ (\E f \in Settings : form'[f] # original'[f]) => dirty'.settings
         /\ dirty'.security = b
<1>1. SettingsDiffer \in BOOLEAN
  BY DEF SettingsDiffer
<1>2. dirty'.settings = SettingsDiffer /\ dirty'.security = b
  <2> HIDE DEF SettingsDiffer
  <2> QED
    BY <1>1 DEF UpdateIndicator
<1> QED
  BY <1>2 DEF SettingsDiffer

LEMMA FormInit == FormsInit => FormInv
<1> SUFFICES ASSUME FormsInit PROVE FormInv
  OBVIOUS
<1>1. NetInv
  BY NetInit
<1>2. \A f \in Fields : clean[f] = None
  BY DEF FormsInit, NoneOf
<1>3. touched = Fields /\ Settings \subseteq Fields
  BY SentFields DEF FormsInit
<1>4. puts["main"] = None /\ SecurityFields \subseteq Fields
  BY SentFields DEF FormsInit, NoneOf
<1>5. FilledInv
  BY SentFields, SettingsAssumption DEF FilledInv, FormsInit
<1> QED
  BY <1>1, <1>2, <1>3, <1>4, <1>5 DEF FormInv, LeftInv, MainInv, OriginalInv, PolicyInv, DirtyInv

(* What the settings form has sent stays as it was while only the user      *)
(* edits.                                                                  *)
LEMMA MainKeeps ==
  ASSUME MainInv, raced => raced', touched \subseteq touched',
         \A f \in Settings : original'[f] = original[f],
         puts'["main"] = puts["main"] \/ puts'["main"] = None
  PROVE  MainInv'
BY DEF MainInv

(* A request goes or is answered, and the forms stay as they are.          *)
LEMMA FormKeeps ==
  ASSUME FormInv, NetInv', MainInv', raced => raced',
         UNCHANGED <<form, original, dirty, clean, touched, slipped>>
  PROVE  FormInv'
BY DEF FormInv, FilledInv, LeftInv, OriginalInv, PolicyInv, DirtyInv

(* The forms are filled, with no save on its way unless that is a race.    *)
LEMMA FormFill ==
  ASSUME FormInv, NetInv', NEW s \in [Settings -> Values], Populate(s), UNCHANGED <<puts, slipped>>,
         raced => raced', ~raced' => puts["main"] = None
  PROVE  FormInv'
<1>1. SecurityFields \cap Settings = {} /\ SecurityFields \subseteq Fields /\ Settings \subseteq Fields
  BY SentFields
<1>2. /\ \A f \in Settings : original'[f] = form'[f] /\ clean'[f] = form'[f]
      /\ \A f \in SecurityFields :
           form'[f] = form[f] /\ original'[f] = original[f] /\ clean'[f] = clean[f]
  BY <1>1, SentFields DEF Populate
<1>3. dirty.security \in BOOLEAN
  BY DEF FormInv, NetInv, FormsTypeOK
<1>4. dirty'.security = dirty.security
  BY <1>3, IndicatorIs DEF Populate
<1>5. LeftInv' /\ OriginalInv' /\ PolicyInv' /\ MainInv'
  BY <1>2 DEF FormInv, LeftInv, OriginalInv, PolicyInv, MainInv
<1>6. DirtyInv'
  BY <1>2, <1>4 DEF FormInv, DirtyInv
<1>7. FilledInv'
  BY <1>1, SettingsAssumption DEF Populate, FilledInv
<1> QED
  BY <1>5, <1>6, <1>7 DEF FormInv

LEMMA FormLoads ==
  ASSUME FormInv, NetInv', NEW k \in DOMAIN gets, NEW from,
         Served(k, from) \/ RestLost(k) \/ SettingsLoaded(k) \/ PolicyLoaded(k) \/ LoadFailed(k)
  PROVE  FormInv'
<1>1. UNCHANGED <<puts, raced, slipped>>
  BY DEF Served, RestLost, SettingsLoaded, PolicyLoaded, LoadFailed, ghosts
<1>2. ~raced => puts["main"] = None
  <2>1. gets # <<>> /\ "main" \in Savers
    BY SentFields
  <2> QED
    BY <2>1 DEF FormInv, NetInv, Alone, Saving
<1>3. MainInv'
  BY <1>1, <1>2 DEF MainInv
<1>4. CASE Served(k, from) \/ RestLost(k) \/ LoadFailed(k)
  BY <1>1, <1>3, <1>4, FormKeeps DEF Served, RestLost, LoadFailed, screen, ghosts
<1>5. CASE SettingsLoaded(k)
  <2>1. Populate(stored') /\ stored' = [f \in Settings |-> gets[k].rows[f]]
    BY <1>5 DEF SettingsLoaded
  <2>2. gets[k] \in Get /\ FormsTypeOK
    BY DEF FormInv, NetInv, FormsTypeOK
  <2>3. \A f \in Settings : gets[k].rows[f] \in Values
    BY <1>5, <2>2, GetTypes DEF SettingsLoaded
  <2>4. stored' \in [Settings -> Values]
    BY <2>1, <2>3
  <2> QED
    BY <1>1, <1>2, <2>1, <2>4, FormFill
<1>6. CASE PolicyLoaded(k)
  <2>1. /\ "policy" \notin Settings /\ "retention" \notin Settings
        /\ SecurityFields = {"policy", "retention"} /\ SecurityFields \subseteq Fields
        /\ Settings \subseteq Fields
    BY SentFields
  <2>a. form \in [Fields -> Shown]
    BY DEF FormInv, NetInv, FormsTypeOK
  <2>b. /\ \A f \in SecurityFields : original'[f] = form'[f] /\ clean'[f] = form'[f]
        /\ \A f \in Settings : /\ original'[f] = original[f] /\ clean'[f] = clean[f]
                               /\ (f \in touched' <=> f \in touched)
    BY <1>6, <2>1 DEF PolicyLoaded
  <2>c. \A f \in Settings : form'[f] = form[f]
    BY <1>6, <2>1, <2>a DEF PolicyLoaded
  <2>2. /\ \A f \in SecurityFields : original'[f] = form'[f] /\ clean'[f] = form'[f]
        /\ \A f \in Settings : /\ form'[f] = form[f] /\ original'[f] = original[f]
                               /\ clean'[f] = clean[f] /\ (f \in touched' <=> f \in touched)
    BY <2>b, <2>c
  <2>3. (\E f \in Settings : form'[f] # original'[f]) => dirty'.settings
    BY <1>6, IndicatorIs DEF PolicyLoaded
  <2>4. LeftInv' /\ OriginalInv' /\ PolicyInv'
    BY <1>1, <2>2 DEF FormInv, LeftInv, OriginalInv, PolicyInv
  <2>5. DirtyInv'
    BY <2>2, <2>3 DEF DirtyInv
  <2>6. FilledInv'
    BY <2>c DEF FormInv, FilledInv
  <2> QED
    BY <1>3, <2>4, <2>5, <2>6 DEF FormInv
<1> QED
  BY <1>4, <1>5, <1>6

LEMMA FormOpen ==
  ASSUME FormInv, NetInv', Open
  PROVE  FormInv'
<1>1. UNCHANGED <<puts, slipped>> /\ raced' = (raced \/ Saving \/ leaving)
  BY DEF Open
<1>2. ~raced' => puts["main"] = None
  BY <1>1, SentFields DEF Saving
<1>3. CASE stored = None
  <2>1. MainInv'
    BY <1>1, <1>2 DEF MainInv
  <2> QED
    BY <1>1, <1>3, <2>1, FormKeeps DEF Open, screen
<1>4. CASE stored # None
  <2>1. Populate(stored) /\ stored \in [Settings -> Values]
    BY <1>4 DEF Open, FormInv, NetInv, FormsTypeOK
  <2> QED
    BY <1>1, <1>2, <2>1, FormFill
<1> QED
  BY <1>3, <1>4

(* The user edits.                                                         *)
LEMMA FormEdits ==
  ASSUME FormInv, NetInv',
         \/ TypePassword \/ ResetSmtp \/ ResetSecurity
         \/ \E f \in Fields, v \in Shown : Edit(f, v)
  PROVE  FormInv'
<1>1. UNCHANGED <<puts, raced, slipped, original, clean>>
  BY DEF TypePassword, ResetSmtp, ResetSecurity, Edit, network, ghosts
<1>2. touched \subseteq touched' /\ \A f \in Fields \ touched' : form'[f] = form[f]
  <2>1. form \in [Fields -> Shown]
    BY DEF FormInv, NetInv, FormsTypeOK
  <2>2. CASE TypePassword
    BY <2>2 DEF TypePassword, ghosts
  <2>3. CASE ResetSmtp
    BY <2>1, <2>3 DEF ResetSmtp
  <2>4. CASE ResetSecurity
    BY <2>1, <2>4, SentFields DEF ResetSecurity
  <2>5. CASE \E f \in Fields, v \in Shown : Edit(f, v)
    BY <2>1, <2>5 DEF Edit
  <2> QED
    BY <2>2, <2>3, <2>4, <2>5
<1>3. Settings \subseteq Fields /\ SecurityFields \subseteq Fields /\ SecurityFields \cap Settings = {}
  BY SentFields
<1>4. MainInv'
  BY <1>1, <1>2, MainKeeps DEF FormInv
<1>5. LeftInv' /\ OriginalInv' /\ PolicyInv'
  BY <1>1, <1>2, <1>3 DEF FormInv, LeftInv, OriginalInv, PolicyInv
<1>6. dirty.security \in BOOLEAN
  BY DEF FormInv, NetInv, FormsTypeOK
<1>7. ASSUME UpdateIndicator(dirty.security), \A f \in SecurityFields : form'[f] = form[f]
      PROVE  DirtyInv'
  BY <1>1, <1>6, <1>7, IndicatorIs DEF FormInv, DirtyInv
<1>8. ASSUME UpdateIndicator(SecurityDiffers)
      PROVE  DirtyInv'
  <2>1. SecurityDiffers \in BOOLEAN
    BY DEF SecurityDiffers
  <2>2. /\ (\E f \in Settings : form'[f] # original'[f]) => dirty'.settings
        /\ dirty'.security = SecurityDiffers
    <3> HIDE DEF SecurityDiffers
    <3> QED
      BY <1>8, <2>1, IndicatorIs
  <2> QED
    BY <1>1, <2>2 DEF DirtyInv, SecurityDiffers
<1>9. DirtyInv'
  <2>1. CASE TypePassword
    BY <1>7, <2>1 DEF TypePassword
  <2>2. CASE ResetSmtp
    <3>1. \A f \in SecurityFields : form'[f] = form[f]
      BY <1>3, <2>2 DEF ResetSmtp, Settings
    <3> QED
      BY <1>7, <2>2, <3>1 DEF ResetSmtp
  <2>3. CASE ResetSecurity
    BY <1>8, <2>3 DEF ResetSecurity
  <2>4. ASSUME NEW f \in Fields, NEW v \in Shown, Edit(f, v) PROVE DirtyInv'
    <3>1. \A g \in Fields \ {f} : form'[g] = form[g]
      BY <2>4 DEF Edit, FormInv, NetInv, FormsTypeOK
    <3>2. CASE f = "title"
      <4>1. dirty' = dirty
        BY <2>4, <3>2 DEF Edit, SecurityFields
      <4> QED
        BY <1>1, <1>3, <3>1, <3>2, <4>1, SentFields DEF FormInv, DirtyInv
    <3>3. CASE f \in SecurityFields
      BY <1>8, <2>4, <3>3, SentFields DEF Edit
    <3>4. CASE f \notin {"title"} \cup SecurityFields
      BY <1>3, <1>7, <2>4, <3>1, <3>4 DEF Edit
    <3> QED
      BY <3>2, <3>3, <3>4
  <2> QED
    BY <2>1, <2>2, <2>3, <2>4
<1>10. FilledInv'
  <2>1. 0 \in Values /\ form \in [Fields -> Shown] /\ \A f \in Settings : form[f] \in Values
    BY SettingsAssumption DEF FormInv, FilledInv, NetInv, FormsTypeOK
  <2>2. CASE TypePassword
    BY <2>1, <2>2 DEF TypePassword, FilledInv
  <2>3. CASE ResetSmtp
    BY <1>3, <2>1, <2>3 DEF ResetSmtp, FilledInv
  <2>4. CASE ResetSecurity
    BY <1>3, <2>1, <2>4 DEF ResetSecurity, FilledInv
  <2>5. CASE \E f \in Fields, v \in Shown : Edit(f, v)
    <3>1. PICK f \in Fields, v \in Shown : Edit(f, v)
      BY <2>5
    <3>2. form' = [form EXCEPT ![f] = v] /\ (f \in Settings => v \in Values)
      BY <1>3, <3>1 DEF Edit, Shown
    <3> QED
      BY <1>3, <2>1, <3>2 DEF FilledInv
  <2> QED
    BY <2>2, <2>3, <2>4, <2>5
<1> QED
  BY <1>4, <1>5, <1>9, <1>10 DEF FormInv

(* A save is sent.                                                         *)
LEMMA FormSends ==
  ASSUME FormInv, NetInv', NEW by \in Savers,
         SaveMain \/ Save(by) \/ Import
  PROVE  FormInv'
<1>1. /\ UNCHANGED <<form, original, dirty, clean, touched, slipped>>
      /\ raced' = (raced \/ gets # <<>> \/ Saving)
  BY DEF SaveMain, Save, Import, Send, screen
<1>2. CASE SaveMain
  <2> DEFINE S == {f \in Settings : form[f] # original[f]}
             p == [sent |-> [f \in S |-> Coerced(form[f])], form |-> form, touched |-> touched,
                   at |-> "sent"]
  <2>1. puts'["main"] = p
    BY <1>2, SentFields DEF SaveMain, Send, FormInv, NetInv, FormsTypeOK
  <2>2. ~raced => S \subseteq touched
    BY DEF FormInv, LeftInv
  <2>3. /\ DOMAIN p.sent = S /\ p.form = form /\ p.touched = touched
        /\ \A f \in S : p.sent[f] = form[f]
    BY SettingsAssumption DEF Coerced, FormInv, FilledInv
  <2>4. \A f \in Settings : f \notin S => form[f] = original[f]
    OBVIOUS
  <2> HIDE DEF p, S
  <2>5. MainInv'
    <3> SUFFICES ASSUME ~raced PROVE
           /\ S \subseteq touched
           /\ \A f \in Settings : form[f] = IF f \in S THEN form[f] ELSE original[f]
      BY <1>1, <2>1, <2>3, SentFields DEF MainInv
    <3> QED
      BY <2>2, <2>4
  <2> QED
    BY <1>1, <2>5, FormKeeps
<1>3. CASE ~SaveMain
  <2>1. puts'["main"] = puts["main"]
    BY <1>3, SentFields DEF Save, Import, Send, FormInv, NetInv, FormsTypeOK
  <2>2. MainInv'
    BY <1>1, <2>1, MainKeeps DEF FormInv
  <2> QED
    BY <1>1, <2>2, FormKeeps
<1> QED
  BY <1>2, <1>3

(* A save is stored, or ends in a way that the forms do not see.           *)
LEMMA FormRests ==
  ASSUME FormInv, NetInv', NEW by \in Savers,
         Store(by) \/ MainLogged \/ Imported \/ SaveFailed(by) \/ StoredInPart(by)
  PROVE  FormInv'
<1>0. raced => raced'
  BY DEF Store, MainLogged, Imported, SaveFailed, StoredInPart, ghosts
<1>1. UNCHANGED <<form, original, dirty, clean, touched, slipped>> /\ (raced => raced')
  BY <1>0 DEF Store, MainLogged, Imported, SaveFailed, StoredInPart, screen, ghosts
<1>2. puts \in [Savers -> Put \cup {None}] /\ "main" \in Savers
  BY SentFields DEF FormInv, NetInv, FormsTypeOK
<1>3. CASE by = "main" /\ Store(by)
  <2>1. puts["main"] # None /\ puts["main"].at = "sent" /\ puts["main"] \in Put
    BY <1>2, <1>3 DEF Store
  <2>2. puts' = [puts EXCEPT !["main"] = [puts["main"] EXCEPT !.at = "stored"]]
    BY <1>3 DEF Store
  <2>3. /\ puts'["main"].sent = puts["main"].sent /\ puts'["main"].form = puts["main"].form
        /\ puts'["main"].touched = puts["main"].touched
    BY <1>2, <2>1, <2>2 DEF Put
  <2>4. MainInv'
    BY <1>1, <2>1, <2>3 DEF FormInv, MainInv
  <2> QED
    BY <1>1, <2>4, FormKeeps
<1>4. CASE ~(by = "main" /\ Store(by))
  <2>1. puts'["main"] = puts["main"] \/ puts'["main"] = None
    BY <1>2, <1>4 DEF Store, MainLogged, Imported, SaveFailed, StoredInPart
  <2>2. MainInv'
    BY <1>1, <2>1, MainKeeps DEF FormInv
  <2> QED
    BY <1>1, <2>2, FormKeeps
<1> QED
  BY <1>3, <1>4

(* The settings form takes note of its save.                               *)
LEMMA FormMainSaved ==
  ASSUME FormInv, NetInv', MainSaved
  PROVE  FormInv'
<1>1. /\ puts["main"] # None /\ puts["main"].at = "stored" /\ "main" \in Savers /\ Accepted("main")
      /\ UNCHANGED <<form, raced, slipped>>
  BY DEF MainSaved, Accepted, Savers, Forms
<1>2. puts["main"] \in Put
  BY <1>1, PutFields DEF FormInv, NetInv
<1>3. DOMAIN puts["main"].sent \subseteq Settings
  BY <1>1 DEF FormInv, NetInv, SentAre, SentOK
<1>4. Settings \subseteq Fields /\ SecurityFields \subseteq Fields /\ SecurityFields \cap Settings = {}
  BY SentFields
<1>5. /\ \A f \in Settings : original'[f] = puts["main"].form[f]
      /\ \A f \in SecurityFields : original'[f] = original[f] /\ clean'[f] = clean[f]
      /\ \A f \in Fields : clean'[f] = IF f \in DOMAIN puts["main"].sent THEN puts["main"].sent[f]
                                                                       ELSE clean[f]
  BY <1>3, <1>4 DEF MainSaved, Accepted
<1>6. touched' = touched \ {f \in DOMAIN puts["main"].sent : form[f] = puts["main"].sent[f]}
  BY DEF MainSaved, Accepted
<1>7. ~raced => /\ DOMAIN puts["main"].sent \subseteq puts["main"].touched
                /\ DOMAIN puts["main"].sent \subseteq touched
                /\ \A f \in Settings : puts["main"].form[f] =
                     IF f \in DOMAIN puts["main"].sent THEN puts["main"].sent[f] ELSE original[f]
  BY <1>1 DEF FormInv, MainInv
<1>8. LeftInv'
  <2>1. ASSUME ~raced, NEW f \in Settings \ touched' PROVE form[f] = puts["main"].form[f]
    <3>1. CASE f \in DOMAIN puts["main"].sent
      BY <1>6, <1>7, <2>1, <3>1
    <3>2. CASE f \notin DOMAIN puts["main"].sent
      <4>1. f \notin touched
        BY <1>6, <2>1, <3>2
      <4> QED
        BY <1>7, <2>1, <3>2, <4>1 DEF FormInv, LeftInv
    <3> QED
      BY <3>1, <3>2
  <2> QED
    BY <1>1, <1>5, <2>1 DEF LeftInv
<1>9. MainInv'
  <2>1. puts' = [puts EXCEPT !["main"] = [puts["main"] EXCEPT !.at = "logging"]]
    BY DEF MainSaved
  <2>2. /\ puts'["main"].at = "logging" /\ puts'["main"].sent = puts["main"].sent
        /\ puts'["main"].touched = puts["main"].touched
    BY <1>1, <1>2, <2>1 DEF Put, FormInv, NetInv, FormsTypeOK
  <2> QED
    BY <1>1, <1>7, <2>2 DEF MainInv
<1>10. OriginalInv'
  BY <1>1, <1>4, <1>5, <1>7 DEF FormInv, OriginalInv
<1>11. PolicyInv'
  BY <1>1, <1>5 DEF FormInv, PolicyInv
<1>12. DirtyInv'
  <2>1. dirty.security \in BOOLEAN
    BY DEF FormInv, NetInv, FormsTypeOK
  <2>2. /\ (\E f \in Settings : form'[f] # original'[f]) => dirty'.settings
        /\ dirty'.security = dirty.security
    BY <2>1, IndicatorIs DEF MainSaved
  <2> QED
    BY <1>1, <1>5, <2>2 DEF FormInv, DirtyInv
<1>13. FilledInv'
  BY <1>1 DEF FormInv, FilledInv
<1> QED
  BY <1>8, <1>9, <1>10, <1>11, <1>12, <1>13 DEF FormInv

(* Another form takes note of its save.                                    *)
LEMMA FormOtherSaved ==
  ASSUME FormInv, NetInv', NEW by \in Savers, OtherSaved(by)
  PROVE  FormInv'
<1>1. /\ by \in {"hooks", "status"} /\ puts[by] # None /\ Accepted(by)
      /\ UNCHANGED <<form, raced>> /\ puts' = [puts EXCEPT ![by] = None]
      /\ slipped' = (slipped \/ \E f \in Settings : form[f] # clean'[f])
  BY DEF OtherSaved, Accepted
<1>2. Settings \subseteq Fields /\ SecurityFields \subseteq Fields /\ SecurityFields \cap Settings = {}
  BY SentFields
<1>3. SecurityFields \cap DOMAIN puts[by].sent = {}
  BY <1>1, SentFields DEF FormInv, NetInv, SentAre, SentOK, HookFields
<1>4. /\ \A f \in Settings : original'[f] = form[f]
      /\ \A f \in SecurityFields : original'[f] = original[f] /\ clean'[f] = clean[f]
  BY <1>2, <1>3 DEF OtherSaved, Accepted
<1>5. MainInv'
  <2>1. ~raced => puts["main"] = None
    BY <1>1, SentFields DEF FormInv, NetInv, Alone
  <2>2. puts'["main"] = puts["main"]
    BY <1>1, SentFields DEF FormInv, NetInv, FormsTypeOK
  <2> QED
    BY <1>1, <2>1, <2>2 DEF MainInv
<1>6. LeftInv' /\ OriginalInv' /\ PolicyInv'
  BY <1>1, <1>4 DEF FormInv, LeftInv, OriginalInv, PolicyInv
<1>7. DirtyInv'
  <2>1. dirty.security \in BOOLEAN
    BY DEF FormInv, NetInv, FormsTypeOK
  <2>2. /\ (\E f \in Settings : form'[f] # original'[f]) => dirty'.settings
        /\ dirty'.security = dirty.security
    BY <2>1, IndicatorIs DEF OtherSaved
  <2> QED
    BY <1>1, <1>4, <2>2 DEF FormInv, DirtyInv
<1>8. FilledInv'
  BY <1>1 DEF FormInv, FilledInv
<1> QED
  BY <1>5, <1>6, <1>7, <1>8 DEF FormInv

LEMMA FormSecuritySaved ==
  ASSUME FormInv, NetInv', SecuritySaved
  PROVE  FormInv'
<1>1. /\ puts["security"] # None /\ Accepted("security") /\ UNCHANGED <<form, raced>>
      /\ "security" \in Savers /\ puts' = [puts EXCEPT !["security"] = None]
      /\ slipped' = (slipped \/ \E f \in SecurityFields : form[f] # puts["security"].form[f])
  BY SentFields DEF SecuritySaved, Accepted
<1>2. Settings \subseteq Fields /\ SecurityFields \subseteq Fields /\ SecurityFields \cap Settings = {}
  BY SentFields
<1>3. /\ DOMAIN puts["security"].sent = SecurityFields
      /\ \A f \in SecurityFields : puts["security"].sent[f] = Coerced(puts["security"].form[f])
  BY <1>1, SentFields DEF FormInv, NetInv, SentAre, SentOK
<1>4. /\ \A f \in SecurityFields : /\ original'[f] = form[f]
                                   /\ clean'[f] = Coerced(puts["security"].form[f])
      /\ \A f \in Settings : /\ original'[f] = original[f] /\ clean'[f] = clean[f]
                             /\ (f \in touched' <=> f \in touched)
  BY <1>2, <1>3 DEF SecuritySaved, Accepted
<1>5. MainInv'
  <2>1. ~raced => puts["main"] = None
    BY <1>1, SentFields DEF FormInv, NetInv, Alone
  <2>2. puts'["main"] = puts["main"]
    BY <1>1, SentFields DEF FormInv, NetInv, FormsTypeOK
  <2> QED
    BY <1>1, <2>1, <2>2 DEF MainInv
<1>6. LeftInv' /\ OriginalInv'
  BY <1>1, <1>4 DEF FormInv, LeftInv, OriginalInv
<1>8. PolicyInv'
  BY <1>1, <1>4 DEF PolicyInv, Coerced
<1>7. DirtyInv'
  <2>1. (\E f \in Settings : form'[f] # original'[f]) => dirty'.settings
    BY IndicatorIs DEF SecuritySaved
  <2> QED
    BY <1>1, <1>4, <2>1 DEF DirtyInv
<1>9. FilledInv'
  BY <1>1 DEF FormInv, FilledInv
<1> QED
  BY <1>5, <1>6, <1>7, <1>8, <1>9 DEF FormInv

LEMMA FormReload ==
  ASSUME FormInv, NetInv', Reload
  PROVE  FormInv'
<1>1. \A f \in Fields : clean'[f] = None
  BY DEF Reload, NoneOf
<1>2. touched' = Fields /\ puts'["main"] = None
  BY SentFields DEF Reload, NoneOf
<1>3. Settings \subseteq Fields /\ SecurityFields \subseteq Fields
  BY SentFields
<1>4. FilledInv'
  BY <1>3, SettingsAssumption DEF Reload, FilledInv
<1> QED
  BY <1>1, <1>2, <1>3, <1>4 DEF FormInv, LeftInv, MainInv, OriginalInv, PolicyInv, DirtyInv

LEMMA FormStep == FormInv /\ [FormsNext]_formVars => FormInv'
<1> SUFFICES ASSUME FormInv, [FormsNext]_formVars PROVE FormInv'
  OBVIOUS
<1>1. NetInv'
  BY NetStep DEF FormInv
<1>a. "main" \in Savers
  BY SentFields
<1>2. CASE UNCHANGED formVars
  BY <1>1, <1>2, MainKeeps, FormKeeps DEF formVars, FormInv
<1>3. CASE Open
  BY <1>1, <1>3, FormOpen
<1>4. CASE \E k \in DOMAIN gets : \/ \E from \in {"settings", "security"} : Served(k, from)
                                 \/ SettingsLoaded(k) \/ PolicyLoaded(k) \/ RestLost(k) \/ LoadFailed(k)
  BY <1>1, <1>4, FormLoads
<1>5. CASE \/ TypePassword \/ ResetSmtp \/ ResetSecurity
           \/ \E f \in Fields, v \in Shown : Edit(f, v)
  BY <1>1, <1>5, FormEdits
<1>6. CASE SaveMain \/ Import \/ \E by \in Savers : Save(by)
  BY <1>1, <1>a, <1>6, FormSends
<1>7. CASE MainLogged \/ Imported \/ \E by \in Savers : Store(by) \/ SaveFailed(by) \/ StoredInPart(by)
  BY <1>1, <1>a, <1>7, FormRests
<1>8. CASE MainSaved
  BY <1>1, <1>8, FormMainSaved
<1>9. CASE \E by \in Savers : OtherSaved(by)
  BY <1>1, <1>9, FormOtherSaved
<1>10. CASE SecuritySaved
  BY <1>1, <1>10, FormSecuritySaved
<1>11. CASE Reload
  BY <1>1, <1>11, FormReload
<1> QED
  BY <1>2, <1>3, <1>4, <1>5, <1>6, <1>7, <1>8, <1>9, <1>10, <1>11 DEF FormsNext

LEMMA WarnedOK == FormInv => EditsAreWarned
<1> SUFFICES ASSUME FormInv, ~slipped PROVE
       /\ ~raced /\ (\E f \in Settings \ {"title"} : Unsaved(f)) => dirty.settings
       /\ (\E f \in SecurityFields : Unsaved(f) /\ ~SavedBlank(f)) => dirty.security
  BY DEF EditsAreWarned
<1> QED
  BY DEF FormInv, OriginalInv, PolicyInv, DirtyInv, Unsaved, SavedBlank

(* For any values of the fields and any number of requests: "Unsaved       *)
(* changes" is on while a field holds an edit that was not saved, unless   *)
(* saves of two forms overlapped, one form took the edits of another for   *)
(* saved, or the security form was saved with the field blank.             *)
THEOREM WarningsAreGiven == FormsSpec => []EditsAreWarned
BY WarnedOK, FormInit, FormStep, PTL DEF FormsSpec

(* For any values of the fields and any number of requests: a save of the  *)
(* settings form changes on the server no field that the user left alone,  *)
(* unless it overlaps a load or another save.                              *)
THEOREM LeftFieldsStay == FormsSpec => DeltaOnly
<1>1. FormInv => \A f \in Fields : ~raced /\ Store("main") /\ db'[f] # db[f] => f \in puts["main"].touched
  <2> SUFFICES ASSUME FormInv, NEW f \in Fields, ~raced, Store("main"), db'[f] # db[f]
               PROVE  f \in puts["main"].touched
    OBVIOUS
  <2>1. puts["main"] # None /\ f \in DOMAIN puts["main"].sent
    BY DEF Store
  <2> QED
    BY <2>1 DEF FormInv, MainInv
<1> QED
  BY <1>1, FormInit, FormStep, PTL DEF FormsSpec, DeltaOnly

-------------------------------------------------------------------------------
(* Ranks and pages *)

(* In a finite set whose elements stand above different parts of it, nested *)
(* in each other, every rank from 1 is taken.                              *)
LEMMA RanksAreTaken ==
  ASSUME NEW S, IsFiniteSet(S), NEW below \in [S -> SUBSET S],
         \A i \in S : i \in below[i],
         \A i, j \in S : i # j => \/ below[i] \subseteq below[j] /\ j \notin below[i]
                                  \/ below[j] \subseteq below[i] /\ i \notin below[j],
         NEW r \in 1..Cardinality(S)
  PROVE  \E i \in S : Cardinality(below[i]) = r
<1> DEFINE n == Cardinality(S)
           rank == [i \in S |-> Cardinality(below[i])]
<1>1. \A i \in S : IsFiniteSet(below[i]) /\ Cardinality(below[i]) \in 1..n
  <2>1. n \in Nat
    BY FS_CardinalityType
  <2> TAKE i \in S
  <2>2. IsFiniteSet(below[i]) /\ Cardinality(below[i]) <= n
    BY FS_Subset
  <2>3. Cardinality(below[i]) \in Nat /\ Cardinality(below[i]) # 0
    BY <2>2, FS_CardinalityType, FS_EmptySet
  <2> QED
    BY <2>1, <2>2, <2>3
<1>2. \A i, j \in S : i # j => Cardinality(below[i]) # Cardinality(below[j])
  <2> SUFFICES ASSUME NEW i \in S, NEW j \in S, i # j, below[i] \subseteq below[j], j \notin below[i]
               PROVE  Cardinality(below[i]) # Cardinality(below[j])
    OBVIOUS
  <2>1. below[i] # below[j]
    OBVIOUS
  <2> QED
    BY <1>1, <2>1, FS_Subset
<1>3. rank \in Injection(S, 1..n)
  BY <1>1, <1>2 DEF Injection, IsInjective
<1>4. IsFiniteSet(1..n) /\ Cardinality(1..n) = n
  BY FS_CardinalityType, FS_Interval
<1>5. rank \in Surjection(S, 1..n)
  BY <1>3, <1>4, FS_Injection
<1> QED
  BY <1>5 DEF Surjection

(* The pages of n rows: the last one has a row, and none comes after it.   *)
LEMMA PagesOf ==
  ASSUME NEW n \in Nat \ {0}, NEW d \in Nat \ {0}
  PROVE  LET q == (n + d - 1) \div d
         IN  q \in Nat \ {0} /\ (q - 1) * d < n /\ n <= q * d
<1> DEFINE q == (n + d - 1) \div d
<1>1. q \in Int /\ q * d <= n + d - 1 /\ n + d - 1 < (q + 1) * d
  OBVIOUS
<1>2. (q + 1) * d = q * d + d /\ (q - 1) * d = q * d - d
  BY <1>1
<1>3. (q - 1) * d < n /\ n <= q * d
  BY <1>1, <1>2
<1>4. q > 0
  <2> HIDE DEF q
  <2> SUFFICES ASSUME q <= 0 PROVE FALSE
    BY <1>1
  <2>1. q * d <= 0
    BY <1>1
  <2> QED
    BY <1>1, <1>3, <2>1
<1> QED
  BY <1>1, <1>3, <1>4

LEMMA TimesGrows ==
  ASSUME NEW a \in Int, NEW b \in Int, NEW d \in Nat, a <= b
  PROVE  a * d <= b * d
<1>1. b * d = a * d + (b - a) * d
  OBVIOUS
<1>2. (b - a) * d >= 0
  OBVIOUS
<1> QED
  BY <1>1, <1>2

-------------------------------------------------------------------------------
(* The administration lists *)

LEMMA IdsFinite ==
  ASSUME NEW S \in SUBSET Ids
  PROVE  IsFiniteSet(S) /\ Cardinality(S) \in 0..Cardinality(Ids) /\ S \subseteq Nat
<1>1. IsFiniteSet(Ids) /\ Ids \subseteq Nat
  BY AdminAssumption
<1>2. IsFiniteSet(S) /\ Cardinality(S) <= Cardinality(Ids)
  BY <1>1, FS_Subset
<1>3. Cardinality(S) \in Nat /\ Cardinality(Ids) \in Nat
  BY <1>1, <1>2, FS_CardinalityType
<1> QED
  BY <1>1, <1>2, <1>3

LEMMA PagesType ==
  ASSUME NEW S, IsFiniteSet(S)
  PROVE  Pages(S) \in Nat \ {0}
<1>1. CASE S = {}
  BY <1>1 DEF Pages
<1>2. CASE S # {}
  <2>1. Cardinality(S) \in Nat \ {0} /\ PageSize \in Nat \ {0}
    BY <1>2, FS_CardinalityType, FS_EmptySet, AdminAssumption
  <2> QED
    BY <1>2, <2>1, PagesOf DEF Pages
<1> QED
  BY <1>1, <1>2

(* A page that is one of the pages of some rows shows one of them.         *)
LEMMA PageHasRow ==
  ASSUME NEW S \in SUBSET Ids, S # {}, NEW p \in Nat \ {0}, p <= Pages(S)
  PROVE  PageOf(S, p) # {}
<1> DEFINE below == [i \in S |-> {j \in S : j <= i}]
           n == Cardinality(S)
           r == (p - 1) * PageSize + 1
<1>1. S \subseteq Nat /\ IsFiniteSet(S) /\ n \in Nat \ {0} /\ PageSize \in Nat \ {0}
  BY IdsFinite, FS_CardinalityType, FS_EmptySet, AdminAssumption
<1>2. /\ below \in [S -> SUBSET S] /\ \A i \in S : i \in below[i]
      /\ \A i, j \in S : i # j => \/ below[i] \subseteq below[j] /\ j \notin below[i]
                                  \/ below[j] \subseteq below[i] /\ i \notin below[j]
  <2>1. below \in [S -> SUBSET S]
    OBVIOUS
  <2>2. \A i \in S : i \in below[i]
    BY <1>1
  <2>3. ASSUME NEW i \in S, NEW j \in S, i < j
        PROVE  below[i] \subseteq below[j] /\ j \notin below[i]
    <3>1. i \in Nat /\ j \in Nat
      BY <1>1
    <3>2. \A k \in S : k \in Nat
      BY <1>1
    <3>3. below[i] = {k \in S : k <= i} /\ below[j] = {k \in S : k <= j}
      OBVIOUS
    <3>4. \A k \in S : k <= i => k <= j
      BY <2>3, <3>1, <3>2
    <3>5. ~(j <= i)
      BY <2>3, <3>1
    <3> HIDE DEF below
    <3> QED
      BY <3>3, <3>4, <3>5
  <2>4. \A i, j \in S : i # j => i < j \/ j < i
    BY <1>1
  <2> HIDE DEF below
  <2> QED
    BY <2>1, <2>2, <2>3, <2>4
<1>3. Pages(S) \in Nat \ {0} /\ (Pages(S) - 1) * PageSize < n
  BY <1>1, PagesOf DEF Pages
<1>4. (p - 1) * PageSize <= (Pages(S) - 1) * PageSize
  <2>1. p - 1 \in Int /\ Pages(S) - 1 \in Int /\ p - 1 <= Pages(S) - 1
    BY <1>3
  <2> QED
    BY <1>1, <2>1, TimesGrows
<1>5. (p - 1) * PageSize \in Nat /\ p * PageSize = (p - 1) * PageSize + PageSize
      /\ (Pages(S) - 1) * PageSize \in Int
  BY <1>1, <1>3
<1>6. r \in 1..n
  BY <1>1, <1>3, <1>4, <1>5
<1>7. PICK i \in S : Cardinality(below[i]) = r
  <2>1. IsFiniteSet(S) /\ r \in 1..Cardinality(S)
    BY <1>1, <1>6
  <2> HIDE DEF below, r
  <2> QED
    BY <1>2, <2>1, RanksAreTaken, SMTT(60)
<1>8. (p - 1) * PageSize < r /\ r <= p * PageSize
  BY <1>1, <1>5
<1>9. Cardinality({j \in S : j <= i}) = r
  BY <1>7
<1> QED
  BY <1>8, <1>9 DEF PageOf

LEMMA TableRows ==
  ASSUME NEW f \in Tables
  PROVE  DOMAIN f \in SUBSET Ids /\ f \in [DOMAIN f -> {0, 1}]
BY DEF Tables

LEMMA RowsTable ==
  ASSUME NEW S \in SUBSET Ids, NEW f \in [S -> {0, 1}]
  PROVE  f \in Tables
BY DEF Tables

LEMMA EmptyTable == Empty \in Tables /\ DOMAIN Empty = {} /\ \A f : DOMAIN f = {} /\ f \in Tables => f = Empty
BY DEF Empty, Tables

LEMMA SearchedIn ==
  ASSUME NEW S \in SUBSET Ids, NEW t \in BOOLEAN, NEW p
  PROVE  /\ Searched(S, t) \in SUBSET Ids /\ PageOf(S, p) \in SUBSET S
         /\ PageOf(Searched(S, t), p) \in SUBSET Ids
BY DEF Searched, PageOf

LEMMA ClampedPage ==
  ASSUME NEW S \in SUBSET Ids, NEW p \in Nat \ {0}
  PROVE  Clamped(p, S) \in Nat \ {0} /\ Clamped(p, S) <= Pages(S)
<1>1. Pages(S) \in Nat \ {0}
  BY IdsFinite, PagesType
<1> QED
  BY <1>1 DEF Clamped

(* Boxes are ticked only on keys and backups, the log is not kept in       *)
(* memory, and only its search waits for the timer.                        *)
BoxesAre ==
  /\ kind \in {"users", "logs"} => ticked = {}
  /\ typing => kind = "logs"
  /\ kind = "logs" => cache = Empty

ListsTyped == ListsTypeOK /\ BoxesAre

LEMMA ListsInitType == ListsInit => ListsTyped
<1> SUFFICES ASSUME ListsInit PROVE ListsTyped
  OBVIOUS
<1>1. table \in Tables
  BY DEF ListsInit, Tables
<1>2. cache \in Tables /\ cache = Empty
  BY EmptyTable DEF ListsInit
<1>3. loads \in Seq(Asked)
  BY EmptySeq DEF ListsInit
<1>4. Cardinality(Ids) \in Nat /\ 0 \in 0..MaxFailures
  BY FS_CardinalityType, AdminAssumption
<1>5. kind \in Kinds /\ {loaded, next, text, typing, disturbed, beyond} \subseteq BOOLEAN
  BY DEF ListsInit
<1> QED
  BY <1>1, <1>2, <1>3, <1>4, <1>5 DEF ListsInit, ListsTyped, ListsTypeOK, BoxesAre

(* A GET is one more load, and rows go from the screen but for keys.       *)
LEMMA AskTyped ==
  ASSUME ListsTyped, Ask, page' \in Nat \ {0}, text' \in BOOLEAN
  PROVE  /\ loads' \in Seq(Asked) /\ loads' # <<>> /\ Len(loads') = Len(loads) + 1
         /\ loads = <<>> => /\ DOMAIN loads' = {1} /\ loads'[1].page = page'
                            /\ loads'[1].text = text' /\ loads'[1].rows = None
         /\ shown' \subseteq Ids /\ ticked' \subseteq shown'
         /\ kind # "keys" => shown' = {} /\ ticked' = {}
<1> DEFINE new == [page |-> page', text |-> text', rows |-> None]
<1>1. new \in Asked
  BY DEF Asked
<1>2. loads' = Append(loads, new) /\ loads \in Seq(Asked)
  BY DEF Ask, ListsTyped, ListsTypeOK
<1>3. new.page = page' /\ new.text = text' /\ new.rows = None
  OBVIOUS
<1>4. shown' \subseteq Ids /\ ticked' \subseteq shown' /\ (kind # "keys" => shown' = {} /\ ticked' = {})
  BY DEF Ask, ListsTyped, ListsTypeOK
<1>5. loads' \in Seq(Asked) /\ loads' # <<>> /\ Len(loads') = Len(loads) + 1
      /\ (loads = <<>> => DOMAIN loads' = {1} /\ loads'[1] = new)
  <2> HIDE DEF new
  <2> QED
    BY <1>1, <1>2
<1> HIDE DEF new
<1> QED
  BY <1>3, <1>4, <1>5

(* An answer ends its load.                                                *)
LEMMA AnswerTyped ==
  ASSUME ListsTyped, NEW k \in DOMAIN loads, loads' = RemoveAt(loads, k)
  PROVE  /\ loads' \in Seq(Asked) /\ loads[k] \in Asked
         /\ loads[k].rows # None => loads[k].rows \in Tables
         /\ loads[k].page \in Nat \ {0} /\ loads[k].text \in BOOLEAN
<1>1. loads \in Seq(Asked) /\ loads[k] \in Asked
  BY DEF ListsTyped, ListsTypeOK
<1>2. loads' \in Seq(Asked)
  BY <1>1, RemoveAtSeq
<1> QED
  BY <1>1, <1>2 DEF Asked

LEMMA DrawTyped ==
  ASSUME NEW r \in Tables, NEW p \in Nat \ {0}, text' \in BOOLEAN, DrawBackups(r, p)
  PROVE  /\ page' \in Nat \ {0} /\ shown' \subseteq Ids /\ ticked' \subseteq shown'
         /\ shown' = PageOf(Searched(DOMAIN r, text'), page') /\ ticked' = shown' \cap selected'
         /\ page' <= Pages(Searched(DOMAIN r, text'))
<1>1. Searched(DOMAIN r, text') \in SUBSET Ids
  BY TableRows DEF Searched
<1>2. page' = Clamped(p, Searched(DOMAIN r, text'))
  BY DEF DrawBackups
<1>3. page' \in Nat \ {0} /\ page' <= Pages(Searched(DOMAIN r, text'))
  BY <1>1, <1>2, ClampedPage
<1>4. shown' = PageOf(Searched(DOMAIN r, text'), page') /\ ticked' = shown' \cap selected'
  BY DEF DrawBackups
<1>5. shown' \subseteq Ids
  BY <1>1, <1>4 DEF PageOf
<1> QED
  BY <1>3, <1>4, <1>5

LEMMA LoadsTyped ==
  ASSUME ListsTyped, NEW k \in DOMAIN loads,
         \/ ListServed(k) \/ KeysLoaded(k) \/ UsersLoaded(k)
         \/ BackupsLoaded(k) \/ LogsLoaded(k) \/ ListFailed(k)
  PROVE  ListsTyped'
<1>a. /\ {table, cache} \subseteq Tables /\ page \in Nat \ {0} /\ text \in BOOLEAN
      /\ loads \in Seq(Asked) /\ 0 \in 0..Cardinality(Ids)
  BY FS_CardinalityType, AdminAssumption DEF ListsTyped, ListsTypeOK
<1>1. CASE ListServed(k)
  <2>0. loads[k] \in Asked
    BY <1>a
  <2>1. [loads[k] EXCEPT !.rows = table] \in Asked
    BY <1>a, <2>0 DEF Asked
  <2>2. loads' = [loads EXCEPT ![k] = [loads[k] EXCEPT !.rows = table]]
    BY <1>1 DEF ListServed
  <2>3. loads' \in Seq(Asked)
    BY <1>a, <2>1, <2>2, OneReplacedSeq
  <2> QED
    BY <1>1, <2>3 DEF ListServed, ListsTyped, ListsTypeOK, BoxesAre, memory, control, listScreen
<1>2. CASE KeysLoaded(k)
  <2>1. loads' \in Seq(Asked) /\ loads[k].rows \in Tables
    BY <1>2, AnswerTyped DEF KeysLoaded, Answered
  <2>2. cache' \in Tables /\ shown' \subseteq Ids /\ ticked' = {} /\ kind = "keys"
    BY <1>2, <2>1, TableRows DEF KeysLoaded
  <2> QED
    BY <1>2, <1>a, <2>1, <2>2 DEF KeysLoaded, ListsTyped, ListsTypeOK, BoxesAre, control
<1>3. CASE UsersLoaded(k)
  <2>1. loads' \in Seq(Asked) /\ loads[k].rows \in Tables
    BY <1>3, AnswerTyped DEF UsersLoaded, Answered
  <2>2. cache' \in Tables /\ kind = "users"
    BY <1>3, <2>1 DEF UsersLoaded
  <2>3. shown' \subseteq Ids /\ ticked = {}
    BY <1>3, <1>a, <2>2, TableRows, SearchedIn DEF UsersLoaded, ListsTyped, BoxesAre
  <2> QED
    BY <1>3, <2>1, <2>2, <2>3 DEF UsersLoaded, ListsTyped, ListsTypeOK, BoxesAre, control
<1>4. CASE BackupsLoaded(k)
  <2>1. loads' \in Seq(Asked) /\ loads[k].rows \in Tables /\ text' = text
    BY <1>4, AnswerTyped DEF BackupsLoaded, Answered
  <2>2. cache' = loads[k].rows /\ kind = "backups" /\ kind' = kind
    BY <1>4 DEF BackupsLoaded
  <2>3. DrawBackups(loads[k].rows, page)
    BY <1>4, <2>2 DEF BackupsLoaded
  <2>4. page' \in Nat \ {0} /\ shown' \subseteq Ids /\ ticked' \subseteq shown'
    BY <1>a, <2>1, <2>3, DrawTyped
  <2> QED
    BY <1>4, <2>1, <2>2, <2>4 DEF BackupsLoaded, ListsTyped, ListsTypeOK, BoxesAre
<1>5. CASE LogsLoaded(k)
  <2> DEFINE S == Searched(DOMAIN loads[k].rows, loads[k].text)
  <2>1. loads' \in Seq(Asked) /\ loads[k].rows \in Tables /\ loads[k].text \in BOOLEAN
    BY <1>5, AnswerTyped DEF LogsLoaded, Answered
  <2>2. S \in SUBSET Ids
    BY <2>1, TableRows DEF Searched
  <2>3. /\ total' = Cardinality(S) /\ shown' = PageOf(S, loads[k].page) /\ page' = Clamped(page, S)
        /\ next' = (page' < Pages(S)) /\ beyond' = (loads[k].page > Pages(S)) /\ kind = "logs"
    BY <1>5 DEF LogsLoaded
  <2> HIDE DEF S
  <2>4. total' \in 0..Cardinality(Ids) /\ shown' \subseteq Ids /\ page' \in Nat \ {0}
    BY <1>a, <2>2, <2>3, IdsFinite, ClampedPage DEF PageOf
  <2>5. next' \in BOOLEAN /\ beyond' \in BOOLEAN
    BY <2>3
  <2>6. ticked = {} /\ ticked' = ticked /\ kind' = kind
    BY <1>5, <2>3 DEF LogsLoaded, ListsTyped, BoxesAre
  <2> QED
    BY <1>5, <2>1, <2>3, <2>4, <2>5, <2>6 DEF LogsLoaded, ListsTyped, ListsTypeOK, BoxesAre
<1>6. CASE ListFailed(k)
  <2>1. loads' \in Seq(Asked)
    BY <1>6, AnswerTyped DEF ListFailed
  <2>2. failures' \in 0..MaxFailures /\ UNCHANGED <<kind, ops>>
    BY <1>6, AdminAssumption DEF ListFailed, ListFails, ListsTyped, ListsTypeOK
  <2> QED
    BY <1>6, <2>1, <2>2 DEF ListFailed, ListsTyped, ListsTypeOK, BoxesAre, memory, control
<1> QED
  BY <1>1, <1>2, <1>3, <1>4, <1>5, <1>6

(* Whatever asks for the list again: the view or the tab, a search, a      *)
(* filter, a page of the log.                                              *)
LEMMA AsksTyped ==
  ASSUME ListsTyped,
         Ask, kind' = kind, page' \in Nat \ {0}, text' \in BOOLEAN, ops' \in Nat,
         table' \in Tables, cache' \in Tables, kind = "logs" => cache' = Empty,
         {loaded', typing', disturbed'} \subseteq BOOLEAN, typing' => kind = "logs",
         selected' \subseteq Ids, reqs' \subseteq [what : Ops, ids : SUBSET Ids],
         UNCHANGED <<total, next, button, failures, beyond>>
  PROVE  ListsTyped'
BY AskTyped DEF ListsTyped, ListsTypeOK, BoxesAre

LEMMA SearchesTyped ==
  ASSUME ListsTyped, OpenList \/ Search \/ SearchFires \/ FilterLogs \/ PageBackups \/ PageLogs
  PROVE  ListsTyped'
<1>a. /\ {table, cache} \subseteq Tables /\ page \in Nat \ {0} /\ text \in BOOLEAN
      /\ ops \in Nat /\ total \in 0..Cardinality(Ids) /\ Cardinality(Ids) \in Nat
      /\ {loaded, typing, disturbed} \subseteq BOOLEAN /\ selected \subseteq Ids
      /\ reqs \subseteq [what : Ops, ids : SUBSET Ids]
      /\ typing => kind = "logs"
      /\ kind = "logs" => cache = Empty
  BY FS_CardinalityType, AdminAssumption DEF ListsTyped, ListsTypeOK, BoxesAre
<1>b. ASSUME Clicks PROVE ops' \in Nat /\ kind' = kind /\ failures' = failures
  BY <1>a, <1>b DEF Clicks, UserActs
<1>1. CASE OpenList
  <2>1. page' \in Nat \ {0} /\ text' \in BOOLEAN /\ cache' \in Tables /\ selected' \subseteq Ids
        /\ (kind = "logs" => cache' = Empty)
    <3>1. CASE kind = "backups"
      <4>1. page' = 1 /\ text' = FALSE /\ selected' = {} /\ cache' = Empty
        BY <1>1, <3>1 DEF OpenList
      <4>2. cache' \in Tables
        BY <4>1, EmptyTable
      <4>3. page' \in Nat \ {0}
        BY <4>1
      <4>5. text' \in BOOLEAN
        BY <4>1, Zenon
      <4>4. selected' \subseteq Ids
        BY <4>1
      <4> QED
        BY <3>1, <4>2, <4>3, <4>4, <4>5
    <3>2. CASE kind # "backups"
      <4>1. UNCHANGED <<page, text, selected, cache>>
        BY <1>1, <3>2 DEF OpenList
      <4> QED
        BY <1>a, <4>1
    <3> QED
      BY <3>1, <3>2
  <2>2. Clicks /\ Ask /\ loaded' \in BOOLEAN /\ disturbed' \in BOOLEAN
    BY <1>1 DEF OpenList
  <2>3. UNCHANGED <<table, total, next, typing, button, reqs, beyond>>
    BY <1>1 DEF OpenList
  <2> QED
    BY <1>a, <1>b, <2>1, <2>2, <2>3, AsksTyped
<1>2. CASE Search
  <2>1. Clicks /\ text' \in BOOLEAN /\ kind # "keys" /\ kind \in Kinds
        /\ UNCHANGED <<table, cache, loaded, total, next, selected, button, reqs, beyond>>
    BY <1>2 DEF Search, ListsTyped, ListsTypeOK
  <2>2. CASE kind = "users"
    <3>1. shown' = Searched(DOMAIN cache, text') /\ UNCHANGED <<page, typing, ticked, loads, disturbed>>
      BY <1>2, <2>2 DEF Search
    <3>2. DOMAIN cache \in SUBSET Ids
      BY <1>a, TableRows
    <3>3. shown' \subseteq Ids /\ ticked = {}
      BY <2>2, <3>1, <3>2 DEF Searched, ListsTyped, BoxesAre
    <3> QED
      BY <1>b, <2>1, <2>2, <3>1, <3>3 DEF ListsTyped, ListsTypeOK, BoxesAre
  <2>3. CASE kind = "backups"
    <3>1. page' = 1 /\ Ask /\ disturbed' = ~Answerless /\ UNCHANGED typing
      BY <1>2, <2>3 DEF Search
    <3> QED
      BY <1>a, <1>b, <2>1, <3>1, AsksTyped
  <2>4. CASE kind = "logs"
    <3>1. page' = 1 /\ typing' = TRUE /\ UNCHANGED <<shown, ticked, loads, disturbed>>
      BY <1>2, <2>4 DEF Search
    <3> QED
      BY <1>b, <2>1, <2>4, <3>1 DEF ListsTyped, ListsTypeOK, BoxesAre
  <2> QED
    BY <2>1, <2>2, <2>3, <2>4, AdminAssumption
<1>3. CASE SearchFires
  <2>1. /\ Ask /\ typing' = FALSE /\ disturbed' = ~Answerless
        /\ UNCHANGED <<kind, table, cache, loaded, total, next, selected, page, text, button, reqs,
                       ops, failures, beyond>>
    BY <1>3 DEF SearchFires, memory
  <2> QED
    BY <1>a, <2>1, AsksTyped
<1>4. CASE FilterLogs
  <2>1. /\ Ask /\ Clicks /\ text' \in BOOLEAN /\ page' = 1 /\ disturbed' = ~Answerless
        /\ UNCHANGED <<table, cache, loaded, total, next, selected, typing, button, reqs, beyond>>
    BY <1>4 DEF FilterLogs, memory
  <2> QED
    BY <1>a, <1>b, <2>1, AsksTyped
<1>5. CASE PageBackups
  <2>1. /\ Clicks /\ kind = "backups"
        /\ UNCHANGED <<table, cache, loaded, total, next, selected, text, typing, button, loads, reqs,
                       disturbed, beyond>>
    BY <1>5 DEF PageBackups, memory
  <2>2. PICK p \in 1..Pages(Searched(DOMAIN cache, text)) :
          IF cache = Empty THEN page' = p /\ UNCHANGED <<shown, ticked>> ELSE DrawBackups(cache, p)
    BY <1>5 DEF PageBackups
  <2>3. p \in Nat \ {0}
    <3>1. Searched(DOMAIN cache, text) \in SUBSET Ids
      BY <1>a, TableRows DEF Searched
    <3>2. Pages(Searched(DOMAIN cache, text)) \in Nat
      BY <3>1, IdsFinite, PagesType
    <3> QED
      BY <3>2
  <2>4. page' \in Nat \ {0} /\ shown' \subseteq Ids /\ ticked' \subseteq shown'
    <3>1. CASE cache = Empty
      BY <2>2, <2>3, <3>1 DEF ListsTyped, ListsTypeOK
    <3>2. CASE cache # Empty
      <4>1. DrawBackups(cache, p) /\ text' \in BOOLEAN
        BY <1>a, <2>1, <2>2, <3>2
      <4> QED
        BY <1>a, <2>3, <4>1, DrawTyped
    <3> QED
      BY <3>1, <3>2
  <2> QED
    BY <1>b, <2>1, <2>4 DEF ListsTyped, ListsTypeOK, BoxesAre
<1>6. CASE PageLogs
  <2>1. /\ Ask /\ Clicks /\ disturbed' = ~Answerless
        /\ UNCHANGED <<table, cache, loaded, total, next, selected, text, typing, button, reqs, beyond>>
    BY <1>6 DEF PageLogs, memory
  <2>2. page' \in Nat \ {0}
    <3>1. Pages(1..total) \in Nat
      BY <1>a, FS_Interval, PagesType
    <3>2. \/ page' = page - 1 /\ page' >= 1
          \/ page' = page + 1
          \/ page' \in 1..Pages(1..total)
      BY <1>6 DEF PageLogs
    <3> QED
      BY <1>a, <3>1, <3>2
  <2> QED
    BY <1>a, <1>b, <2>1, <2>2, AsksTyped
<1> QED
  BY <1>1, <1>2, <1>3, <1>4, <1>5, <1>6

(* An operation leaves a table of the rows there can be.                   *)
LEMMA EffectTyped ==
  ASSUME table \in Tables, NEW what \in Ops, NEW S \in SUBSET Ids, Effect(what, S)
  PROVE  table' \in Tables
<1>1. DOMAIN table \in SUBSET Ids /\ \A i \in DOMAIN table : table[i] \in {0, 1}
  BY TableRows
<1>2. CASE what = "create"
  <2>1. PICK R : table' = [i \in (DOMAIN table \cup S) \ R |-> IF i \in DOMAIN table THEN table[i] ELSE 1]
    BY <1>2 DEF Effect
  <2>2. (DOMAIN table \cup S) \ R \in SUBSET Ids
    BY <1>1
  <2>3. table' \in [(DOMAIN table \cup S) \ R -> {0, 1}]
    BY <1>1, <2>1
  <2> QED
    BY <2>2, <2>3, RowsTable
<1>3. CASE what \in {"delete", "deleteTicked"}
  <2>1. table' = [i \in DOMAIN table \ S |-> table[i]]
    BY <1>3 DEF Effect
  <2>2. DOMAIN table \ S \in SUBSET Ids /\ table' \in [DOMAIN table \ S -> {0, 1}]
    BY <1>1, <2>1
  <2> QED
    BY <2>2, RowsTable
<1>4. CASE what = "toggle"
  <2>1. table' = [i \in DOMAIN table |-> IF i \in S THEN 1 - table[i] ELSE table[i]]
    BY <1>4 DEF Effect
  <2>2. table' \in [DOMAIN table -> {0, 1}]
    BY <1>1, <2>1
  <2> QED
    BY <1>1, <2>2, RowsTable
<1>5. CASE what = "clear"
  <2>1. PICK i \in S : table' = [j \in {i} |-> 1]
    BY <1>5 DEF Effect
  <2>2. {i} \in SUBSET Ids /\ table' \in [{i} -> {0, 1}]
    BY <2>1
  <2> QED
    BY <2>2, RowsTable
<1> QED
  BY <1>2, <1>3, <1>4, <1>5 DEF Ops

LEMMA RequestsTyped ==
  ASSUME ListsTyped,
         \/ OpenListLoaded \/ Start \/ \E i \in Ids : Tick(i)
         \/ \E r \in reqs : Done(r) \/ Failed(r)
  PROVE  ListsTyped'
<1>a. /\ {table, cache} \subseteq Tables /\ page \in Nat \ {0} /\ text \in BOOLEAN
      /\ ops \in Nat /\ {loaded, typing, disturbed} \subseteq BOOLEAN /\ selected \subseteq Ids
      /\ reqs \subseteq [what : Ops, ids : SUBSET Ids] /\ shown \subseteq Ids /\ ticked \subseteq shown
      /\ typing => kind = "logs"
      /\ kind = "logs" => cache = Empty
  BY DEF ListsTyped, ListsTypeOK, BoxesAre
<1>b. ASSUME Clicks PROVE ops' \in Nat /\ kind' = kind /\ failures' = failures
  BY <1>a, <1>b DEF Clicks, UserActs
<1>1. CASE OpenListLoaded
  BY <1>1, <1>b DEF OpenListLoaded, ListsTyped, ListsTypeOK, BoxesAre, memory, control, listScreen
<1>2. ASSUME NEW i \in Ids, Tick(i) PROVE ListsTyped'
  <2>1. /\ Clicks /\ kind \in {"keys", "backups"}
        /\ UNCHANGED <<table, cache, loaded, total, next, page, text, typing, shown, loads, reqs,
                       disturbed, beyond>>
    BY <1>2 DEF Tick, control
  <2>2. ticked' \subseteq shown
    BY <1>2, <1>a DEF Tick
  <2>3. selected' \subseteq Ids
    BY <1>2, <1>a DEF Tick
  <2>4. button' \in 0..Cardinality(Ids)
    <3>1. button' = Cardinality(ticked') \/ button' = Cardinality(selected')
      BY <1>2 DEF Tick
    <3>2. ticked' \in SUBSET Ids /\ selected' \in SUBSET Ids
      BY <1>a, <2>2, <2>3
    <3> QED
      BY <3>1, <3>2, IdsFinite
  <2> QED
    BY <1>b, <2>1, <2>2, <2>3, <2>4 DEF ListsTyped, ListsTypeOK, BoxesAre
<1>3. CASE Start
  <2>1. /\ Clicks /\ disturbed' \in BOOLEAN
        /\ UNCHANGED <<table, memory, control, listScreen, loads, beyond>>
    BY <1>3, <1>a DEF Start
  <2>2. PICK what \in Ops, S \in SUBSET Ids : reqs' = reqs \cup {[what |-> what, ids |-> S]}
    BY <1>3 DEF Start
  <2>3. reqs' \subseteq [what : Ops, ids : SUBSET Ids]
    BY <1>a, <2>2
  <2> QED
    BY <1>b, <2>1, <2>3 DEF ListsTyped, ListsTypeOK, BoxesAre, memory, control, listScreen
<1>4. ASSUME NEW r \in reqs, Done(r) PROVE ListsTyped'
  <2>1. r.what \in Ops /\ r.ids \in SUBSET Ids
    BY <1>a
  <2>2. table' \in Tables
    <3>1. Effect(r.what, r.ids)
      BY <1>4 DEF Done
    <3> QED
      BY <1>a, <2>1, <3>1, EffectTyped
  <2>3. cache' \in Tables /\ (kind = "logs" => cache' = Empty)
    <3>1. CASE cache' = cache
      BY <1>a, <3>1
    <3>2. CASE cache' # cache
      <4>1. cache' = [i \in DOMAIN cache |-> IF i \in r.ids THEN 1 - cache[i] ELSE cache[i]]
        BY <1>4, <3>2 DEF Done
      <4>2. DOMAIN cache \in SUBSET Ids /\ \A i \in DOMAIN cache : cache[i] \in {0, 1}
        BY <1>a, TableRows
      <4>3. cache' \in [DOMAIN cache -> {0, 1}]
        BY <4>1, <4>2
      <4>4. cache' \in Tables
        BY <4>2, <4>3, RowsTable
      <4>5. kind = "logs" => DOMAIN cache' = {}
        BY <1>a, <4>1, EmptyTable
      <4> QED
        BY <4>4, <4>5, EmptyTable
    <3> QED
      BY <3>1, <3>2
  <2>4. selected' \subseteq Ids
    BY <1>4, <1>a DEF Done
  <2>5. /\ Ask /\ loaded' \in BOOLEAN /\ reqs' \subseteq reqs
        /\ UNCHANGED <<kind, total, next, page, text, typing, button, ops, failures, disturbed, beyond>>
    BY <1>4, <1>a DEF Done, control
  <2> QED
    BY <1>a, <2>2, <2>3, <2>4, <2>5, AsksTyped
<1>5. ASSUME NEW r \in reqs, Failed(r) PROVE ListsTyped'
  <2>1. /\ failures' \in 0..MaxFailures /\ UNCHANGED <<kind, ops>>
        /\ UNCHANGED <<memory, control, listScreen, loads, beyond>>
        /\ reqs' \subseteq reqs
    BY <1>5, AdminAssumption DEF Failed, ListFails, ListsTyped, ListsTypeOK
  <2>2. table' \in Tables
    <3>1. r.what \in Ops /\ r.ids \in SUBSET Ids
      BY <1>a
    <3>2. \/ table' = table \/ table' = Empty
          \/ \E S \in SUBSET r.ids : Effect(r.what, S)
      BY <1>5 DEF Failed
    <3> QED
      BY <1>a, <3>1, <3>2, EmptyTable, EffectTyped
  <2>3. disturbed' \in BOOLEAN
    BY <1>5, <1>a DEF Failed
  <2> QED
    BY <2>1, <2>2, <2>3 DEF ListsTyped, ListsTypeOK, BoxesAre, memory, control, listScreen
<1> QED
  BY <1>1, <1>2, <1>3, <1>4, <1>5

LEMMA ListsTypeStep == ListsTyped /\ [ListsNext]_listVars => ListsTyped'
<1> SUFFICES ASSUME ListsTyped, [ListsNext]_listVars PROVE ListsTyped'
  OBVIOUS
<1>1. CASE UNCHANGED listVars
  BY <1>1 DEF listVars, ListsTyped, ListsTypeOK, BoxesAre
<1>2. CASE ListsNext
  BY <1>2, LoadsTyped, SearchesTyped, RequestsTyped DEF ListsNext
<1> QED
  BY <1>1, <1>2

(* For any rows and any number of requests: every variable of the lists    *)
(* holds values of its type.                                               *)
THEOREM ListsTypeCorrect == ListsSpec => []ListsTypeOK
<1>1. ListsTyped => ListsTypeOK
  BY DEF ListsTyped
<1> QED
  BY <1>1, ListsInitType, ListsTypeStep, PTL DEF ListsSpec

-------------------------------------------------------------------------------
(* The administration lists: what holds while requests do not overlap      *)

(* Without a disturbance one request is on its way at a time, and what a    *)
(* load has read is what the server has.                                    *)
Serial ==
  ~disturbed => /\ Len(loads) <= 1 /\ (loads # <<>> => reqs = {})
                /\ \A r, s \in reqs : r = s
                /\ \A k \in DOMAIN loads : loads[k].rows \in {None, table}

(* The log is asked for the page and the search on the screen, but for      *)
(* what is being typed.                                                     *)
LogAsks ==
  kind = "logs" /\ ~disturbed /\ ~typing =>
    \A k \in DOMAIN loads : loads[k].page = page /\ loads[k].text = text

(* Between loads the list is what ListIsCurrent says, also while an         *)
(* operation is on its way, and the page of backups is one there is.        *)
ListsCurrent ==
  ~disturbed /\ loads = <<>> /\ ~typing =>
    IF kind = "logs" THEN ~beyond /\ total > 0 => shown = Expected
    ELSE cache # Empty => cache = table /\ shown = Expected
PageClamped ==
  kind = "backups" /\ ~disturbed /\ loads = <<>> /\ cache # Empty =>
    page <= Pages(Searched(DOMAIN cache, text))

ListsInv == ListsTyped /\ TickedIsSelected /\ Serial /\ LogAsks /\ ListsCurrent /\ PageClamped

LEMMA ListsInvInit == ListsInit => ListsInv
<1> SUFFICES ASSUME ListsInit PROVE ListsInv
  OBVIOUS
<1>1. ListsTyped
  BY ListsInitType
<1>2. loads = <<>> /\ reqs = {} /\ cache = Empty /\ total = 0 /\ ticked = {} /\ shown = {}
  BY DEF ListsInit
<1>3. Len(loads) <= 1 /\ DOMAIN loads = {}
  BY <1>2
<1> QED
  BY <1>1, <1>2, <1>3
     DEF ListsInv, TickedIsSelected, Serial, LogAsks, ListsCurrent, PageClamped

(* A GET, of whichever action: that no request is on its way beside it, or  *)
(* the list counts as disturbed.                                            *)
LEMMA AskKeeps ==
  ASSUME ListsInv, ListsTyped', Ask, kind' = kind, ~disturbed' => loads = <<>> /\ reqs' = {}
  PROVE  ListsInv'
<1>1. page' \in Nat \ {0} /\ text' \in BOOLEAN
  BY DEF ListsTyped, ListsTypeOK
<1>2. /\ loads' # <<>> /\ Len(loads') = Len(loads) + 1
      /\ loads = <<>> => /\ DOMAIN loads' = {1} /\ loads'[1].page = page'
                         /\ loads'[1].text = text' /\ loads'[1].rows = None
      /\ kind # "keys" => shown' = {} /\ ticked' = {}
  BY <1>1, AskTyped DEF ListsInv
<1>3. Serial'
  <2>1. loads = <<>> => Len(loads') = 1
    BY <1>2
  <2> QED
    BY <1>2, <2>1 DEF Serial
<1>4. LogAsks'
  BY <1>2 DEF LogAsks
<1> QED
  BY <1>2, <1>3, <1>4 DEF ListsInv, TickedIsSelected, ListsCurrent, PageClamped

(* Without a disturbance the answer that comes is that of the only load.   *)
LEMMA OneLoad ==
  ASSUME ListsInv, ~disturbed, NEW k \in DOMAIN loads, Answered(k)
  PROVE  /\ loads' = <<>> /\ loads[k].rows = table /\ table \in Tables
         /\ kind = "logs" /\ ~typing => loads[k].page = page /\ loads[k].text = text
<1>1. loads \in Seq(Asked) /\ table \in Tables
  BY DEF ListsInv, ListsTyped, ListsTypeOK
<1>2. Len(loads) <= 1
  BY DEF ListsInv, Serial
<1>3. Len(loads) = 1 /\ k = 1
  <2>1. Len(loads) \in Nat /\ k \in 1..Len(loads)
    BY <1>1
  <2>2. \A n \in Nat : \A j \in 1..n : n <= 1 => n = 1 /\ j = 1
    OBVIOUS
  <2> QED
    BY <1>2, <2>1, <2>2, Zenon
<1>4. loads' = RemoveAt(loads, k)
  BY DEF Answered
<1>5. RemoveAt(loads, k) = <<>>
  <2>1. SubSeq(loads, 1, 0) = <<>> /\ SubSeq(loads, 2, 1) = <<>>
    BY <1>1
  <2> QED
    BY <1>3, <2>1 DEF RemoveAt
<1>6. loads[k].rows = table
  BY DEF ListsInv, Serial, Answered
<1> QED
  BY <1>1, <1>4, <1>5, <1>6 DEF ListsInv, LogAsks

LEMMA LoadsKeep ==
  ASSUME ListsInv, ListsTyped', NEW k \in DOMAIN loads,
         \/ ListServed(k) \/ KeysLoaded(k) \/ UsersLoaded(k)
         \/ BackupsLoaded(k) \/ LogsLoaded(k) \/ ListFailed(k)
  PROVE  ListsInv'
<1>a. loads \in Seq(Asked) /\ loads # <<>> /\ text \in BOOLEAN /\ page \in Nat \ {0}
  BY DEF ListsInv, ListsTyped, ListsTypeOK
<1>b. /\ ~disturbed => reqs = {}
      /\ typing => kind = "logs"
  BY <1>a DEF ListsInv, Serial, ListsTyped, BoxesAre
<1>1. CASE ListServed(k)
  <2>1. UNCHANGED <<kind, table, cache, page, text, typing, shown, ticked, selected, reqs, disturbed>>
    BY <1>1 DEF ListServed, memory, control, listScreen
  <2>2. loads' = [loads EXCEPT ![k] = [loads[k] EXCEPT !.rows = table]]
    BY <1>1 DEF ListServed
  <2>3. /\ DOMAIN loads' = DOMAIN loads /\ Len(loads') = Len(loads) /\ loads' # <<>>
        /\ \A j \in DOMAIN loads \ {k} : loads'[j] = loads[j]
        /\ loads'[k] = [loads[k] EXCEPT !.rows = table]
    BY <1>a, <2>2
  <2>4. loads[k] \in Asked
    BY <1>a
  <2>5. loads'[k].rows = table /\ loads'[k].page = loads[k].page /\ loads'[k].text = loads[k].text
    BY <2>3, <2>4 DEF Asked
  <2>6. Serial' /\ LogAsks'
    <3>0. Serial
      BY DEF ListsInv
    <3>1. Serial'
      <4>1. \A j \in DOMAIN loads' : loads'[j].rows = table \/ loads'[j].rows = loads[j].rows
        BY <2>3, <2>5
      <4>2. ~disturbed => \A j \in DOMAIN loads' : loads'[j].rows \in {None, table}
        BY <2>3, <3>0, <4>1 DEF Serial
      <4>3. ~disturbed => Len(loads') <= 1 /\ reqs = {}
        BY <1>a, <2>3, <3>0 DEF Serial
      <4> QED
        BY <2>1, <4>2, <4>3 DEF Serial
    <3>2. \A j \in DOMAIN loads : loads'[j].page = loads[j].page /\ loads'[j].text = loads[j].text
      BY <2>3, <2>5
    <3>3. LogAsks'
      BY <2>1, <2>3, <3>2 DEF ListsInv, LogAsks
    <3> QED
      BY <3>1, <3>3
  <2> QED
    BY <2>1, <2>3, <2>6 DEF ListsInv, TickedIsSelected, ListsCurrent, PageClamped
<1>c. ASSUME loads' = <<>> \/ disturbed', UNCHANGED <<reqs, disturbed>>
      PROVE  Serial' /\ LogAsks'
  <2>1. loads' = <<>> => Len(loads') = 0 /\ DOMAIN loads' = {}
    OBVIOUS
  <2> QED
    BY <1>b, <1>c, <2>1 DEF Serial, LogAsks
<1>2. CASE KeysLoaded(k)
  <2>1. /\ kind = "keys" /\ Answered(k) /\ cache' = loads[k].rows /\ shown' = DOMAIN cache'
        /\ UNCHANGED <<kind, table, reqs, disturbed>>
    BY <1>2 DEF KeysLoaded
  <2>2. ~disturbed => loads' = <<>> /\ loads[k].rows = table
    BY <2>1, OneLoad
  <2>3. Serial' /\ LogAsks'
    BY <1>c, <2>1, <2>2
  <2>4. ListsCurrent'
    BY <2>1, <2>2 DEF ListsCurrent, Expected
  <2> QED
    BY <2>1, <2>3, <2>4 DEF ListsInv, TickedIsSelected, PageClamped
<1>3. CASE UsersLoaded(k)
  <2>1. /\ kind = "users" /\ Answered(k) /\ cache' = loads[k].rows
        /\ shown' = Searched(DOMAIN cache', text) /\ UNCHANGED <<kind, table, text, reqs, disturbed>>
    BY <1>3 DEF UsersLoaded, control
  <2>2. ~disturbed => loads' = <<>> /\ loads[k].rows = table
    BY <2>1, OneLoad
  <2>3. Serial' /\ LogAsks'
    BY <1>c, <2>1, <2>2
  <2>4. ListsCurrent'
    BY <2>1, <2>2 DEF ListsCurrent, Expected
  <2> QED
    BY <2>1, <2>3, <2>4 DEF ListsInv, TickedIsSelected, PageClamped
<1>4. CASE BackupsLoaded(k)
  <2>1. /\ kind = "backups" /\ Answered(k) /\ cache' = loads[k].rows /\ DrawBackups(cache', page)
        /\ UNCHANGED <<kind, table, selected, text, reqs, disturbed>>
    BY <1>4 DEF BackupsLoaded
  <2>2. ~disturbed => loads' = <<>> /\ loads[k].rows = table
    BY <2>1, OneLoad
  <2>3. Serial' /\ LogAsks'
    BY <1>c, <2>1, <2>2
  <2>4. /\ shown' = PageOf(Searched(DOMAIN cache', text'), page') /\ ticked' = shown' \cap selected'
        /\ page' <= Pages(Searched(DOMAIN cache', text'))
    <3>1. loads[k].rows \in Tables /\ DrawBackups(loads[k].rows, page) /\ text' \in BOOLEAN
      BY <1>a, <2>1, AnswerTyped DEF ListsInv, Answered
    <3> QED
      BY <1>a, <2>1, <3>1, DrawTyped
  <2>5. ListsCurrent'
    BY <2>1, <2>2, <2>4 DEF ListsCurrent, Expected
  <2> QED
    BY <2>1, <2>3, <2>4, <2>5 DEF ListsInv, TickedIsSelected, PageClamped
<1>5. CASE LogsLoaded(k)
  <2> DEFINE S == Searched(DOMAIN loads[k].rows, loads[k].text)
  <2>1. /\ kind = "logs" /\ Answered(k) /\ UNCHANGED <<kind, table, text, typing, reqs, disturbed>>
        /\ shown' = PageOf(S, loads[k].page) /\ page' = Clamped(page, S)
        /\ beyond' = (loads[k].page > Pages(S))
    BY <1>5 DEF LogsLoaded
  <2>2. /\ ~disturbed => loads' = <<>> /\ loads[k].rows = table
        /\ ~disturbed /\ ~typing => loads[k].page = page /\ loads[k].text = text
    BY <2>1, OneLoad
  <2>3. Serial' /\ LogAsks'
    BY <1>c, <2>1, <2>2
  <2>4. ListsCurrent'
    <3>1. ASSUME ~disturbed, ~typing, ~beyond' PROVE shown' = Expected'
      <4>1. loads[k].page = page /\ loads[k].text = text /\ loads[k].rows = table
        BY <2>2, <3>1
      <4>2. S = Searched(DOMAIN table, text)
        BY <4>1
      <4>3. Pages(S) \in Nat
        <5>1. S \in SUBSET Ids
          BY <2>1, AnswerTyped, TableRows DEF ListsInv, Answered, Searched
        <5> QED
          BY <5>1, IdsFinite, PagesType
      <4>4. page' = page
        <5> HIDE DEF S
        <5>1. ~(page > Pages(S))
          BY <2>1, <3>1, <4>1
        <5> QED
          BY <2>1, <5>1 DEF Clamped
      <4> QED
        BY <2>1, <4>1, <4>2, <4>4 DEF Expected
    <3> QED
      BY <2>1, <3>1 DEF ListsCurrent
  <2> QED
    BY <2>1, <2>3, <2>4 DEF ListsInv, TickedIsSelected, PageClamped
<1>6. CASE ListFailed(k)
  <2>1. disturbed' /\ shown' = {} /\ ticked' = {}
    BY <1>6 DEF ListFailed
  <2> QED
    BY <2>1 DEF ListsInv, TickedIsSelected, Serial, LogAsks, ListsCurrent, PageClamped
<1> QED
  BY <1>1, <1>2, <1>3, <1>4, <1>5, <1>6

LEMMA SearchesKeep ==
  ASSUME ListsInv, ListsTyped',
         OpenList \/ Search \/ SearchFires \/ FilterLogs \/ PageBackups \/ PageLogs
  PROVE  ListsInv'
<1>a. /\ cache \in Tables /\ text \in BOOLEAN /\ (typing => kind = "logs") /\ kind \in Kinds
      /\ kind \in {"users", "logs"} => ticked = {}
  BY DEF ListsInv, ListsTyped, ListsTypeOK, BoxesAre
<1>1. CASE OpenList \/ SearchFires \/ FilterLogs \/ PageLogs \/ (Search /\ kind = "backups")
  <2>1. Ask /\ kind' = kind /\ disturbed' = ~Answerless /\ reqs' = reqs
    BY <1>1 DEF OpenList, SearchFires, FilterLogs, PageLogs, Search, Clicks
  <2> QED
    BY <2>1, AskKeeps DEF Answerless
<1>2. CASE Search /\ kind = "users"
  <2>1. /\ shown' = Searched(DOMAIN cache, text') /\ UNCHANGED <<kind, page, typing, ticked, loads, disturbed>>
        /\ UNCHANGED <<table, cache, reqs>>
    BY <1>2 DEF Search, Clicks
  <2>2. Serial' /\ LogAsks'
    BY <1>2, <2>1 DEF ListsInv, Serial, LogAsks
  <2>3. ListsCurrent'
    BY <1>a, <1>2, <2>1 DEF ListsInv, ListsCurrent, Expected
  <2> QED
    BY <1>2, <2>1, <2>2, <2>3 DEF ListsInv, TickedIsSelected, PageClamped
<1>3. CASE Search /\ kind = "logs"
  <2>1. typing' = TRUE /\ UNCHANGED <<kind, table, shown, ticked, loads, reqs, disturbed>>
    BY <1>3 DEF Search, Clicks
  <2>2. Serial'
    BY <2>1 DEF ListsInv, Serial
  <2> QED
    BY <1>3, <2>1, <2>2 DEF ListsInv, TickedIsSelected, LogAsks, ListsCurrent, PageClamped
<1>4. CASE PageBackups
  <2>1. /\ kind = "backups" /\ UNCHANGED <<kind, table, cache, selected, text, typing, loads, reqs, disturbed>>
    BY <1>4 DEF PageBackups, Clicks, memory
  <2>2. Serial' /\ LogAsks'
    BY <2>1 DEF ListsInv, Serial, LogAsks
  <2>3. PICK p \in 1..Pages(Searched(DOMAIN cache, text)) :
          IF cache = Empty THEN page' = p /\ UNCHANGED <<shown, ticked>> ELSE DrawBackups(cache, p)
    BY <1>4 DEF PageBackups
  <2>4. CASE cache = Empty
    BY <2>1, <2>2, <2>3, <2>4 DEF ListsInv, TickedIsSelected, ListsCurrent, PageClamped
  <2>5. CASE cache # Empty
    <3>1. p \in Nat \ {0}
      <4>1. Searched(DOMAIN cache, text) \in SUBSET Ids
        BY <1>a, TableRows DEF Searched
      <4>2. Pages(Searched(DOMAIN cache, text)) \in Nat
        BY <4>1, IdsFinite, PagesType
      <4> QED
        BY <4>2
    <3>2. /\ shown' = PageOf(Searched(DOMAIN cache, text'), page') /\ ticked' = shown' \cap selected'
          /\ page' <= Pages(Searched(DOMAIN cache, text'))
      <4>1. DrawBackups(cache, p) /\ text' \in BOOLEAN
        BY <1>a, <2>1, <2>3, <2>5
      <4> QED
        BY <1>a, <3>1, <4>1, DrawTyped
    <3>3. ListsCurrent' /\ PageClamped' /\ TickedIsSelected'
      BY <1>a, <2>1, <2>5, <3>2
         DEF ListsInv, ListsCurrent, PageClamped, TickedIsSelected, Expected
    <3> QED
      BY <2>2, <3>3 DEF ListsInv
  <2> QED
    BY <2>4, <2>5
<1>5. Search => kind \in {"users", "backups", "logs"}
  BY <1>a, AdminAssumption DEF Search
<1> QED
  BY <1>1, <1>2, <1>3, <1>4, <1>5

LEMMA RequestsKeep ==
  ASSUME ListsInv, ListsTyped',
         \/ OpenListLoaded \/ Start \/ \E i \in Ids : Tick(i)
         \/ \E r \in reqs : Done(r) \/ Failed(r)
  PROVE  ListsInv'
<1>a. ASSUME UNCHANGED <<kind, table, cache, total, page, text, typing, shown, loads, disturbed, beyond>>,
             reqs' \subseteq reqs, TickedIsSelected'
      PROVE  ListsInv'
  <2>1. Serial'
    BY <1>a DEF ListsInv, Serial
  <2>2. LogAsks' /\ ListsCurrent' /\ PageClamped'
    BY <1>a DEF ListsInv, LogAsks, ListsCurrent, PageClamped, Expected
  <2> QED
    BY <1>a, <2>1, <2>2 DEF ListsInv
<1>1. CASE OpenListLoaded
  <2>1. UNCHANGED <<kind, table, cache, total, page, text, typing, shown, ticked, selected, loads, reqs,
                    disturbed, beyond>>
    BY <1>1 DEF OpenListLoaded, Clicks, memory, control, listScreen
  <2>2. TickedIsSelected'
    BY <2>1 DEF ListsInv, TickedIsSelected
  <2> QED
    BY <1>a, <2>1, <2>2
<1>2. ASSUME NEW i \in Ids, Tick(i) PROVE ListsInv'
  <2>1. UNCHANGED <<kind, table, cache, total, page, text, typing, shown, loads, reqs, disturbed, beyond>>
    BY <1>2 DEF Tick, Clicks, control
  <2>2. TickedIsSelected'
    <3>1. CASE kind = "backups"
      <4>1. /\ i \in shown /\ ticked' = (ticked \ {i}) \cup ({i} \ ticked)
            /\ selected' = IF i \in ticked THEN selected \ {i} ELSE selected \cup {i}
        BY <1>2, <3>1 DEF Tick
      <4> QED
        BY <2>1, <3>1, <4>1 DEF ListsInv, TickedIsSelected
    <3>2. CASE kind # "backups"
      BY <2>1, <3>2 DEF TickedIsSelected
    <3> QED
      BY <3>1, <3>2
  <2> QED
    BY <1>a, <2>1, <2>2
<1>3. CASE Start
  <2>1. UNCHANGED <<kind, table, cache, total, page, text, typing, shown, ticked, selected, loads, beyond>>
    BY <1>3 DEF Start, Clicks, memory, control, listScreen
  <2>2. disturbed' = (disturbed \/ ~Answerless) /\ \E r : reqs' = reqs \cup {r}
    BY <1>3 DEF Start
  <2>3. Serial'
    <3>1. CASE ~disturbed'
      <4>1. reqs = {} /\ loads = <<>> /\ loads' = <<>>
        BY <2>1, <2>2, <3>1 DEF Answerless
      <4>2. Len(loads') = 0 /\ DOMAIN loads' = {}
        BY <4>1
      <4> QED
        BY <2>2, <4>1, <4>2 DEF Serial
    <3>2. CASE disturbed'
      BY <3>2 DEF Serial
    <3> QED
      BY <3>1, <3>2
  <2>4. ~disturbed' => ~disturbed
    BY <2>2
  <2>5. TickedIsSelected' /\ LogAsks' /\ ListsCurrent' /\ PageClamped'
    BY <2>1, <2>4 DEF ListsInv, TickedIsSelected, LogAsks, ListsCurrent, PageClamped, Expected
  <2> QED
    BY <2>3, <2>5 DEF ListsInv
<1>4. ASSUME NEW r \in reqs, Done(r) PROVE ListsInv'
  <2>1. Ask /\ kind' = kind /\ disturbed' = disturbed /\ reqs' = reqs \ {r}
    BY <1>4 DEF Done
  <2>2. ~disturbed => loads = <<>> /\ reqs' = {}
    BY <2>1 DEF ListsInv, Serial
  <2> QED
    BY <2>1, <2>2, AskKeeps
<1>5. ASSUME NEW r \in reqs, Failed(r) PROVE ListsInv'
  <2>1. /\ UNCHANGED <<kind, cache, total, page, text, typing, shown, ticked, selected, loads, beyond>>
        /\ reqs' \subseteq reqs /\ disturbed' = (disturbed \/ table' # table)
    BY <1>5 DEF Failed, ListFails, memory, control, listScreen
  <2>2. TickedIsSelected'
    BY <2>1 DEF ListsInv, TickedIsSelected
  <2>3. CASE table' = table
    <3>1. disturbed \in BOOLEAN
      BY DEF ListsInv, ListsTyped, ListsTypeOK
    <3>2. disturbed' = disturbed
      BY <2>1, <2>3, <3>1
    <3> QED
      BY <1>a, <2>1, <2>2, <2>3, <3>2
  <2>4. CASE table' # table
    <3>1. disturbed'
      BY <2>1, <2>4
    <3> QED
      BY <2>2, <3>1 DEF ListsInv, Serial, LogAsks, ListsCurrent, PageClamped
  <2> QED
    BY <2>3, <2>4
<1> QED
  BY <1>1, <1>2, <1>3, <1>4, <1>5

LEMMA ListsStep == ListsInv /\ [ListsNext]_listVars => ListsInv'
<1> SUFFICES ASSUME ListsInv, [ListsNext]_listVars PROVE ListsInv'
  OBVIOUS
<1>1. ListsTyped'
  BY ListsTypeStep DEF ListsInv
<1>2. CASE UNCHANGED listVars
  BY <1>1, <1>2
     DEF listVars, ListsInv, TickedIsSelected, Serial, LogAsks, ListsCurrent, PageClamped, Expected
<1>3. CASE ListsNext
  BY <1>1, <1>3, LoadsKeep, SearchesKeep, RequestsKeep DEF ListsNext
<1> QED
  BY <1>2, <1>3

LEMMA CurrentOK == ListsInv => ListIsCurrent
<1> SUFFICES ASSUME ListsInv, Quiesced, ~beyond, cache # Empty \/ (kind = "logs" /\ total > 0)
             PROVE  shown = Expected /\ (kind # "logs" => cache = table)
  BY DEF ListIsCurrent
<1>1. kind = "logs" => cache = Empty
  BY DEF ListsInv, ListsTyped, BoxesAre
<1> QED
  BY <1>1 DEF ListsInv, ListsCurrent, Quiesced, Answerless

(* For any rows, any size of a page and any number of requests: when all   *)
(* was answered, nothing overlapped, no load failed and no request failed  *)
(* after it had changed the server, a list shows the page of the server's  *)
(* rows that it says it shows.                                             *)
THEOREM ListsEndCurrent == ListsSpec => []ListIsCurrent
BY CurrentOK, ListsInvInit, ListsStep, PTL DEF ListsSpec

LEMMA BackupsOK == ListsInv => BackupsAreShown
<1> SUFFICES ASSUME ListsInv PROVE BackupPageShowsRows
  BY DEF ListsInv, BackupsAreShown
<1> SUFFICES ASSUME kind = "backups", Quiesced, Searched(DOMAIN cache, text) # {}
             PROVE  shown # {}
  BY DEF BackupPageShowsRows
<1>1. cache \in Tables /\ text \in BOOLEAN /\ page \in Nat \ {0}
  BY DEF ListsInv, ListsTyped, ListsTypeOK
<1>2. Searched(DOMAIN cache, text) \in SUBSET Ids
  BY <1>1, TableRows DEF Searched
<1>3. cache # Empty
  BY EmptyTable DEF Searched
<1>4. cache = table /\ shown = PageOf(Searched(DOMAIN table, text), page)
  BY <1>3 DEF ListsInv, ListsCurrent, Quiesced, Answerless, Expected
<1>5. page <= Pages(Searched(DOMAIN cache, text))
  BY <1>3 DEF ListsInv, PageClamped, Quiesced, Answerless
<1> QED
  BY <1>1, <1>2, <1>4, <1>5, PageHasRow

(* For any number of backups and any size of a page: the page of backups   *)
(* has a row while some pass the search, and a box on it is ticked exactly *)
(* when Delete Selected would take the file.                               *)
THEOREM BackupsAreSeen == ListsSpec => []BackupsAreShown
BY BackupsOK, ListsInvInit, ListsStep, PTL DEF ListsSpec

-------------------------------------------------------------------------------
(* The two parts of the view                                               *)

(* What the forms rely on survives any step of the lists, which may only   *)
(* count one more thing the user did; and the other way round.             *)
LEMMA FormsStay == FormInv /\ UNCHANGED formsOwn /\ ops' \in Nat => FormInv'
<1> SUFFICES ASSUME FormInv, UNCHANGED formsOwn, ops' \in Nat PROVE FormInv'
  OBVIOUS
<1> USE DEF formsOwn, ghosts, screen, network
<1>1. FormsTypeOK'
  BY DEF FormInv, NetInv, FormsTypeOK
<1>2. SentAre' /\ Alone' /\ ReadsInv' /\ CopyInv' /\ StoredInv' /\ CleanInv'
  BY DEF FormInv, NetInv, SentAre, Alone, ReadsInv, GoodGet, CopyInv, StoredInv, CleanInv, Saving
<1>3. FilledInv' /\ LeftInv' /\ MainInv' /\ OriginalInv' /\ PolicyInv' /\ DirtyInv'
  BY DEF FormInv, FilledInv, LeftInv, MainInv, OriginalInv, PolicyInv, DirtyInv
<1> QED
  BY <1>1, <1>2, <1>3 DEF FormInv, NetInv

LEMMA ListsStay == ListsInv /\ UNCHANGED listsOwn /\ ops' \in Nat => ListsInv'
<1> SUFFICES ASSUME ListsInv, UNCHANGED listsOwn, ops' \in Nat PROVE ListsInv'
  OBVIOUS
<1> USE DEF listsOwn, memory, control, listScreen
<1>1. ListsTyped'
  BY DEF ListsInv, ListsTyped, ListsTypeOK, BoxesAre
<1> QED
  BY <1>1 DEF ListsInv, TickedIsSelected, Serial, LogAsks, ListsCurrent, PageClamped, Expected

ViewInv == part \in {"forms", "lists"} /\ FormInv /\ ListsInv

LEMMA ViewInit == Init => ViewInv
BY FormInit, ListsInvInit DEF Init, ViewInv

LEMMA ViewStep == ViewInv /\ [Next]_<<part, formVars, listVars>> => ViewInv'
<1> SUFFICES ASSUME ViewInv, [Next]_<<part, formVars, listVars>> PROVE ViewInv'
  OBVIOUS
<1>1. CASE part = "forms" /\ FormsNext /\ UNCHANGED <<part, listsOwn>>
  <2>1. FormInv'
    BY <1>1, FormStep DEF ViewInv
  <2>2. ops' \in Nat
    BY <2>1 DEF FormInv, NetInv, FormsTypeOK
  <2> QED
    BY <1>1, <2>1, <2>2, ListsStay DEF ViewInv
<1>2. CASE part = "lists" /\ ListsNext /\ UNCHANGED <<part, formsOwn>>
  <2>1. ListsInv'
    BY <1>2, ListsStep DEF ViewInv
  <2>2. ops' \in Nat
    BY <2>1 DEF ListsInv, ListsTyped, ListsTypeOK
  <2> QED
    BY <1>2, <2>1, <2>2, FormsStay DEF ViewInv
<1>3. CASE UNCHANGED <<part, formVars, listVars>>
  BY <1>3, FormStep, ListsStep DEF ViewInv
<1> QED
  BY <1>1, <1>2, <1>3 DEF Next

(* For any values, rows and numbers of requests: every variable of the     *)
(* view, of whichever part, holds values of its type.                      *)
THEOREM ViewTypeCorrect == Spec => []TypeOK
<1>1. ViewInv => TypeOK
  BY DEF ViewInv, FormInv, NetInv, ListsInv, ListsTyped, TypeOK
<1> QED
  BY <1>1, ViewInit, ViewStep, PTL DEF Spec

(* For any values, rows and numbers of requests, in every state of the     *)
(* view, whichever part acts: edits are warned of, what the forms take for *)
(* saved is stored, and the lists show the server's rows, but for what     *)
(* each of these excepts.                                                  *)
THEOREM ViewKeepsItsParts ==
  Spec => [](EditsAreWarned /\ CleanIsStored /\ ListIsCurrent /\ BackupsAreShown)
<1>1. ViewInv => EditsAreWarned /\ CleanIsStored /\ ListIsCurrent /\ BackupsAreShown
  BY SavedOK, WarnedOK, CurrentOK, BackupsOK DEF ViewInv, FormInv
<1> QED
  BY <1>1, ViewInit, ViewStep, PTL DEF Spec

(* For any values, rows and numbers of requests: in the view as a whole    *)
(* a behaviour is one of a part of it, so that what is proved of a part    *)
(* alone holds of it in the view.                                          *)
THEOREM ViewIsItsParts ==
  Spec => ([](part = "forms") /\ FormsSpec) \/ ([](part = "lists") /\ ListsSpec)
<1>1. Init => FormsInit /\ ListsInit /\ (part = "forms" \/ part = "lists")
  BY DEF Init
<1>2. part = "forms" /\ [Next]_<<part, formVars, listVars>> => [FormsNext]_formVars /\ (part = "forms")'
  BY DEF Next
<1>3. part = "lists" /\ [Next]_<<part, formVars, listVars>> => [ListsNext]_listVars /\ (part = "lists")'
  BY DEF Next
<1> QED
  BY <1>1, <1>2, <1>3, PTL DEF Spec, FormsSpec, ListsSpec
===============================================================================
