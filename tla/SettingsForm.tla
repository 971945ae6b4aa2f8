---------------------------- MODULE SettingsForm ----------------------------
(***************************************************************************)
(* The settings of a running deployment: the row of runtime_settings, with *)
(* its revision, saveSettings of app/settings.go, and SystemSettingsPage   *)
(* in the tabs of several administrators.  A page reads the row in the     *)
(* background, shows it in an uncontrolled form that is made anew for each *)
(* revision, and sends the whole form with the revision it has by then.    *)
(***************************************************************************)
EXTENDS Integers, FiniteSets

CONSTANTS
  Tabs, Fields,        \* Fields: what is shown; the secret never is
  Nothing, MaxSaves

VARIABLES
  settings,            \* the row: revision, values, secret
  item,                \* each tab: the row in its cache
  reading,             \* each tab: what its query has read and not yet stored
  draft,               \* each tab: the form, with the fields its reader changed
  saveCall             \* each tab: the mutation

settingsVars == <<settings, item, reading, draft, saveCall>>

First == [revision |-> 0, values |-> [f \in Fields |-> 0], secret |-> 0]
NoDraft == [open |-> FALSE, revision |-> 0, values |-> [f \in Fields |-> 0], touched |-> {}]
NoCall == [pc |-> "idle", body |-> First, touched |-> {}, row |-> First]

Init ==
  /\ settings = First
  /\ item = [t \in Tabs |-> Nothing] /\ reading = [t \in Tabs |-> Nothing]
  /\ draft = [t \in Tabs |-> NoDraft] /\ saveCall = [t \in Tabs |-> NoCall]

(* key={item.revision}: another revision mounts another form, with the     *)
(* values of that row; the same revision leaves the form as it is.         *)
Mounted(t, row) ==
  IF draft[t].open /\ draft[t].revision # row.revision
  THEN [open |-> TRUE, revision |-> row.revision, values |-> row.values, touched |-> {}]
  ELSE draft[t]
Show(t, row) ==
  /\ item' = [item EXCEPT ![t] = row]
  /\ draft' = [draft EXCEPT ![t] = Mounted(t, row)]

(* The query: when the page is mounted, or on "reload" while nothing is    *)
(* being saved.  What it has read may be stored much later.                *)
Read(t) ==
  /\ reading[t] = Nothing /\ saveCall[t].pc = "idle"
  /\ reading' = [reading EXCEPT ![t] = settings]
  /\ UNCHANGED <<settings, item, draft, saveCall>>
Store(t) ==
  /\ reading[t] # Nothing
  /\ Show(t, reading[t])
  /\ reading' = [reading EXCEPT ![t] = Nothing]
  /\ UNCHANGED <<settings, saveCall>>

OpenSettings(t) ==
  /\ item[t] # Nothing /\ ~draft[t].open
  /\ draft' = [draft EXCEPT ![t] = [open |-> TRUE, revision |-> item[t].revision,
                                    values |-> item[t].values, touched |-> {}]]
  /\ UNCHANGED <<settings, item, reading, saveCall>>
CloseSettings(t) ==
  /\ draft[t].open /\ saveCall[t].pc = "idle"
  /\ draft' = [draft EXCEPT ![t] = NoDraft]
  /\ UNCHANGED <<settings, item, reading, saveCall>>

(* A changed value, or a secret typed or ticked to be cleared.             *)
Toggled(values, f) == IF f \in Fields THEN [values EXCEPT ![f] = 1 - values[f]] ELSE values
Change(t, f) ==
  /\ draft[t].open /\ saveCall[t].pc = "idle" /\ f \notin draft[t].touched
  /\ draft' = [draft EXCEPT ![t].touched = @ \cup {f},
                            ![t].values = Toggled(@, f)]
  /\ UNCHANGED <<settings, item, reading, saveCall>>

(* The body has every field of the form, and the revision of the item.     *)
Revision(t) == item[t].revision
Body(t) == [revision |-> Revision(t), values |-> draft[t].values,
            secret |-> IF "secret" \in draft[t].touched THEN Revision(t) + 1 ELSE 0]
SubmitSettings(t) ==
  /\ draft[t].open /\ saveCall[t].pc = "idle" /\ settings.revision < MaxSaves
  /\ saveCall' = [saveCall EXCEPT ![t] =
       [pc |-> "sent", body |-> Body(t), touched |-> draft[t].touched, row |-> First]]
  /\ UNCHANGED <<settings, item, reading, draft>>

(* Under the advisory lock: read, compare the revision, write the next; an *)
(* omitted secret is the one of the row.                                   *)
AnyRevision(body) == TRUE
Current(body) == body.revision = settings.revision
Written(body, touched) ==
  [revision |-> settings.revision + 1, values |-> body.values,
   secret |-> IF "secret" \in touched THEN body.secret ELSE settings.secret]
ServeSettings(t) ==
  /\ saveCall[t].pc = "sent"
  /\ LET call == saveCall[t]
     IN  \/ /\ Current(call.body)
            /\ settings' = Written(call.body, call.touched)
            /\ saveCall' = [saveCall EXCEPT ![t].pc = "saved", ![t].row = settings']
         \/ /\ saveCall' = [saveCall EXCEPT ![t].pc = "refused"]    \* conflict, or invalid
            /\ UNCHANGED settings
  /\ UNCHANGED <<item, reading, draft>>

SettingsSaved(t) ==
  /\ saveCall[t].pc = "saved"
  /\ Show(t, saveCall[t].row)
  /\ saveCall' = [saveCall EXCEPT ![t] = NoCall]
  /\ UNCHANGED <<settings, reading>>
SettingsFail(t) ==
  /\ saveCall[t].pc # "idle"                                        \* or the answer is lost
  /\ saveCall' = [saveCall EXCEPT ![t] = NoCall]
  /\ UNCHANGED <<settings, item, reading, draft>>

Next == \E t \in Tabs :
  \/ Read(t) \/ Store(t) \/ OpenSettings(t) \/ CloseSettings(t)
  \/ \E f \in Fields \cup {"secret"} : Change(t, f)
  \/ SubmitSettings(t) \/ ServeSettings(t) \/ SettingsSaved(t) \/ SettingsFail(t)
Spec == Init /\ [][Next]_settingsVars

-----------------------------------------------------------------------------
\* Properties

(* A save changes a setting only if the administrator who saved changed it *)
(* in his form: a value another one has saved in the meantime, or that the *)
(* page has read while the form was open, is never written over with the   *)
(* older one the form was filled with.                                     *)
NoLostUpdate ==
  [][\A t \in Tabs : ServeSettings(t) =>
       /\ \A f \in Fields : settings'.values[f] # settings.values[f] =>
            f \in saveCall[t].touched
       /\ settings'.secret # settings.secret => "secret" \in saveCall[t].touched]_settingsVars
=============================================================================
