------------------------------ MODULE ToolForm ------------------------------
(***************************************************************************)
(* The tools page of the administrators: ToolsPage with its switch of a    *)
(* listed tool, ToolEditor with the editors of the icon and of the         *)
(* settlement rule, and saveTool and previewSettlement of the server.      *)
(*                                                                         *)
(* The form is filled from the listed row, which may be old; the server    *)
(* has no revision of a tool and the last save wins.  A picked picture is  *)
(* read, and a rule is tried, while the form is edited on.  A request may  *)
(* be refused, and its answer may be lost.  The tool is not a builtin one. *)
(***************************************************************************)
EXTENDS Integers, FiniteSets

CONSTANTS Icons, NoIcon, MaxEdits, MaxRivals

VARIABLES
  tool, toolRow,       \* the row of the server, and the one the page lists
  form,                \* ToolEditor
  reads, picture,      \* files being read, and ToolIconEditor
  rule, trial,         \* the draft of the rule with its sample, and SettlementEditor's preview
  saving, toggling,    \* the two mutations
  picked, filled,      \* history: the icon the admin chose last, what he filled in otherwise
  formEdits, formRivals

editor == <<form, reads, picture, rule, trial, picked, filled>>
bounds == <<formEdits, formRivals>>
formVars == <<tool, toolRow, editor, saving, toggling, bounds>>

Missing == [icon |-> NoIcon, rule |-> "default", connection |-> "none", details |-> "none",
            roles |-> "none", enabled |-> FALSE]
ByDefault == "default"
NoDraft == [mode |-> "default", path |-> "code", json |-> ByDefault, sample |-> 0]
Untried == [pc |-> "idle", of |-> <<>>, shown |-> <<>>]
Idle == [pc |-> "idle", body |-> Missing, sends |-> {}]
NoPicture == [revision |-> 0, reading |-> FALSE, error |-> FALSE]
Shut == [open |-> FALSE, item |-> Missing, icon |-> NoIcon, details |-> "none",
         roles |-> "none", connect |-> FALSE]

Init ==
  /\ tool = [icon |-> NoIcon, rule |-> "code", connection |-> "first", details |-> "first",
             roles |-> "first", enabled |-> TRUE]
  /\ toolRow = tool
  /\ form = Shut /\ reads = {} /\ picture = NoPicture
  /\ rule = NoDraft /\ trial = Untried
  /\ saving = Idle /\ toggling = Idle
  /\ picked = NoIcon /\ filled = {}
  /\ formEdits = 0 /\ formRivals = 0

-----------------------------------------------------------------------------
\* The server

(* saveTool: what the body leaves out keeps the value of the locked row.   *)
StoredWhole(old, body, sends) == body
Stored(old, body, sends) ==
  [field \in DOMAIN body |-> IF field \in sends THEN body[field] ELSE old[field]]

(* A tool is created with every field; a key that is taken is refused.     *)
Accepts(m, creates) ==
  /\ creates = (tool = Missing)
  /\ "connection" \in m.sends \/ tool.connection # "none"

OtherAdministrator ==
  /\ formRivals < MaxRivals /\ formRivals' = formRivals + 1
  /\ \/ tool' = Missing /\ tool # Missing
     \/ tool' = [tool EXCEPT !.enabled = ~@, !.details = "theirs"] /\ tool # Missing
     \/ \E icon \in Icons : tool' = [icon |-> icon, rule |-> "theirs", enabled |-> TRUE,
                                     connection |-> "theirs", details |-> "theirs",
                                     roles |-> "theirs"]
  /\ UNCHANGED <<toolRow, editor, saving, toggling, formEdits>>

RelistTools ==
  /\ toolRow # tool /\ toolRow' = tool
  /\ UNCHANGED <<tool, editor, saving, toggling, bounds>>

-----------------------------------------------------------------------------
\* The form

Editing == form.open /\ saving.pc = "idle"
Edited == Editing /\ formEdits < MaxEdits /\ formEdits' = formEdits + 1
outside == <<tool, toolRow, saving, toggling, formRivals>>

(* ruleDraft: the stored rule opens in the mode that can show it.          *)
Draft(settlement) ==
  [NoDraft EXCEPT !.mode = CASE settlement = ByDefault -> "default"
                             [] settlement = "code" -> "path" [] OTHER -> "json",
                  !.path = IF settlement = "theirs" THEN "code" ELSE settlement,
                  !.json = settlement]
(* settlementValue: only the field of the mode counts; "bad" is refused.   *)
Settlement(draft) == CASE draft.mode = "default" -> ByDefault
                       [] draft.mode = "path" -> draft.path
                       [] draft.mode = "json" -> draft.json

OpenForm(item) ==
  /\ ~form.open /\ formEdits < MaxEdits /\ formEdits' = formEdits + 1
  /\ form' = [Shut EXCEPT !.open = TRUE, !.item = item, !.icon = item.icon,
                          !.details = item.details, !.roles = item.roles,
                          !.connect = (item = Missing)]
  /\ picture' = NoPicture /\ reads' = {}
  /\ rule' = Draft(item.rule) /\ trial' = Untried
  /\ picked' = item.icon /\ filled' = {}
  /\ UNCHANGED outside
(* The button is disabled while another form is open, not during a switch. *)
EditTool == toolRow # Missing /\ OpenForm(toolRow)
AddTool == OpenForm(Missing)

Close == form' = Shut /\ reads' = {} /\ trial' = Untried /\ rule' = NoDraft
         /\ picture' = NoPicture /\ picked' = NoIcon /\ filled' = {}
CloseForm == Editing /\ Close /\ UNCHANGED <<outside, formEdits>>

(* Name, description, cost and parameters; and who may call the tool.      *)
Describe ==
  /\ Edited
  /\ \/ /\ form' = [form EXCEPT !.details = "mine"]
        /\ filled' = filled \cup {"details"}
     \/ /\ form' = [form EXCEPT !.roles = "mine"]
        /\ filled' = filled \cup {"roles"}
  /\ UNCHANGED <<outside, reads, picture, rule, trial, picked>>
(* The box that shows the connection's fields; a new tool always has them. *)
TickConnection ==
  /\ Edited /\ form.item # Missing
  /\ form' = [form EXCEPT !.connect = ~@]
  /\ filled' = IF form.connect THEN filled \ {"connection"} ELSE filled \cup {"connection"}
  /\ UNCHANGED <<outside, reads, picture, rule, trial, picked>>

-----------------------------------------------------------------------------
\* The icon

(* What the admin does now outdates every file that is still being read;   *)
(* a message of the field, "reading" too, keeps the form from submitting.  *)
Report(reading, error) ==
  picture' = [revision |-> picture.revision + 1, reading |-> reading, error |-> error]
icons == <<outside, rule, trial, filled>>

PickFile(icon) ==
  /\ Edited
  /\ Report(TRUE, FALSE)
  /\ reads' = reads \cup {[revision |-> picture.revision + 1, icon |-> icon]}
  /\ picked' = icon
  /\ UNCHANGED <<icons, form>>
(* A file or a text that is no icon.                                      *)
PickUnusable ==
  /\ Edited /\ Report(FALSE, TRUE)
  /\ UNCHANGED <<icons, form, reads, picked>>

AnyRead(read) == TRUE
Latest(read) == read.revision = picture.revision
(* The data of a file may still be refused when they are there: too large, *)
(* too many pixels, an SVG with scripts.                                   *)
FileRead(read) ==
  /\ read \in reads /\ reads' = reads \ {read}
  /\ IF ~Latest(read) THEN UNCHANGED <<form, picture>>
     ELSE /\ picture' = [picture EXCEPT !.reading = FALSE]
          /\ form' = [form EXCEPT !.icon = read.icon]
  /\ UNCHANGED <<icons, picked, formEdits>>
FileFails(read) ==
  /\ read \in reads /\ reads' = reads \ {read}
  /\ picture' = IF Latest(read) THEN [picture EXCEPT !.reading = FALSE, !.error = TRUE]
                ELSE picture
  /\ UNCHANGED <<icons, form, picked, formEdits>>

TypeIcon(icon) ==
  /\ Edited /\ Report(FALSE, FALSE)
  /\ form' = [form EXCEPT !.icon = icon] /\ picked' = icon
  /\ UNCHANGED <<icons, reads>>
RemoveIcon ==
  /\ form.icon # NoIcon \/ picture.reading \/ picture.error
  /\ TypeIcon(NoIcon)

-----------------------------------------------------------------------------
\* The rule

rules == <<outside, form, reads, picture, picked>>
Reset == trial' = Untried

ChangeRule(text) ==
  /\ Edited /\ rule.mode # "default"
  /\ rule' = IF rule.mode = "path" THEN [rule EXCEPT !.path = text]
             ELSE [rule EXCEPT !.json = text]
  /\ Reset /\ filled' = filled \cup {"rule"}
  /\ UNCHANGED rules
(* The text of a rule is taken along into the other mode; one that is no   *)
(* rule stays where it is, with a message.                                 *)
ChangeMode(mode) ==
  /\ Edited /\ trial.pc = "idle" /\ mode # rule.mode
  /\ IF "json" \in {mode, rule.mode} /\ Settlement(rule) = "bad"
     THEN UNCHANGED <<rule, trial>>
     ELSE /\ rule' = CASE mode = "json" -> [rule EXCEPT !.mode = mode, !.json = Settlement(rule)]
                       [] rule.mode = "json" -> [Draft(Settlement(rule)) EXCEPT
                                                   !.mode = mode, !.sample = rule.sample]
                       [] OTHER -> [rule EXCEPT !.mode = mode]
          /\ Reset
  /\ filled' = filled \cup {"rule"}
  /\ UNCHANGED rules
ChangeSample ==
  /\ Edited
  /\ rule' = [rule EXCEPT !.sample = 1 - @]
  /\ Reset /\ UNCHANGED <<rules, filled>>

TryRule ==
  /\ Editing /\ trial.pc = "idle"
  /\ trial' = IF Settlement(rule) = "bad" THEN Untried
              ELSE [pc |-> "sent", of |-> <<Settlement(rule), rule.sample>>, shown |-> <<>>]
  /\ UNCHANGED <<rules, rule, filled, formEdits>>
(* previewSettlement judges the body it was sent and touches nothing.      *)
ShowTrial ==
  /\ trial.pc = "sent" /\ form.open
  /\ trial' \in {Untried, [Untried EXCEPT !.shown = trial.of]}
  /\ UNCHANGED <<rules, rule, filled, formEdits>>

-----------------------------------------------------------------------------
\* The saves

(* What the admin did not touch is sent as the form was opened with it,    *)
(* but for the connection, which the form does not have.                   *)
Entered == [icon |-> form.icon, rule |-> Settlement(rule), details |-> form.details,
            roles |-> form.roles, connection |-> "mine",
            enabled |-> (form.item = Missing \/ form.item.enabled)]
Sent == {"details", "roles", "rule", "enabled"}
        \cup (IF NoIcon = form.icon /\ NoIcon = form.item.icon THEN {} ELSE {"icon"})
        \cup (IF form.connect THEN {"connection"} ELSE {})

Submit ==
  /\ Editing /\ ~picture.reading /\ ~picture.error /\ Settlement(rule) # "bad"
  /\ form.details # "none"
  /\ saving' = [pc |-> "sent", body |-> Entered, sends |-> Sent]
  /\ UNCHANGED <<tool, toolRow, editor, toggling, bounds>>
(* The tick of the list sends the row it lists, the other way around.      *)
Toggle ==
  /\ ~form.open /\ toggling.pc = "idle" /\ saving.pc = "idle" /\ toolRow # Missing
  /\ formEdits < MaxEdits /\ formEdits' = formEdits + 1
  /\ toggling' = [pc |-> "sent", body |-> [toolRow EXCEPT !.enabled = ~@],
                  sends |-> {"details", "enabled"}]
  /\ UNCHANGED <<tool, toolRow, editor, saving, formRivals>>

Write(m, creates) ==
  tool' = IF Accepts(m, creates) THEN Stored(tool, m.body, m.sends) ELSE tool
ServeSave ==
  /\ saving.pc = "sent"
  /\ Write(saving, form.item = Missing)
  /\ saving' = [saving EXCEPT !.pc = IF Accepts(saving, form.item = Missing)
                                     THEN "served" ELSE "refused"]
  /\ UNCHANGED <<toolRow, editor, toggling, bounds>>
ServeToggle ==
  /\ toggling.pc = "sent"
  /\ Write(toggling, FALSE)
  /\ toggling' = [toggling EXCEPT !.pc = "served"]
  /\ UNCHANGED <<toolRow, editor, saving, bounds>>

Saved ==
  /\ saving.pc = "served"
  /\ saving' = Idle /\ Close
  /\ UNCHANGED <<tool, toolRow, toggling, bounds>>
(* An answer that is lost or an error leaves the form as it is.            *)
SaveFails ==
  /\ saving.pc # "idle"
  /\ saving' = Idle
  /\ UNCHANGED <<tool, toolRow, editor, toggling, bounds>>
Toggled ==
  /\ toggling.pc # "idle"
  /\ toggling' = Idle
  /\ UNCHANGED <<tool, toolRow, editor, saving, bounds>>

IconStep ==
  \/ \E icon \in Icons : PickFile(icon) \/ TypeIcon(icon)
  \/ PickUnusable \/ RemoveIcon
  \/ \E read \in reads : FileRead(read) \/ FileFails(read)
RuleStep ==
  \/ \E text \in {"code", "other", "bad"} : ChangeRule(text)
  \/ \E mode \in {"default", "path", "json"} : ChangeMode(mode)
  \/ ChangeSample \/ TryRule \/ ShowTrial
Next ==
  \/ OtherAdministrator \/ RelistTools
  \/ EditTool \/ AddTool \/ CloseForm \/ Describe \/ TickConnection
  \/ IconStep \/ RuleStep
  \/ Submit \/ ServeSave \/ Saved \/ SaveFails
  \/ Toggle \/ ServeToggle \/ Toggled
Spec == Init /\ [][Next]_formVars

-----------------------------------------------------------------------------
\* Properties

Rules == {"default", "code", "other", "bad"}
Answers == {"none", "first", "mine", "theirs"}
Body == [icon : Icons \cup {NoIcon}, rule : (Rules \ {"bad"}) \cup {"theirs"},
         connection : Answers, details : Answers, roles : Answers, enabled : BOOLEAN]
Judged == {<<>>} \cup ((Rules \cup {"theirs"}) \X (0..1))
Mutation == [pc : {"idle", "sent", "served", "refused"}, body : Body,
             sends : SUBSET DOMAIN Missing]
TypeOK ==
  /\ tool \in Body /\ toolRow \in Body
  /\ form \in [open : BOOLEAN, item : Body, icon : Icons \cup {NoIcon}, details : Answers,
               roles : Answers, connect : BOOLEAN]
  /\ reads \subseteq [revision : Nat, icon : Icons]
  /\ picture \in [revision : Nat, reading : BOOLEAN, error : BOOLEAN]
  /\ rule \in [mode : {"default", "path", "json"}, path : Rules,
               json : Rules \cup {"theirs"}, sample : 0..1]
  /\ trial \in [pc : {"idle", "sent"}, of : Judged, shown : Judged]
  /\ saving \in Mutation /\ toggling \in Mutation
  /\ picked \in Icons \cup {NoIcon} /\ filled \subseteq {"details", "roles", "connection", "rule"}
  /\ formEdits \in 0..MaxEdits /\ formRivals \in 0..MaxRivals

(* A save sends the icon the admin chose last, though files he picked      *)
(* before it may be read after it, and a verdict on the screen is of the   *)
(* rule and the sample on the screen, though the form is edited while the  *)
(* server judges.                                                          *)
ShowsWhatCounts ==
  /\ saving.pc # "idle" => saving.body.icon = picked
  /\ trial.shown # <<>> => trial.shown = <<Settlement(rule), rule.sample>>

(* A save writes what the admin left alone as he was shown it when he      *)
(* opened the form, which may overwrite what another has saved since, and  *)
(* never as a default, the rule of another mode or another picture; of the *)
(* connection, which he is not shown, it writes nothing unless he entered  *)
(* one.  A switch changes no icon, rule, role or connection, however old   *)
(* the row it was thrown for.                                              *)
UntouchedAsOpened ==
  [][/\ ServeSave /\ tool' # tool /\ form.item # Missing =>
          /\ \A field \in {"details", "roles", "rule", "enabled"} \ filled :
               tool'[field] = form.item[field]
          /\ picked = form.item.icon => tool'.icon \in {form.item.icon, tool.icon}
          /\ "connection" \notin filled => tool'.connection = tool.connection
     /\ ServeToggle =>
          \A field \in {"icon", "rule", "roles", "connection"} :
            tool'[field] = tool[field]]_formVars
=============================================================================
