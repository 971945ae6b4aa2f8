--------------------------- MODULE SkillWorkbench ---------------------------
(***************************************************************************)
(* A skill of the marketplace and the administrator's workspace for it:    *)
(* MarketplacePanel, MarketplaceEditor, SkillFileEditor and FileAttachments*)
(* of web/src on one side, createSkill and createBundle of                 *)
(* server/internal/app/marketplace.go on the other.                        *)
(*                                                                         *)
(* The workspace starts from the row the panel has listed, reads the       *)
(* attachments later, and collects edits, uploads and removals; saving     *)
(* sends the document whole and of the attachments what was touched, which *)
(* the server merges into whatever is published then.  Meanwhile others    *)
(* publish too: another administrator, and the panel's own loop over the   *)
(* skills that come from GitHub.  A row that was last published before the *)
(* file store, "legacy", has its texts in the row and no manifest; saving  *)
(* it sends the attachments nobody touched as well.                        *)
(*                                                                         *)
(* A text is one of three: empty, with Unix or with Windows line ends; the *)
(* code editor turns the last into the second as soon as it shows it.      *)
(***************************************************************************)
EXTENDS Integers, FiniteSets

CONSTANTS
  Attachments,          \* paths other than SKILL.md
  Scripts,              \* the attachments written on Windows
  Versions,             \* versions that a client of the API names
  MaxRivals,            \* how often others publish, or a synchronisation starts
  MaxEdits              \* what is done in the workspace, opening and saving included

VARIABLES
  skill,                \* the published row
  pack,                 \* the bundle that includes the skill
  listed,               \* the row as the panel's query has it
  fetched,              \* the cached files of a version, ['skill-editor-files', slug, version]
  desk,                 \* the open editor
  save,                 \* its mutation
  loop,                 \* the synchronisation with GitHub
  wanted,               \* history: what the user has made of each file; Kept, or its text
  converted,            \* history: attachments the editor has rewritten by showing them
  released,             \* history: what was published under which version
  lowered,              \* history: a caller has named a version that was not a new one
  edits, rivals         \* history: how much has been done

published == <<skill, pack, released, lowered>>
workspace == <<desk, wanted, converted, edits>>
around == <<published, listed, fetched, save, loop, rivals>>
skillVars == <<workspace, around>>

Doc == "SKILL.md"
Paths == Attachments \cup {Doc}
Absent == "absent"
Kept == "kept"

Content(origin, files) == <<origin, files>>
Original == [p \in Paths |-> IF p \in Scripts THEN "windows" ELSE "unix"]
(* What the directory on GitHub has come to hold since the import.         *)
Upstream == [p \in Paths |-> IF p = Doc THEN "windows" ELSE Absent]
Unopened == [version |-> 0, origin |-> "inline", legacy |-> FALSE, files |-> Original]
Closed == [open |-> FALSE, item |-> Unopened, doc |-> "unix", uploads |-> <<>>,
           deleted |-> {}, reading |-> <<>>, before |-> <<>>, blocked |-> FALSE]
Untouched == [p \in Paths |-> Kept]
NoSave == [pc |-> "none", source |-> "inline", doc |-> "unix", uploads |-> <<>>, deleted |-> {}]

Init ==
  /\ \E legacy \in BOOLEAN :
       skill = [version |-> 1, origin |-> "github", legacy |-> legacy, files |-> Original]
  /\ pack = [version |-> 1, name |-> 0]
  /\ listed = skill
  /\ fetched = [version |-> 0, files |-> Original]
  /\ desk = Closed /\ save = NoSave
  /\ loop = "none"
  /\ wanted = Untouched /\ converted = {}
  /\ released = {<<"skill", 1, Content("github", Original)>>, <<"pack", 1, <<0, Original>>>>}
  /\ lowered = FALSE /\ edits = 0 /\ rivals = 0

-----------------------------------------------------------------------------
\* The server

(* formalVersion: the same content keeps its version; other content gets   *)
(* the one the caller names, or the next; Unnamed is none.  A bundle embeds*)
(* its skills and is released with them, and nobody names its version.     *)
(* All in one transaction under the lock of marketplace-publish.           *)
(* PublishSkill leaves the bundle out.                                     *)
Unnamed == 0
Same(origin, files) == skill = [skill EXCEPT !.origin = origin, !.legacy = FALSE, !.files = files]
Release(origin, files, named) ==
  /\ skill' = [origin |-> origin, legacy |-> FALSE, files |-> files,
               version |-> IF Same(origin, files) THEN skill.version
                           ELSE IF named # Unnamed THEN named ELSE skill.version + 1]
  /\ lowered' = (lowered \/ (named # Unnamed /\ ~Same(origin, files) /\ named <= skill.version))
Released(origin, files) ==
  released' = released \cup {<<"skill", skill'.version, Content(origin, files)>>,
                             <<"pack", pack'.version, <<pack'.name, files>>>>}
PublishSkill(origin, files, named) ==
  Release(origin, files, named) /\ pack' = pack /\ Released(origin, files)
Publish(origin, files, named) ==
  /\ Release(origin, files, named)
  /\ pack' = IF Same(origin, files) THEN pack ELSE [pack EXCEPT !.version = @ + 1]
  /\ Released(origin, files)
Rival == rivals < MaxRivals /\ rivals' = rivals + 1

(* createSkill, inline: what was published, the sent document and uploads  *)
(* over it, less what is deleted.                                          *)
Merged(doc, uploads, deleted) ==
  [p \in Paths |-> IF p \in deleted THEN Absent
                   ELSE IF p = Doc THEN doc
                   ELSE IF p \in DOMAIN uploads THEN uploads[p] ELSE skill.files[p]]

(* Another administrator, or a client of the API, who may name a version.  *)
OtherAdmin ==
  /\ Rival
  /\ \E p \in Attachments, text \in {"windows", Absent}, named \in Versions \cup {Unnamed} :
       Publish("inline", [skill.files EXCEPT ![p] = text], named)
  /\ UNCHANGED <<listed, fetched, workspace, save, loop>>

SaveBundle ==
  /\ Rival
  /\ \E name \in {pack.name, 1} :
       pack' = [version |-> IF name = pack.name THEN pack.version ELSE pack.version + 1,
                name |-> name]
  /\ released' = released \cup {<<"pack", pack'.version, <<pack'.name, skill.files>>>>}
  /\ UNCHANGED <<skill, lowered, listed, fetched, workspace, save, loop>>

-----------------------------------------------------------------------------
\* The panel

(* The panel's query reads the rows again, at any later time.              *)
Relist ==
  /\ listed' = skill /\ listed # skill
  /\ UNCHANGED <<published, fetched, workspace, save, loop, rivals>>

Acted == edits < MaxEdits /\ edits' = edits + 1
Locked == loop = "panel"
OpenEditor ==
  /\ ~desk.open /\ ~Locked /\ Acted
  /\ desk' = [Closed EXCEPT !.open = TRUE, !.item = listed, !.doc = listed.files[Doc]]
  /\ wanted' = [Untouched EXCEPT ![Doc] = listed.files[Doc]]
  /\ UNCHANGED <<around, converted>>

Leave == desk' = Closed /\ wanted' = Untouched /\ converted' = {}
CloseEditor ==
  /\ desk.open /\ save.pc = "none"
  /\ Leave
  /\ UNCHANGED <<around, edits>>

(* sync goes through the listed skills that came from GitHub, the panel of *)
(* the recommended ones through its own; both send one request after the   *)
(* other and count what fails.  The editor covers the buttons of both, and *)
(* only that panel stays locked until its loop has ended.                  *)
StartSync ==
  /\ ~desk.open /\ loop = "none" /\ Rival
  /\ \/ loop' = "panel"
     \/ loop' = "list" /\ listed.origin = "github"
  /\ UNCHANGED <<published, listed, fetched, workspace, save>>

SyncSkill ==
  /\ loop # "none"
  /\ loop' = "none"
  /\ Publish("github", Upstream, Unnamed) \/ UNCHANGED published
  /\ fetched' = IF Locked THEN fetched ELSE [fetched EXCEPT !.version = 0]
  /\ UNCHANGED <<listed, workspace, save, rivals>>

-----------------------------------------------------------------------------
\* The workspace

Uploaded == DOMAIN desk.uploads
Shown == ({p \in Paths : desk.item.files[p] # Absent} \cup Uploaded) \ desk.deleted
Loaded(p) == fetched.version = desk.item.version /\ fetched.files[p] # Absent
InRow(p) == desk.item.legacy /\ desk.item.files[p] # Absent
Readable(p) == Loaded(p) \/ InRow(p)
Text(p) == IF Loaded(p) THEN fetched.files[p] ELSE desk.item.files[p]
EnabledWhileReading == desk.open /\ save.pc = "none"
Enabled == desk.open /\ save.pc = "none" /\ ~desk.blocked

(* What was chosen last, over what there was.                              *)
Over(files, older) ==
  [p \in DOMAIN files \cup DOMAIN older |-> IF p \in DOMAIN files THEN files[p] ELSE older[p]]
Put(p, text) == desk' = [desk EXCEPT !.uploads = Over([q \in {p} |-> text], @)]

(* The files of a published skill are fetched once for a version, though   *)
(* the server answers with what is published by then; a legacy row has its *)
(* texts.                                                                  *)
FetchFiles ==
  /\ desk.open /\ ~desk.item.legacy /\ fetched.version # desk.item.version
  /\ fetched' = [version |-> desk.item.version, files |-> skill.files]
  /\ UNCHANGED <<published, listed, workspace, save, loop, rivals>>

(* Showing a text in the code editor normalises it, which is an edit.      *)
ShowFile(p) ==
  /\ Enabled /\ p \in Shown \ Uploaded
  /\ IF p = Doc
     THEN /\ desk.doc = "windows"
          /\ desk' = [desk EXCEPT !.doc = "unix"]
          /\ wanted' = [wanted EXCEPT ![Doc] = "unix"] /\ UNCHANGED converted
     ELSE /\ Readable(p) /\ Text(p) = "windows"
          /\ Put(p, "unix")
          /\ converted' = converted \cup {p} /\ UNCHANGED wanted
  /\ UNCHANGED <<around, edits>>

EditFile(p, text) ==
  /\ Enabled /\ p \in Shown /\ Acted
  /\ p \in Uploaded \cup {Doc} \/ Readable(p)
  /\ IF p = Doc THEN desk' = [desk EXCEPT !.doc = text] ELSE Put(p, text)
  /\ wanted' = [wanted EXCEPT ![p] = text]
  /\ UNCHANGED <<around, converted>>

CreateFile(p) ==
  /\ Enabled /\ p \notin Shown \cup desk.deleted /\ Acted
  /\ Put(p, "empty")
  /\ wanted' = [wanted EXCEPT ![p] = "empty"]
  /\ UNCHANGED <<around, converted>>

(* Attachments: the files are read one after the other; the workspace is   *)
(* blocked until they are, and what was there before is put back with them.*)
Free == desk.open /\ save.pc = "none" /\ desk.reading = <<>>
Attach ==
  /\ Free /\ Acted
  /\ \E chosen \in SUBSET Attachments \ {{}} :
       desk' = [desk EXCEPT !.reading = [p \in chosen |-> "windows"],
                            !.before = <<desk.uploads, desk.deleted>>, !.blocked = TRUE]
  /\ UNCHANGED <<around, wanted, converted>>

AttachmentsRead ==
  /\ desk.open /\ desk.reading # <<>>
  /\ desk' = [desk EXCEPT !.uploads = Over(desk.reading, desk.before[1]),
                          !.deleted = desk.before[2] \ DOMAIN desk.reading,
                          !.reading = <<>>, !.before = <<>>, !.blocked = FALSE]
  /\ wanted' = Over(desk.reading, wanted)
  /\ UNCHANGED <<around, converted, edits>>

AttachmentsFail ==
  /\ desk.open /\ desk.reading # <<>>
  /\ desk' = [desk EXCEPT !.reading = <<>>, !.before = <<>>]
  /\ UNCHANGED <<around, wanted, converted, edits>>

ClearError ==
  /\ desk.open /\ desk.blocked /\ desk.reading = <<>>
  /\ desk' = [desk EXCEPT !.blocked = FALSE]
  /\ UNCHANGED <<around, wanted, converted, edits>>

RemoveFile(p) ==
  /\ Free /\ p \in Shown /\ Acted
  /\ desk' = [desk EXCEPT !.uploads = [q \in Uploaded \ {p} |-> @[q]], !.deleted = @ \cup {p}]
  /\ wanted' = [wanted EXCEPT ![p] = Absent]
  /\ UNCHANGED <<around, converted>>

(* Instead of the workspace, the directory on GitHub may be chosen, which  *)
(* hides and keeps the workspace, and waits for no attachment.             *)
Resent == {p \in Attachments : InRow(p)} \ (Uploaded \cup desk.deleted)
Save(source) ==
  /\ desk.open /\ save.pc = "none" /\ Acted
  /\ source = "inline" => ~desk.blocked /\ desk.doc # "empty"
  /\ save' = [pc |-> "sent", source |-> source, doc |-> desk.doc,
              uploads |-> Over(desk.uploads, [p \in Resent |-> desk.item.files[p]]),
              deleted |-> desk.deleted]
  /\ UNCHANGED <<published, listed, fetched, desk, wanted, converted, loop, rivals>>

ServeSave ==
  /\ save.pc = "sent"
  /\ IF save.source = "inline"
     THEN Publish("inline", Merged(save.doc, save.uploads, save.deleted), Unnamed)
     ELSE Publish("github", Upstream, Unnamed)
  /\ save' = [save EXCEPT !.pc = "served"]
  /\ UNCHANGED <<listed, fetched, workspace, loop, rivals>>

Saved ==
  /\ save.pc = "served"
  /\ save' = NoSave /\ Leave
  /\ fetched' = [fetched EXCEPT !.version = 0]
  /\ UNCHANGED <<published, listed, loop, edits, rivals>>

(* The request or its answer is lost: the error is shown over the same     *)
(* workspace, and the user may save again.                                 *)
SaveFails ==
  /\ save.pc # "none"
  /\ save' = NoSave
  /\ UNCHANGED <<published, listed, fetched, workspace, loop, rivals>>

-----------------------------------------------------------------------------
Next ==
  \/ OtherAdmin \/ SaveBundle
  \/ Relist \/ OpenEditor \/ CloseEditor
  \/ StartSync \/ SyncSkill
  \/ FetchFiles
  \/ \E p \in Paths : ShowFile(p) \/ \E text \in {"empty", "unix"} : EditFile(p, text)
  \/ \E p \in Attachments : CreateFile(p) \/ RemoveFile(p)
  \/ Attach \/ AttachmentsRead \/ AttachmentsFail \/ ClearError
  \/ Save("inline") \/ Save("github")
  \/ ServeSave \/ Saved \/ SaveFails

Spec == Init /\ [][Next]_skillVars

-----------------------------------------------------------------------------
\* Properties

Texts == {"empty", "unix", "windows", Absent}
Files == [Paths -> Texts]
Partly(files) == DOMAIN files \subseteq Attachments /\ \A p \in DOMAIN files : files[p] \in Texts
SkillRow == [version : Nat, origin : {"github", "inline"}, legacy : BOOLEAN, files : Files]
TypeOK ==
  /\ skill \in SkillRow /\ listed \in SkillRow
  /\ pack \in [version : Nat, name : 0..1]
  /\ fetched \in [version : Nat, files : Files]
  /\ desk.open \in BOOLEAN /\ desk.blocked \in BOOLEAN /\ desk.item \in SkillRow
  /\ save.pc \in {"none", "sent", "served"} /\ save.source \in {"inline", "github"}
  /\ \A d \in {desk, save} : /\ d.doc \in Texts /\ d.deleted \subseteq Attachments
                             /\ Partly(d.uploads)
  /\ Partly(desk.reading)
  /\ desk.before # <<>> => Partly(desk.before[1]) /\ desk.before[2] \subseteq Attachments
  /\ loop \in {"none", "panel", "list"}
  /\ wanted \in [Paths -> Texts \cup {Kept}] /\ converted \subseteq Attachments
  /\ lowered \in BOOLEAN /\ edits \in 0..MaxEdits /\ rivals \in 0..MaxRivals

(* Saving publishes what the workspace has come to show: every edit,       *)
(* upload and removal of this session, in whatever order they were made    *)
(* and however late a file was read.  An attachment that nobody here       *)
(* touched stays as it is published, also when another administrator has   *)
(* changed it since the workspace was opened; but the texts of a row that  *)
(* was opened without a manifest are published again as they were opened.  *)
SavedAsShown ==
  [][ServeSave /\ save.source = "inline" =>
       \A p \in Paths \ converted :
         skill'.files[p] = IF wanted[p] # Kept THEN wanted[p]
                           ELSE IF InRow(p) THEN desk.item.files[p]
                           ELSE skill.files[p]]_skillVars

(* A version names one content: whoever publishes in between, and however  *)
(* often a save is repeated, no two contents of a bundle are released      *)
(* under one version; and none of a skill, as long as nobody has named a   *)
(* version of it that was not above the published one, which the API lets  *)
(* a caller do and the console never does.                                 *)
VersionNamesContent ==
  \A r, s \in released :
    r[1] = s[1] /\ r[2] = s[2] /\ (r[1] = "skill" => ~lowered) => r[3] = s[3]
=============================================================================
