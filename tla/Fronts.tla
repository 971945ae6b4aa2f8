------------------------------- MODULE Fronts -------------------------------
(***************************************************************************)
(* The windows in front of the server: pages of the web console and of the *)
(* desktop application, and the supervisor of the development services.  A *)
(* behaviour is that of one surface, chosen at the start; the surfaces     *)
(* share nothing but the server and the query cache, which each module     *)
(* models as far as its surface uses them.                                 *)
(***************************************************************************)
EXTENDS Integers, FiniteSets

CONSTANTS
  Surfaces,                            \* which surfaces are searched
  Nothing, NotRead,                    \* no value; a value that is not known yet
  People, MaxFetches, MaxLapses, MaxSwitches,    \* WebSession
  Items, Views, SizeOf,                          \* PagedList
  Attachments, Scripts, Versions,                \* SkillWorkbench
  Icons,                                         \* ToolForm
  MaxSkillEdits, MaxToolEdits, MaxRivals,        \* the edits of both editors
  Amounts, MaxWishes, MaxSends,                  \* CreditForms
  Secrets, MaxCreations, MaxActs,                \* SecretPages
  Tabs, Fields, MaxSaves,                        \* SettingsForm
  Accounts, Followed, MaxChanges,                \* Desktop
  MaxCalls, MaxMounts,                           \* UpdatePanel
  Supervisors, MaxKills                          \* DevSupervisor

ASSUME FrontsAssumption ==
  /\ Nothing \notin People /\ NotRead \notin People \cup {Nothing}
  /\ Nothing \notin Supervisors /\ Nothing \notin [amount : Amounts, key : Int]
  /\ Items \subseteq Nat \ {0} /\ IsFiniteSet(Items) /\ Nothing \notin Views
  /\ SizeOf \in [Views -> Nat \ {0}]
  /\ "SKILL.md" \notin Attachments /\ Versions \subseteq Nat \ {0}
  /\ Followed \subseteq SUBSET {"clients", "installed"}
ASSUME BoundsAssumption ==
  /\ MaxSkillEdits \in Nat /\ MaxToolEdits \in Nat /\ MaxRivals \in Nat
  /\ MaxWishes \in Nat /\ MaxSends \in Nat /\ MaxKills \in Nat
  /\ MaxCreations \in Nat /\ MaxActs \in Nat /\ MaxMounts \in Nat \ {0}

VARIABLE surface
VARIABLES cookie, accepted, fetches, refreshing, refreshed, client, identity, account,
          rows, route, handled, epoch, lapses, switches
VARIABLES visible, paged, loading, current, turn, turning
VARIABLES skill, pack, listed, fetched, desk, save, loop, wanted, converted, released,
          lowered, edits, rivals
VARIABLES tool, toolRow, form, reads, picture, rule, trial, saving, toggling, picked,
          filled, formEdits, formRivals
VARIABLES forms, requests, postings, wishes, keysDrawn, sends
VARIABLES page, making, panel, secret, created, returned, confirm, act, asked, notice,
          kept, unserved, creations, acts
VARIABLES settings, item, reading, draft, saveCall
VARIABLES credentials, windowPage, status, statusRead, signing, lists, listReads,
          operation, diagnosis, signings, changed, answered
VARIABLES phase, offer, mounts, updates
VARIABLES socket, steps, state, stopping, child, failure, told, kills

Session == INSTANCE WebSession WITH
               Users <- People, None <- Nothing, Unread <- NotRead
Paged == INSTANCE PagedList WITH Rows <- Items, NoView <- Nothing
Skill == INSTANCE SkillWorkbench WITH MaxEdits <- MaxSkillEdits
Tool == INSTANCE ToolForm WITH NoIcon <- Nothing, MaxEdits <- MaxToolEdits
Credit == INSTANCE CreditForms WITH NoOperation <- Nothing
Secret == INSTANCE SecretPages WITH Rows <- Secrets, NoRow <- Nothing
Settings == INSTANCE SettingsForm
Desk == INSTANCE Desktop WITH Nobody <- Nothing
Update == INSTANCE UpdatePanel
Dev == INSTANCE DevSupervisor WITH NoSupervisor <- Nothing

-----------------------------------------------------------------------------
FrontsInit ==
  /\ surface \in Surfaces
  /\ Session!Init
  /\ Paged!Init
  /\ Skill!Init
  /\ Tool!Init
  /\ Credit!Init
  /\ Secret!Init
  /\ Settings!Init
  /\ Desk!Init
  /\ Update!Init
  /\ Dev!Init

ofSession == <<cookie, accepted, fetches, refreshing, refreshed, client,
               identity, account, rows, route, handled, epoch, lapses,
               switches>>
ofPaged == <<visible, paged, loading, current, turn, turning>>
ofSkill == <<skill, pack, listed, fetched, desk, save, loop, wanted,
             converted, released, lowered, edits, rivals>>
ofTool == <<tool, toolRow, form, reads, picture, rule, trial, saving,
            toggling, picked, filled, formEdits, formRivals>>
ofCredit == <<forms, requests, postings, wishes, keysDrawn, sends>>
ofSecret == <<page, making, panel, secret, created, returned, confirm, act,
              asked, notice, kept, unserved, creations, acts>>
ofSettings == <<settings, item, reading, draft, saveCall>>
ofDesk == <<credentials, windowPage, status, statusRead, signing, lists,
            listReads, operation, diagnosis, signings, changed, answered>>
ofUpdate == <<phase, offer, mounts, updates>>
ofDev == <<socket, steps, state, stopping, child, failure, told, kills>>

OnSession ==
  /\ surface = "session" /\ Session!Next
  /\ UNCHANGED <<ofPaged, ofSkill, ofTool, ofCredit, ofSecret,
                 ofSettings, ofDesk, ofUpdate, ofDev>>
OnPaged ==
  /\ surface = "list" /\ Paged!Next
  /\ UNCHANGED <<ofSession, ofSkill, ofTool, ofCredit, ofSecret,
                 ofSettings, ofDesk, ofUpdate, ofDev>>
OnSkill ==
  /\ surface = "skill" /\ Skill!Next
  /\ UNCHANGED <<ofSession, ofPaged, ofTool, ofCredit, ofSecret,
                 ofSettings, ofDesk, ofUpdate, ofDev>>
OnTool ==
  /\ surface = "tool" /\ Tool!Next
  /\ UNCHANGED <<ofSession, ofPaged, ofSkill, ofCredit, ofSecret,
                 ofSettings, ofDesk, ofUpdate, ofDev>>
OnCredit ==
  /\ surface = "credits" /\ Credit!Next
  /\ UNCHANGED <<ofSession, ofPaged, ofSkill, ofTool, ofSecret,
                 ofSettings, ofDesk, ofUpdate, ofDev>>
OnSecret ==
  /\ surface = "secrets" /\ Secret!Next
  /\ UNCHANGED <<ofSession, ofPaged, ofSkill, ofTool, ofCredit,
                 ofSettings, ofDesk, ofUpdate, ofDev>>
OnSettings ==
  /\ surface = "settings" /\ Settings!Next
  /\ UNCHANGED <<ofSession, ofPaged, ofSkill, ofTool, ofCredit,
                 ofSecret, ofDesk, ofUpdate, ofDev>>
OnDesk ==
  /\ surface = "desktop" /\ Desk!Next
  /\ UNCHANGED <<ofSession, ofPaged, ofSkill, ofTool, ofCredit,
                 ofSecret, ofSettings, ofUpdate, ofDev>>
OnUpdate ==
  /\ surface = "update" /\ Update!Next
  /\ UNCHANGED <<ofSession, ofPaged, ofSkill, ofTool, ofCredit,
                 ofSecret, ofSettings, ofDesk, ofDev>>
OnDev ==
  /\ surface = "services" /\ Dev!Next
  /\ UNCHANGED <<ofSession, ofPaged, ofSkill, ofTool, ofCredit,
                 ofSecret, ofSettings, ofDesk, ofUpdate>>

FrontsNext ==
  /\ OnSession \/ OnPaged \/ OnSkill \/ OnTool \/ OnCredit
     \/ OnSecret \/ OnSettings \/ OnDesk \/ OnUpdate \/ OnDev
  /\ UNCHANGED surface

frontVars == <<surface, ofSession, ofPaged, ofSkill, ofTool, ofCredit,
               ofSecret, ofSettings, ofDesk, ofUpdate, ofDev>>
FrontsSpec == FrontsInit /\ [][FrontsNext]_frontVars

-----------------------------------------------------------------------------
\* The properties, each of them stated and explained in its module

(* The variables of the surface that is searched keep their types.          *)
Types ==
  /\ surface = "list" => Paged!TypeOK
  /\ surface = "skill" => Skill!TypeOK
  /\ surface = "tool" => Tool!TypeOK
  /\ surface = "credits" => Credit!TypeOK
  /\ surface = "secrets" => Secret!TypeOK
  /\ surface = "desktop" => Desk!TypeOK
  /\ surface = "update" => Update!TypeOK
  /\ surface = "services" => Dev!TypeOK

(* What this tab has cached was asked since the cache was last given up;    *)
(* and the types of all surfaces.                                           *)
OwnData == Session!OwnData /\ Types
(* No request takes effect twice; a lapse of the cookies costs one refresh. *)
ReplayedOnce == Session!ReplayedOnce
(* A page shows the rows it covers, none skipped or twice, and no late      *)
(* answer turns the page of another list.                                   *)
PagesRead == Paged!PagesRead
(* What is published is what the workspace has come to show.                *)
SavedAsShown == Skill!SavedAsShown
(* A version of a bundle names one content; one of a skill does as long as  *)
(* nobody names an old version over the API.                                *)
VersionNamesContent == Skill!VersionNamesContent
(* The picture and the verdict on screen are of the last choice.            *)
ShowsWhatCounts == Tool!ShowsWhatCounts
(* What an admin left alone is saved as he was shown it; the connection,    *)
(* which he is not shown, and what a switch is not about, stay as stored.   *)
UntouchedAsOpened == Tool!UntouchedAsOpened
(* What was wanted once is posted once, however often it is sent.           *)
CreditedOnce == Credit!CreditedOnce
(* A secret stays until its owner dismisses it; a failure is shown under    *)
(* the row it is about, but for the page of the tokens.                     *)
SecretKept == Secret!SecretKept
(* No save writes a setting over that its administrator did not change.     *)
NoLostUpdate == Settings!NoLostUpdate
(* The account on screen is this window's; a change is chosen from a list   *)
(* read after the earlier ones, those of the clients that failed excepted.  *)
WindowCurrent == Desk!WindowCurrent
(* The update panel tells what happened to its own calls.                   *)
PanelHonest == Update!PanelHonest
(* Stopped services are down, and no two supervisors have any.              *)
StoppedIsDown == Dev!StoppedIsDown
=============================================================================
