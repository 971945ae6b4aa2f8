\* The surfaces of the console, of the desktop and of the development services.
SPECIFICATION Spec
CONSTANTS
    Surfaces = {"session", "list", "skill", "tool", "credits", "secrets", "settings", "desktop", "update", "services"}
    a = a  b = b  Nothing = none  NotRead = unread
    People = {a, b}  MaxFetches = 3  MaxLapses = 1  MaxSwitches = 1
    Items <- FourItems  Views = {a, b}  SizeOf <- OneAndTwo
    Attachments = {a, b}  Scripts = {a}  Versions = {1}  MaxSkillEdits = 4  MaxRivals = 1
    Icons = {a, b}  MaxToolEdits = 3
    Amounts = {1, 2}  MaxWishes = 2  MaxSends = 2
    Secrets = {a, b}  MaxCreations = 2  MaxActs = 2
    Tabs = {a, b}  Fields = {c}  MaxSaves = 2
    Accounts = {a}  Followed <- EachList  MaxChanges = 2
    MaxCalls = 5  MaxMounts = 2
    Supervisors = {a, b}  MaxKills = 1
INVARIANTS OwnData ReplayedOnce VersionNamesContent ShowsWhatCounts CreditedOnce PanelHonest StoppedIsDown
PROPERTIES PagesRead SavedAsShown UntouchedAsOpened SecretKept NoLostUpdate WindowCurrent
CONSTRAINT Searched
CHECK_DEADLOCK FALSE
