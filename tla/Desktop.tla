------------------------------- MODULE Desktop -------------------------------
(***************************************************************************)
(* The desktop workbench, desktop/ui/src: pages that read what the CLI     *)
(* library knows of this computer (whose credentials it keeps, which       *)
(* clients are configured, what is installed) through queries of one       *)
(* cache, and change it through mutations.  Every command runs on a thread *)
(* of its own and is answered when it is done; the CLI in a terminal       *)
(* changes the same files.                                                 *)
(***************************************************************************)
EXTENDS Integers, FiniteSetsExt

CONSTANTS
  Accounts, Nobody,
  Followed,            \* which of the lists a behaviour follows
  MaxChanges           \* how often this window changes something

VARIABLES
  credentials,         \* whose credentials config.json holds
  windowPage,          \* the page of Workbench
  status, statusRead,  \* the query "status" and its command in flight
  signing,             \* the login or logout of Overview
  lists, listReads,    \* the queries "clients" and "installed", the same way
  operation,           \* apply, remove, update or uninstall
  diagnosis,           \* DiagnosticsPage: the address, the run and its result
  signings, changed,   \* history: own logins and logouts; own changes of each list
  answered             \* history: the changes of a list after which the window reads it

who == <<credentials, signing, signings>>
account == <<status, statusRead>>
what == <<lists, listReads>>
history == <<changed, answered>>
work == <<operation, history>>
desktopVars == <<windowPage, who, account, what, work, diagnosis>>

Lists == DOMAIN lists
PageOf == [clients |-> "overview", installed |-> "equipment"]
NoRead == [pc |-> "idle", account |-> Nobody, at |-> 0]
NoStatus == [has |-> FALSE, failed |-> FALSE, account |-> Nobody, at |-> 0]
NoList == [has |-> FALSE, failed |-> FALSE, at |-> 0]
NoListRead == [pc |-> "idle", at |-> 0]
NoSigning == [pc |-> "idle", to |-> Nobody]
NoOperation == [pc |-> "idle", list |-> "clients"]
NoDiagnosis == [address |-> 1, pc |-> "idle", of |-> 0]

(* A read under way serves whoever asks; invalidateQueries gives it up.    *)
Started(read) == IF read.pc = "idle" THEN [read EXCEPT !.pc = "sent"] ELSE read
Joined(read) == Started(read)
Restarted(read) == [read EXCEPT !.pc = "sent"]

Init ==
  /\ credentials \in Accounts \cup {Nobody}
  /\ windowPage = "overview"
  /\ status = NoStatus /\ statusRead = Started(NoRead)
  /\ \E followed \in Followed : lists = [l \in followed |-> NoList]
  /\ listReads = [l \in Lists |-> IF l = "clients" THEN Started(NoListRead) ELSE NoListRead]
  /\ signing = NoSigning /\ operation = NoOperation /\ diagnosis = NoDiagnosis
  /\ signings = 0 /\ changed = [l \in Lists |-> 0] /\ answered = changed

ShownAccount == status.account                 \* hidden when a read has failed
Changes == signings + MapThenSumSet(LAMBDA l : changed[l], Lists)
Busy == signing.pc # "idle" \/ operation.pc # "idle" \/ diagnosis.pc = "running"

-----------------------------------------------------------------------------
\* The pages and their queries

(* A page reads what it shows whenever it is mounted; the read of the page *)
(* that is left goes on.                                                   *)
Navigate(to) ==
  /\ ~Busy /\ to # windowPage
  /\ windowPage' = to
  /\ statusRead' = IF to = "diagnostics" THEN statusRead ELSE Started(statusRead)
  /\ listReads' = [l \in Lists |-> IF PageOf[l] = to THEN Started(listReads[l]) ELSE listReads[l]]
  /\ diagnosis' = NoDiagnosis
  /\ UNCHANGED <<who, status, lists, work>>

(* Refresh, retry, focus and reconnection; the equipment page's refresh    *)
(* gives up the read under way.                                            *)
RefetchStatus ==
  /\ windowPage # "diagnostics"
  /\ statusRead' = IF windowPage = "equipment" /\ ~Busy THEN Restarted(statusRead)
                   ELSE Started(statusRead)
  /\ UNCHANGED <<windowPage, who, status, what, work, diagnosis>>
LoadCredentials ==
  /\ statusRead.pc = "sent"
  /\ statusRead' = [pc |-> "loaded", account |-> credentials, at |-> signings]
  /\ UNCHANGED <<windowPage, who, status, what, work, diagnosis>>
(* The server verifies the token, or not; without credentials it fails.    *)
AnswerStatus ==
  /\ statusRead.pc = "loaded"
  /\ \/ /\ statusRead.account # Nobody
        /\ status' = [has |-> TRUE, failed |-> FALSE,
                      account |-> statusRead.account, at |-> statusRead.at]
     \/ status' = [NoStatus EXCEPT !.has = status.has, !.failed = TRUE]
  /\ statusRead' = NoRead
  /\ UNCHANGED <<windowPage, who, what, work, diagnosis>>

RefetchList(l) ==
  /\ windowPage = PageOf[l]
  /\ listReads' = [listReads EXCEPT ![l] = Started(@)]
  /\ UNCHANGED <<windowPage, who, account, lists, work, diagnosis>>
LoadList(l) ==
  /\ listReads[l].pc = "sent"
  /\ listReads' = [listReads EXCEPT ![l] = [pc |-> "loaded", at |-> changed[l]]]
  /\ UNCHANGED <<windowPage, who, account, lists, work, diagnosis>>
(* The end of a read is also the end of the mutation that waits for it.    *)
AnswerList(l) ==
  /\ listReads[l].pc = "loaded"
  /\ \/ lists' = [lists EXCEPT ![l] = [has |-> TRUE, failed |-> FALSE, at |-> listReads[l].at]]
     \/ lists' = [lists EXCEPT ![l] = [NoList EXCEPT !.has = lists[l].has, !.failed = TRUE]]
  /\ listReads' = [listReads EXCEPT ![l] = NoListRead]
  /\ operation' = IF operation = [pc |-> "settling", list |-> l] THEN NoOperation ELSE operation
  /\ UNCHANGED <<windowPage, who, account, history, diagnosis>>

-----------------------------------------------------------------------------
\* Login and logout, of this window and of a terminal

Sign(to) ==
  /\ windowPage = "overview" /\ ~Busy /\ Changes < MaxChanges
  /\ signing' = [pc |-> "sent", to |-> to]
  /\ UNCHANGED <<windowPage, credentials, signings, account, what, work, diagnosis>>
(* The form is there when no account is shown, once a read has ended.      *)
Login(a) == ShownAccount = Nobody /\ (status.has \/ status.failed) /\ Sign(a)
Logout == ShownAccount # Nobody /\ Sign(Nobody)

ServeSigning ==
  /\ signing.pc = "sent"
  /\ \/ /\ credentials' = signing.to /\ signings' = signings + 1
        /\ signing' = [signing EXCEPT !.pc = "done"]
     \/ signing' = NoSigning /\ UNCHANGED <<credentials, signings>>       \* it fails
  /\ UNCHANGED <<windowPage, account, what, work, diagnosis>>
(* onSuccess: cancelQueries, then what the command answered is shown.      *)
Cancelled(read) == NoRead
SigningDone ==
  /\ signing.pc = "done"
  /\ status' = [has |-> TRUE, failed |-> FALSE, account |-> signing.to, at |-> signings]
  /\ statusRead' = Cancelled(statusRead)
  /\ signing' = NoSigning
  /\ UNCHANGED <<windowPage, credentials, signings, what, work, diagnosis>>

Elsewhere ==
  /\ credentials' \in (Accounts \cup {Nobody}) \ {credentials}
  /\ UNCHANGED <<windowPage, signing, signings, account, what, work, diagnosis>>

-----------------------------------------------------------------------------
\* Changes of the lists

Usable(l) == lists[l].has /\ ~lists[l].failed /\ listReads[l].pc = "idle"
Operate(l) ==
  /\ windowPage = PageOf[l] /\ ~Busy /\ Usable(l)
  /\ l = "clients" => statusRead.pc = "idle"
  /\ Changes < MaxChanges
  /\ operation' = [pc |-> "sent", list |-> l]
  /\ UNCHANGED <<windowPage, who, account, what, history, diagnosis>>
(* configure reads its list again when it has succeeded, equipment always. *)
ReadAfter(end, l) == end = "done" \/ l = "installed"
(* Files are written one by one, those of the clients too: an operation    *)
(* that fails may have written nothing, some or all of them.               *)
ServeOperation ==
  LET l == operation.list IN
  /\ operation.pc = "sent"
  /\ \E end \in {"done", "failed"}, wrote \in {0, 1} :
       /\ end = "done" => wrote = 1
       /\ operation' = [operation EXCEPT !.pc = end]
       /\ changed' = [changed EXCEPT ![l] = @ + wrote]
       /\ answered' = IF ReadAfter(end, l) THEN [answered EXCEPT ![l] = changed'[l]] ELSE answered
  /\ UNCHANGED <<windowPage, who, account, what, diagnosis>>
(* The mutation is pending until that read has ended.                      *)
OperationEnds ==
  /\ operation.pc \in {"done", "failed"}
  /\ IF ReadAfter(operation.pc, operation.list)
     THEN /\ operation' = [operation EXCEPT !.pc = "settling"]
          /\ listReads' = [listReads EXCEPT ![operation.list] = Restarted(@)]
     ELSE operation' = NoOperation /\ UNCHANGED listReads
  /\ UNCHANGED <<windowPage, who, account, lists, history, diagnosis>>

-----------------------------------------------------------------------------
\* DiagnosticsPage

Idle == windowPage = "diagnostics" /\ diagnosis.pc # "running"
TypeAddress ==
  /\ Idle
  /\ diagnosis' = [NoDiagnosis EXCEPT !.address = 3 - diagnosis.address]
  /\ UNCHANGED <<windowPage, who, account, what, work>>
Diagnose ==
  /\ Idle
  /\ diagnosis' = [diagnosis EXCEPT !.pc = "running", !.of = diagnosis.address]
  /\ UNCHANGED <<windowPage, who, account, what, work>>
DiagnosisEnds ==
  /\ diagnosis.pc = "running"
  /\ diagnosis' = [diagnosis EXCEPT !.pc = "done"]
  /\ UNCHANGED <<windowPage, who, account, what, work>>

Next ==
  \/ \E to \in {"overview", "equipment", "diagnostics"} : Navigate(to)
  \/ RefetchStatus \/ LoadCredentials \/ AnswerStatus
  \/ \E l \in Lists : RefetchList(l) \/ LoadList(l) \/ AnswerList(l) \/ Operate(l)
  \/ \E a \in Accounts : Login(a)
  \/ Logout \/ ServeSigning \/ SigningDone \/ Elsewhere
  \/ ServeOperation \/ OperationEnds
  \/ TypeAddress \/ Diagnose \/ DiagnosisEnds
Spec == Init /\ [][Next]_desktopVars

-----------------------------------------------------------------------------
\* Properties

Users == Accounts \cup {Nobody}
TypeOK ==
  /\ credentials \in Users /\ windowPage \in {"overview", "equipment", "diagnostics"}
  /\ status \in [has : BOOLEAN, failed : BOOLEAN, account : Users, at : Nat]
  /\ statusRead \in [pc : {"idle", "sent", "loaded"}, account : Users, at : Nat]
  /\ signing \in [pc : {"idle", "sent", "done"}, to : Users]
  /\ lists \in [Lists -> [has : BOOLEAN, failed : BOOLEAN, at : Nat]]
  /\ listReads \in [Lists -> [pc : {"idle", "sent", "loaded"}, at : Nat]]
  /\ operation \in [pc : {"idle", "sent", "done", "failed", "settling"},
                    list : {"clients", "installed"}]
  /\ diagnosis \in [address : {1, 2}, pc : {"idle", "running", "done"}, of : 0..2]
  /\ signings \in Nat /\ {changed, answered} \subseteq [Lists -> Nat]

(* The account on screen is the one this window signed in: no answer of a  *)
(* status command that read the credentials before the last login or       *)
(* logout of the window replaces what the window shows after it.  And a    *)
(* finished diagnosis is of the address in the field.                      *)
AccountShown ==
  /\ signing.pc = "idle" /\ ShownAccount # Nobody => status.at = signings
  /\ diagnosis.pc = "done" => diagnosis.of = diagnosis.address

(* What is done next is chosen from a list that was read after the changes *)
(* this window has made before: of the equipment, after all of them, also  *)
(* of failed updates that left files behind; of the clients, after the     *)
(* configurations that succeeded.  (One that fails midway leaves clients   *)
(* written, and the page does not read them again.)                        *)
FreshLists ==
  [][\A l \in Lists : Operate(l) =>
       /\ lists[l].at >= answered[l]
       /\ l = "installed" => lists[l].at = changed[l]]_desktopVars

(* What the user of the window acts on.                                    *)
WindowCurrent == []AccountShown /\ FreshLists
=============================================================================
