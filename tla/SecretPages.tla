---------------------------- MODULE SecretPages -----------------------------
(***************************************************************************)
(* The pages that create a secret which is shown once, and the lists with  *)
(* a confirmation of their own: TokensPage (a token, revoke), CodesPage    *)
(* (a redemption code), TeamDetail of TeamsPage (an invitation, remove)    *)
(* and the users of AdminPage (enable or disable).  A secret is kept in    *)
(* the page's state only; the answer that brings it comes late or never.   *)
(***************************************************************************)
EXTENDS Integers, FiniteSets

CONSTANTS
  Rows,                \* the rows of the list of a page
  NoRow,
  MaxCreations, MaxActs

VARIABLES
  page,                \* "tokens", "codes", "invites", "users", or "away"
  making,              \* the creation the page waits for, 0 for none
  panel,               \* is the side panel open
  secret,              \* the creation whose secret the page shows, 0 for none
  created, returned,   \* creations the server has served; those whose answer is on its way
  confirm,             \* the row whose confirmation is shown
  act, asked,          \* the request the mutation shows, 0 for none; those on their way
  notice,              \* the row whose failure is shown
  kept, unserved,      \* history: the secrets that were shown and hidden; not yet served
  creations, acts

list == <<confirm, act, asked, notice, acts>>
creation == <<making, secret, created, returned, kept, unserved, creations>>
secretVars == <<page, panel, creation, list>>

Pages == {"tokens", "codes", "invites", "users"}
Makes == page \in {"tokens", "codes", "invites"}
Lists == page \in {"tokens", "invites", "users"}
(* Another row's confirmation starts with mutation.reset().                *)
Resets == page \in {"invites", "users"}

Init ==
  /\ page = "away" /\ panel = FALSE
  /\ making = 0 /\ secret = 0 /\ created = {} /\ returned = {} /\ kept = {} /\ unserved = {}
  /\ creations = 0
  /\ confirm = NoRow /\ act = 0 /\ asked = {} /\ notice = NoRow /\ acts = 0

(* Leaving unmounts the page with all it has in its state; requests go on. *)
Leave ==
  /\ page # "away" /\ page' = "away" /\ panel' = FALSE
  /\ making' = 0 /\ secret' = 0 /\ confirm' = NoRow /\ act' = 0 /\ notice' = NoRow
  /\ asked' = {[r EXCEPT !.live = FALSE] : r \in asked}
  /\ UNCHANGED <<created, returned, kept, unserved, creations, acts>>
Visit(p) ==
  /\ page = "away" /\ page' = p
  /\ UNCHANGED <<panel, creation, list>>

-----------------------------------------------------------------------------
\* The secret

(* The panel is locked while it waits and while a secret is shown.         *)
OpenPanel == Makes /\ ~panel /\ panel' = TRUE /\ UNCHANGED <<page, creation, list>>
ClosePanel ==
  /\ panel /\ making = 0 /\ secret = 0 /\ panel' = FALSE
  /\ UNCHANGED <<page, creation, list>>

Create ==
  /\ panel /\ making = 0 /\ secret = 0 /\ creations < MaxCreations
  /\ creations' = creations + 1 /\ making' = creations + 1
  /\ unserved' = unserved \cup {creations + 1}
  /\ UNCHANGED <<page, panel, secret, created, returned, kept, list>>
ServeCreate(n) ==
  /\ n \in unserved /\ unserved' = unserved \ {n}
  /\ created' = created \cup {n} /\ returned' = returned \cup {n}
  /\ UNCHANGED <<page, panel, making, secret, kept, creations, list>>
Awaiting(n) == making # 0
Awaited(n) == making = n
(* mutationFn stores the secret itself, so that no cache ever holds it.    *)
ShowSecret(n) ==
  /\ n \in returned /\ returned' = returned \ {n}
  /\ IF Awaited(n) THEN making' = 0 /\ secret' = n ELSE UNCHANGED <<making, secret>>
  /\ UNCHANGED <<page, panel, created, kept, unserved, creations, list>>
CreateFails(n) ==
  /\ n \in unserved \cup returned
  /\ unserved' = unserved \ {n} /\ returned' = returned \ {n}
  /\ making' = IF making = n THEN 0 ELSE making
  /\ UNCHANGED <<page, panel, secret, created, kept, creations, list>>
Hide ==
  /\ secret # 0 /\ panel /\ secret' = 0 /\ kept' = kept \cup {secret}
  /\ UNCHANGED <<page, panel, making, created, returned, unserved, creations, list>>

-----------------------------------------------------------------------------
\* The list, which the open panel covers

Confirm(row) ==
  /\ Lists /\ ~panel /\ confirm # row /\ confirm' = row
  /\ IF Resets THEN act' = 0 /\ notice' = NoRow ELSE UNCHANGED <<act, notice>>
  /\ UNCHANGED <<page, panel, creation, asked, acts>>
(* "Cancel" is disabled while the mutation is pending; on the tokens' page *)
(* it forgets the failure too.                                             *)
Dismiss ==
  /\ confirm # NoRow /\ ~panel /\ act = 0
  /\ confirm' = NoRow /\ notice' = IF Resets THEN notice ELSE NoRow
  /\ UNCHANGED <<page, panel, creation, act, asked, acts>>
Act ==
  /\ confirm # NoRow /\ ~panel /\ act = 0 /\ acts < MaxActs
  /\ acts' = acts + 1 /\ act' = acts + 1
  /\ asked' = asked \cup {[n |-> acts + 1, row |-> confirm, live |-> TRUE]}
  /\ notice' = NoRow
  /\ UNCHANGED <<page, panel, creation, confirm>>
(* onSuccess belongs to the request and clears whatever confirmation this  *)
(* page shows by then; a failure is shown by the mutation that watches it. *)
Acted(r) ==
  /\ r \in asked /\ asked' = asked \ {r}
  /\ confirm' = IF r.live THEN NoRow ELSE confirm
  /\ act' = IF act = r.n THEN 0 ELSE act
  /\ UNCHANGED <<page, panel, creation, notice, acts>>
ActFails(r) ==
  /\ r \in asked /\ asked' = asked \ {r}
  /\ IF act = r.n THEN act' = 0 /\ notice' = r.row ELSE UNCHANGED <<act, notice>>
  /\ UNCHANGED <<page, panel, creation, confirm, acts>>

Next ==
  \/ \E p \in Pages : Visit(p)
  \/ Leave \/ OpenPanel \/ ClosePanel \/ Create \/ Hide
  \/ \E n \in 1..MaxCreations : ServeCreate(n) \/ ShowSecret(n) \/ CreateFails(n)
  \/ \E row \in Rows : Confirm(row)
  \/ Dismiss \/ Act
  \/ \E r \in asked : Acted(r) \/ ActFails(r)
Spec == Init /\ [][Next]_secretVars

-----------------------------------------------------------------------------
\* Properties

TypeOK ==
  /\ page \in Pages \cup {"away"} /\ panel \in BOOLEAN
  /\ {making, secret, creations} \subseteq 0..MaxCreations
  /\ created \cup returned \cup kept \cup unserved \subseteq 1..MaxCreations
  /\ {confirm, notice} \subseteq Rows \cup {NoRow} /\ {act, acts} \subseteq 0..MaxActs
  /\ asked \subseteq [n : 1..MaxActs, row : Rows, live : BOOLEAN]

(* The secret that appears is that of the last creation, and it stays      *)
(* until its reader hides it or leaves the page: neither the answer to an  *)
(* earlier creation, late as it may be, nor a second one, nor the panel    *)
(* takes its place or takes it away.                                       *)
SecretStays ==
  [][secret' # secret =>
       \/ secret = 0 /\ secret' = creations /\ secret' \in created
       \/ secret' = 0 /\ (secret \in kept' \/ page' = "away")]_secretVars

(* A failure shown in a confirmation is that of its own row, on the pages  *)
(* that reset the mutation for another one.                                *)
NoticeOfItsRow == Resets /\ confirm # NoRow /\ notice # NoRow => notice = confirm

(* What these pages owe to answers that come late.                         *)
SecretKept == SecretStays /\ []NoticeOfItsRow
=============================================================================
