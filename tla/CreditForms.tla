---------------------------- MODULE CreditForms -----------------------------
(***************************************************************************)
(* The forms of the console that move credits: Funding of a team           *)
(* (TeamsPage), Adjustment of a user's balance (AdminPage) and the         *)
(* redemption of a code (BillingPage).  The first two draw an operation    *)
(* with a key at the first submission and send that one again until they   *)
(* succeed; a code is its own key.  Requests go on when their form is      *)
(* left, are refused, and their answers may be lost.                       *)
(*                                                                         *)
(* A wish is what somebody wanted by filling in the form once: an amount   *)
(* for a wallet, or a code.                                                *)
(***************************************************************************)
EXTENDS Integers, Sequences

CONSTANTS Amounts, NoOperation, MaxWishes, MaxSends

VARIABLES
  forms,               \* Funding, Adjustment and redeem, and what their mutations show
  requests,            \* what is on its way to the server or back
  postings,            \* the movements of the ledger with their idempotency keys
  wishes, keysDrawn,   \* history: what was wanted; how many keys crypto.randomUUID gave
  sends

formState == <<forms, wishes>>
creditVars == <<forms, requests, postings, wishes, keysDrawn, sends>>

Forms == {"fund", "adjust", "redeem"}
Blank == [shown |-> FALSE, wish |-> 0, operation |-> NoOperation, pc |-> "idle", waits |-> 0]

Init ==
  /\ forms = [f \in Forms |-> Blank]
  /\ requests = {} /\ postings = {}
  /\ wishes = <<>> /\ keysDrawn = 0 /\ sends = 0

Set(f, form) == forms' = [forms EXCEPT ![f] = form]
Filled(f) == forms[f].wish # 0
Waiting(f) == forms[f].pc = "pending"

-----------------------------------------------------------------------------
\* The forms

(* The panel opens, and its form is filled in while no operation is drawn: *)
(* after that the fields are disabled.  The field of a code is free again  *)
(* after every answer.                                                     *)
Show(f) ==
  /\ ~forms[f].shown
  /\ Set(f, [forms[f] EXCEPT !.shown = TRUE])
  /\ UNCHANGED <<requests, postings, wishes, keysDrawn, sends>>
FillIn(f, amount) ==
  /\ forms[f].shown /\ ~Waiting(f) /\ Len(wishes) < MaxWishes
  /\ f = "redeem" \/ (forms[f].operation = NoOperation /\ forms[f].pc # "success")
  /\ wishes' = Append(wishes, [form |-> f, amount |-> amount])
  /\ Set(f, [forms[f] EXCEPT !.wish = Len(wishes) + 1, !.pc = "idle"])
  /\ UNCHANGED <<requests, postings, keysDrawn, sends>>

(* The operation is drawn once: crypto.randomUUID, kept for every retry.   *)
FreshOperation(f) ==
  [amount |-> wishes[forms[f].wish].amount,
   key |-> IF f = "redeem" THEN -forms[f].wish ELSE keysDrawn + 1]
Operation(f) ==
  IF forms[f].operation # NoOperation THEN forms[f].operation
  ELSE [amount |-> wishes[forms[f].wish].amount,
        key |-> IF f = "redeem" THEN -forms[f].wish ELSE keysDrawn + 1]
Confirm(f) ==
  /\ forms[f].shown /\ Filled(f) /\ forms[f].pc \in {"idle", "error"} /\ sends < MaxSends
  /\ LET operation == Operation(f)
     IN  /\ Set(f, [forms[f] EXCEPT !.pc = "pending", !.waits = sends + 1,
                      !.operation = IF f = "redeem" THEN NoOperation ELSE operation])
         /\ requests' = requests \cup
              {[form |-> f, operation |-> operation, wish |-> forms[f].wish, n |-> sends + 1,
                answer |-> "none"]}
         /\ keysDrawn' = IF operation.key > keysDrawn THEN operation.key ELSE keysDrawn
  /\ sends' = sends + 1
  /\ UNCHANGED <<postings, wishes>>

(* Closing the panel of Funding or of a redemption only hides it, closing  *)
(* that of an Adjustment drops it; neither can be closed while it waits.   *)
(* Leaving the page drops all, even while a request is out.                *)
ClosePanel(f) ==
  /\ forms[f].shown /\ ~Waiting(f)
  /\ Set(f, IF f = "adjust" THEN Blank ELSE [forms[f] EXCEPT !.shown = FALSE])
  /\ UNCHANGED <<requests, postings, wishes, keysDrawn, sends>>
LeavePage(f) ==
  /\ forms[f] # Blank /\ Set(f, Blank)
  /\ UNCHANGED <<requests, postings, wishes, keysDrawn, sends>>

(* "Once more", after a success, starts from an empty form.                *)
OnceMore(f) ==
  /\ f = "fund" /\ forms[f].shown /\ forms[f].pc = "success"
  /\ Set(f, [Blank EXCEPT !.shown = TRUE])
  /\ UNCHANGED <<requests, postings, wishes, keysDrawn, sends>>

-----------------------------------------------------------------------------
\* The server and the answers

Posted(operation) == \E p \in postings : p.key = operation.key
Answered(r, answer) == requests' = (requests \ {r}) \cup {[r EXCEPT !.answer = answer]}

(* fundTeam and adjustBalance post under the key unless it is there, and   *)
(* then answer as before; a code that is used is refused.                  *)
ServeOperation(r) ==
  /\ r \in requests /\ r.answer = "none"
  /\ \/ /\ ~Posted(r.operation)
        /\ postings' = postings \cup {[key |-> r.operation.key, amount |-> r.operation.amount,
                                       n |-> r.n, wish |-> r.wish]}
        /\ Answered(r, "success")
     \/ /\ Posted(r.operation) /\ UNCHANGED postings
        /\ Answered(r, IF r.form = "redeem" THEN "error" ELSE "success")
     \/ /\ ~Posted(r.operation) /\ UNCHANGED postings      \* refused
        /\ Answered(r, "error")
  /\ UNCHANGED <<formState, keysDrawn, sends>>

(* A form shows what became of the request it waits for; it stops waiting  *)
(* with an error while that request may still be served.  A redeemed code  *)
(* leaves its field.                                                       *)
Shows(r, answer) ==
  forms' = IF forms[r.form].waits # r.n THEN forms
           ELSE [forms EXCEPT ![r.form].pc = answer, ![r.form].waits = 0,
                   ![r.form].wish = IF r.form = "redeem" /\ answer = "success" THEN 0 ELSE @]
Receive(r) ==
  /\ r.answer # "none" /\ requests' = requests \ {r}
  /\ Shows(r, r.answer)
  /\ UNCHANGED <<postings, wishes, keysDrawn, sends>>
GiveUp(r) ==
  /\ forms[r.form].waits = r.n /\ Shows(r, "error")
  /\ UNCHANGED <<requests, postings, wishes, keysDrawn, sends>>

Next ==
  \/ \E f \in Forms : Show(f) \/ Confirm(f) \/ ClosePanel(f) \/ LeavePage(f) \/ OnceMore(f)
  \/ \E f \in Forms, amount \in Amounts : FillIn(f, amount)
  \/ \E r \in requests : ServeOperation(r) \/ Receive(r) \/ GiveUp(r)
Spec == Init /\ [][Next]_creditVars

-----------------------------------------------------------------------------
\* Properties

Keyed == [amount : Amounts, key : Int]
TypeOK ==
  /\ forms \in [Forms -> [shown : BOOLEAN, wish : 0..MaxWishes,
                          operation : Keyed \cup {NoOperation},
                          pc : {"idle", "pending", "success", "error"}, waits : 0..MaxSends]]
  /\ requests \subseteq [form : Forms, operation : Keyed, wish : 1..MaxWishes,
                         n : 1..MaxSends, answer : {"none", "success", "error"}]
  /\ postings \subseteq [key : Int, amount : Amounts, n : 1..MaxSends, wish : 1..MaxWishes]
  /\ wishes \in Seq([form : Forms, amount : Amounts]) /\ keysDrawn \in Nat
  /\ sends \in 0..MaxSends

(* Whatever is refused, lost, retried, closed or left: a wish moves        *)
(* credits at most once, by the amount that was filled in, and a form that *)
(* reports success reports a movement of its own wish.                     *)
CreditedOnce ==
  /\ \A p, q \in postings : p.wish = q.wish => p = q
  /\ \A p \in postings : p.amount = wishes[p.wish].amount
  /\ \A f \in Forms : forms[f].pc = "success" /\ Filled(f) =>
       \E p \in postings : p.wish = forms[f].wish
=============================================================================
