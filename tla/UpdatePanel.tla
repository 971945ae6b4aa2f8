----------------------------- MODULE UpdatePanel -----------------------------
(***************************************************************************)
(* UpdatePanel.tsx of the desktop application and the calls of updater.ts  *)
(* it waits for.  A mounted panel checks silently; its user checks,        *)
(* downloads, tries again, or leaves the page and comes back: the panel is *)
(* new then, what runs goes on and its answer reaches nobody.  Answers     *)
(* come in any order, and only buttons that are on screen are pressed.     *)
(***************************************************************************)
EXTENDS Integers, Sequences

CONSTANTS MaxCalls, MaxMounts

VARIABLES
  phase, offer,        \* offer: info, set when a version was found
  mounts,              \* which panel this is
  updates              \* the calls of all panels, in the order they were made

updateVars == <<phase, offer, mounts, updates>>

Updates == DOMAIN updates
Call(kind, by) == [kind |-> kind, by |-> by, pc |-> "out"]
Out(kind) == \E c \in Updates : updates[c] = Call(kind, mounts)
Past(kind, pc) == \E c \in Updates : updates[c] = [Call(kind, mounts) EXCEPT !.pc = pc]

Init == phase = "idle" /\ offer = FALSE /\ mounts = 1 /\ updates = <<Call("silent", 1)>>

Remount ==
  /\ mounts < MaxMounts
  /\ phase' = "idle" /\ offer' = FALSE /\ mounts' = mounts + 1
  /\ updates' = Append(updates, Call("silent", mounts + 1))

Make(kind, next) ==
  /\ Len(updates) < MaxCalls
  /\ updates' = Append(updates, Call(kind, mounts)) /\ phase' = next
  /\ UNCHANGED <<offer, mounts>>
Check ==
  /\ phase \in {"idle", "uptodate"} \/ (phase = "error" /\ ~offer)
  /\ Make("check", "checking")
Install ==
  /\ (phase = "available" /\ offer) \/ (phase = "error" /\ offer)
  /\ Make("install", "downloading")
Dismiss ==
  /\ phase = "available" /\ phase' = "idle"
  /\ UNCHANGED <<offer, mounts, updates>>

(* A silent check that finds nothing or fails leaves the panel as it is,   *)
(* and so does any answer to a panel that was left.                        *)
ShowsFailures(kind, found, ok) ==
  CASE kind \in {"silent", "check"} ->
         IF ~ok THEN "error" ELSE IF found THEN "available"
         ELSE IF kind = "check" THEN "uptodate" ELSE phase
    [] kind = "install" -> IF ok THEN "ready" ELSE "error"
Shows(kind, found, ok) ==
  CASE kind = "silent" -> IF ok /\ found THEN "available" ELSE phase
    [] kind = "check" -> IF ~ok THEN "error" ELSE IF found THEN "available" ELSE "uptodate"
    [] kind = "install" -> IF ok THEN "ready" ELSE "error"
Offers(kind, found, ok) ==
  IF kind = "install" \/ ~ok THEN offer
  ELSE found \/ (kind = "silent" /\ offer)
CallEnds(c) ==
  /\ updates[c].pc = "out"
  /\ \E found, ok \in BOOLEAN :
       /\ updates' = [updates EXCEPT ![c].pc = IF ok THEN "ok" ELSE "failed"]
       /\ IF updates[c].by = mounts
          THEN /\ phase' = Shows(updates[c].kind, found, ok)
               /\ offer' = Offers(updates[c].kind, found, ok)
          ELSE UNCHANGED <<phase, offer>>
  /\ UNCHANGED mounts

Next == Remount \/ Check \/ Install \/ Dismiss \/ \E c \in Updates : CallEnds(c)
Spec == Init /\ [][Next]_updateVars

-----------------------------------------------------------------------------
\* Properties

TypeOK ==
  /\ phase \in {"idle", "checking", "uptodate", "available", "downloading", "ready", "error"}
  /\ offer \in BOOLEAN /\ mounts \in 1..MaxMounts
  /\ updates \in Seq([kind : {"silent", "check", "install"}, by : 1..MaxMounts,
                      pc : {"out", "ok", "failed"}])

(* In whatever order the answers of the silent check and of the user's     *)
(* calls come, the panel never turns without a call of this panel that     *)
(* will end it, says "installed" only after an installation it made, and   *)
(* shows an error, with a way on, only after something the user asked of   *)
(* it has failed.                                                          *)
PanelHonest ==
  /\ phase = "checking" => Out("check")
  /\ phase = "downloading" => Out("install")
  /\ phase = "ready" => Past("install", "ok")
  /\ phase = "error" => Past("check", "failed") \/ Past("install", "failed")
  /\ phase = "available" => offer
=============================================================================
