------------------------------ MODULE MCFronts ------------------------------
(***************************************************************************)
(* Fronts for TLC.  A surface that is not searched stays in one of its     *)
(* initial states.                                                         *)
(***************************************************************************)
EXTENDS Fronts, TLC

CONSTANTS a, b

FourItems == 1..4
OneAndTwo == a :> 1 @@ b :> 2
EachList == {{"clients"}, {"installed"}}

Init ==
  /\ FrontsInit
  /\ surface # "session" => cookie = Nothing
  /\ surface # "skill" => ~skill.legacy
  /\ surface # "list" => visible = {} /\ current = a
  /\ surface # "desktop" => credentials = Nothing /\ DOMAIN lists = {"clients"}

(* Of a skill the region searched is a session of four edits on a row with *)
(* a manifest, of three on one without, or of two after a client of the API*)
(* has named a version that was used.                                      *)
WithoutManifest == skill.legacy \/ listed.legacy \/ desk.item.legacy
Searched == /\ WithoutManifest => edits <= 3
            /\ lowered => edits <= 2

Spec == Init /\ [][FrontsNext]_frontVars
=============================================================================
