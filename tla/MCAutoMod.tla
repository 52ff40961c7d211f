------------------------------ MODULE MCAutoMod -----------------------------
(***************************************************************************)
(* Three ways to spend the states of one run, focus saying which: a file   *)
(* with one review, change and crash; a file with two reviews and the      *)
(* sweep of orphans; two files that the worker takes in turn.              *)
(***************************************************************************)
EXTENDS AutoMod, TLC

CONSTANTS First, Second
VARIABLE focus

Policy(enabled, hash, media) == [enabled |-> enabled, hash |-> hash, media |-> media]
Off == Policy(FALSE, "none", "none")
Watch == Policy(TRUE, "none", "quarantine")
Strict == Policy(TRUE, "quarantine", "reject")
ThePolicies == {Off, Watch, Strict}

Still == <<reviews, changes, crashes, deleting, expired>>
MCInit == Init /\ focus \in {"change", "review", "pair"}
MCNext ==
  /\ UNCHANGED focus
  /\ Next
  /\ focus # "pair" => upload'[Second] = "new"
  /\ focus = "change" => aged' = {} /\ reviews' <= 1
  /\ focus = "review" => UNCHANGED <<changes, crashes>>
  /\ focus = "pair" => UNCHANGED Still /\ message \subseteq message' /\ aged' = {}
MCSpec == MCInit /\ [][MCNext]_<<vars, focus>> /\ Fairness
=============================================================================
