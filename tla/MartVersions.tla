---------------------------- MODULE MartVersions ----------------------------
(***************************************************************************)
(* What mart publishing promises to whoever reads the warehouse: there is  *)
(* one published file, it is replaced as a whole by the file of a run that *)
(* was never published before, and a replacement is recorded in            *)
(* mart_publish_runs before the next one happens.                          *)
(***************************************************************************)
CONSTANTS Publishers, NoFile

VARIABLES
  file,       \* the publish run whose file is the published one
  recorded,   \* the publish run last recorded PUBLISHED
  past        \* all publish runs recorded PUBLISHED

vars == <<file, recorded, past>>

Init == file = NoFile /\ recorded = NoFile /\ past = {}

Replace(p) ==
  /\ file = recorded
  /\ p \notin past
  /\ file' = p
  /\ UNCHANGED <<recorded, past>>

Record ==
  /\ recorded # file
  /\ recorded' = file
  /\ past' = past \cup {file}
  /\ UNCHANGED file

Next == Record \/ \E p \in Publishers : Replace(p)

Spec == Init /\ [][Next]_vars

=============================================================================
