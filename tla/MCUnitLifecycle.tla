------------------------- MODULE MCUnitLifecycle -------------------------
(***************************************************************************)
(* Small instances of UnitLifecycle: filter-state with two of its files    *)
(* and a deployed skill.  Counters bound the history: so many commands are *)
(* started, and the user changes so many files, before or under them.      *)
(***************************************************************************)
EXTENDS UnitLifecycle, TLC

CONSTANTS filterState, deploy,
          sensorMap, posterior, skill,
          c1, c2, e1,
          MaxCommands,   \* bound: commands started
          MaxEdits       \* bound: steps of the user

VARIABLES started, edited

MCFilesOf == filterState :> <<posterior, sensorMap>> @@ deploy :> <<skill>>

Commands == Permutations({c1, c2})

MCInit == Init /\ started = 0 /\ edited = 0

MCNext ==
  \/ /\ UserStep
     /\ edited < MaxEdits
     /\ edited' = edited + 1
     /\ UNCHANGED started
  \/ \E c \in Command :
       /\ CommandStep(c)
       /\ started' = started + (IF pc[c] = "idle" THEN 1 ELSE 0)
       /\ started' <= MaxCommands
       /\ UNCHANGED edited

MCSpec == MCInit /\ [][MCNext]_<<vars, started, edited>>
==========================================================================
