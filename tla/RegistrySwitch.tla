--------------------------- MODULE RegistrySwitch ---------------------------
(***************************************************************************)
(* What activation and rollback promise to whoever reads the active        *)
(* registry (docs/independent-graph-operations.md, "Activate only after    *)
(* backend checks pass"): the active registry changes in one step, only to *)
(* a vetted registry, or what slips in behind the checks, and only once    *)
(* the registry it replaces can no longer be lost.  There are no commands, *)
(* temporary files or candidates here.                                     *)
(***************************************************************************)
CONSTANTS
  Registries,
  NoFile,
  Unvetted    \* what may slip in behind the checks of an activation

VARIABLES
  current,    \* the active and the previous registry
  durable,    \* what a power failure would leave of them
  vetted      \* the registries whose backends have been verified

switchVars == <<current, durable, vetted>>

Names == {"active", "previous"}

Init ==
  /\ \E initial \in Registries \cup {NoFile} :
       /\ current = [n \in Names |-> IF n = "active" THEN initial ELSE NoFile]
       /\ vetted = {initial} \ {NoFile}
  /\ durable = current

Vet ==
  /\ \E r \in Registries : vetted' = vetted \cup {r}
  /\ UNCHANGED <<current, durable>>

(* The active registry is copied aside; nothing else changes.               *)
Retain ==
  /\ current["active"] # NoFile
  /\ current' = [current EXCEPT !["previous"] = current["active"]]
  /\ UNCHANGED <<durable, vetted>>

(* Activation: only over an active registry that is durably retained.       *)
Install ==
  /\ current["active"] \in {NoFile, durable["previous"]}
  /\ \E r \in vetted \cup Unvetted : current' = [current EXCEPT !["active"] = r]
  /\ UNCHANGED <<durable, vetted>>

(* Rollback: the retained registry becomes active and stays retained.       *)
Restore ==
  /\ current["previous"] \in vetted \cup Unvetted
  /\ current' = [current EXCEPT !["active"] = current["previous"]]
  /\ UNCHANGED <<durable, vetted>>

Save ==
  /\ durable' = current
  /\ UNCHANGED <<current, vetted>>

Lose ==
  /\ current' = durable
  /\ UNCHANGED <<durable, vetted>>

Next == Vet \/ Retain \/ Install \/ Restore \/ Save \/ Lose

Spec == Init /\ [][Next]_switchVars
=============================================================================
