----------------------------- MODULE AtomicFile -----------------------------
(***************************************************************************)
(* What WriteToDirectory, SaveConfig and WriteDefaultConfigFile promise    *)
(* of the file they write ("atomically", container.go:72, config.go:222    *)
(* and config.go:280): a save puts its whole content into place in one     *)
(* step or leaves the file as it was, whatever fails and wherever the      *)
(* process dies, and a load sees one whole content.  The promise stands    *)
(* until two saves of the file run at the same time.                       *)
(***************************************************************************)
CONSTANTS Saves, Loads, Data, DataOf, NoFile

VARIABLES file,    \* the content of the file, NoFile if it does not exist
          save,    \* what has become of each save
          load,    \* what has become of each load, with the content it saw
          rivals   \* two saves were in progress at the same time

vars == <<file, save, load, rivals>>

Init ==
  /\ file \in Data \union {NoFile}
  /\ save = [s \in Saves |-> "idle"]
  /\ load = [l \in Loads |-> <<"idle", NoFile>>]
  /\ rivals = FALSE

Begin(s) ==
  /\ save[s] = "idle"
  /\ save' = [save EXCEPT ![s] = "busy"]
  /\ rivals' = (\E t \in Saves : save[t] = "busy")
  /\ UNCHANGED <<file, load>>

Install(s) ==
  /\ save[s] = "busy"
  /\ save' = [save EXCEPT ![s] = "ok"]
  /\ file' = DataOf[s]
  /\ UNCHANGED <<load, rivals>>

Fail(s) ==
  /\ save[s] \in {"idle", "busy"}
  /\ save' = [save EXCEPT ![s] = "failed"]
  /\ UNCHANGED <<file, load, rivals>>

Look(l) ==
  /\ load[l][1] = "idle"
  /\ load' = [load EXCEPT ![l] = <<IF file = NoFile THEN "done" ELSE "busy", file>>]
  /\ UNCHANGED <<file, save, rivals>>

Return(l) ==
  /\ load[l][1] = "busy"
  /\ load' = [load EXCEPT ![l] = <<"done", @[2]>>]
  /\ UNCHANGED <<file, save, rivals>>

\* The process dies and with it every call in progress.
Crash ==
  /\ save' = [s \in Saves |-> IF save[s] = "busy" THEN "dead" ELSE save[s]]
  /\ load' = [l \in Loads |-> IF load[l][1] = "busy" THEN <<"dead", NoFile>> ELSE load[l]]
  /\ UNCHANGED <<file, rivals>>

Next ==
  \/ ~rivals /\ \/ \E s \in Saves : Begin(s) \/ Install(s) \/ Fail(s)
                \/ \E l \in Loads : Look(l) \/ Return(l)
                \/ Crash
  \/ rivals /\ rivals'

Spec == Init /\ [][Next]_vars
=============================================================================
