----------------------------- MODULE RunService -----------------------------
(***************************************************************************)
(* What PalmRuntime promises about its runs (hotSync, fullSync, the        *)
(* mirrors, clobberSync, backup, restore): one at a time has the device,   *)
(* and each one that was started is over exactly once: reported, or given  *)
(* up with the runtime.  A run may also be over the moment it starts, when *)
(* there is nothing it can do.                                             *)
(***************************************************************************)
CONSTANTS Runs,   \* the run requests
          NoRun   \* no request

VARIABLES current,  \* the run in flight, or NoRun
          over      \* the runs that are over

vars == <<current, over>>

Init == current = NoRun /\ over = {}

Start(r) ==
    /\ current = NoRun /\ r \notin over
    /\ current' = r
    /\ UNCHANGED over

StartAndEnd(r) ==
    /\ current = NoRun /\ r \notin over
    /\ over' = over \cup {r}
    /\ UNCHANGED current

End ==
    /\ current # NoRun
    /\ over' = over \cup {current}
    /\ current' = NoRun

Next == End \/ \E r \in Runs : Start(r) \/ StartAndEnd(r)

Spec == Init /\ [][Next]_vars
=============================================================================
