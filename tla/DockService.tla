----------------------------- MODULE DockService -----------------------------
(***************************************************************************)
(* What the docking services promise to the mission that calls them        *)
(* (/start_work_dock, /start_home_dock, /start_undock): a call that is     *)
(* answered with success has left the robot where it was to go, the robot  *)
(* is moved only while the caller waits, and a success is never given up.  *)
(* A call may be without an answer for ever.                               *)
(***************************************************************************)

VARIABLES
  serving,   \* the call under way, or "none"
  ended,     \* how it has ended, before it is answered
  awaited,   \* whether the caller still waits for the answer
  place      \* in a dock, parked in one backwards, near one, or out of them

vars == <<serving, ended, awaited, place>>

Kinds == {"dock", "home", "undock"}
Places == {"out", "near", "in", "parked"}
Goal(kind) == CASE kind = "dock" -> "in" [] kind = "home" -> "parked" [] OTHER -> "out"

Init == serving = "none" /\ ended = "none" /\ awaited = FALSE /\ place = "parked"

\* The caller undocks from a dock it is in.
Start(kind) ==
  /\ serving = "none" /\ (kind = "undock" => place = "in")
  /\ serving' = kind /\ ended' = "none" /\ awaited' = TRUE
  /\ UNCHANGED place

Move ==
  /\ serving # "none" /\ ended = "none" /\ awaited
  /\ place' \in {"out", "near", place, Goal(serving)}
  /\ UNCHANGED <<serving, ended, awaited>>

End(outcome) ==
  /\ serving # "none" /\ ended = "none"
  /\ outcome = "done" => awaited /\ place = Goal(serving)
  /\ ended' = outcome
  /\ UNCHANGED <<serving, awaited, place>>

Answer ==
  /\ ended # "none"
  /\ serving' = "none" /\ ended' = "none" /\ awaited' = FALSE
  /\ UNCHANGED place

GiveUp ==
  /\ awaited /\ ended # "done"
  /\ awaited' = FALSE
  /\ UNCHANGED <<serving, ended, place>>

\* Nobody waits: the robot is driven by others.
Elsewhere ==
  /\ ~awaited
  /\ place' \in Places
  /\ UNCHANGED <<serving, ended, awaited>>

Next ==
  \/ \E kind \in Kinds : Start(kind)
  \/ Move \/ \E outcome \in {"done", "failed"} : End(outcome)
  \/ Answer \/ GiveUp \/ Elsewhere

Spec == Init /\ [][Next]_vars

=============================================================================
