------------------------------ MODULE Handling ------------------------------
(***************************************************************************)
(* What a robot's mission is promised of a piece of work at a dock: a pick *)
(* that ends well has moved the pallet from the dock onto the fork, a      *)
(* place has put it there, and the fork is clear of the dock at the height *)
(* for driving.  Work that fails leaves the pallet at one of the two       *)
(* places and has the mission stop.                                        *)
(***************************************************************************)

VARIABLES
  job,      \* the work under way, "none" or "error"
  pallet,   \* "dock", "fork", or "none" of concern
  clear     \* whether the fork may be driven about

vars == <<job, pallet, clear>>

Start(work) == CASE work = "pick" -> "dock" [] work = "place" -> "fork"
Goal(work) == CASE work = "pick" -> "fork" [] work = "place" -> "dock"

Init == job = "none" /\ pallet = "none" /\ clear = TRUE

\* A place is of the pallet that was picked.
Begin(work) ==
  /\ job = "none" /\ job' = work
  /\ IF work = "place" THEN pallet = "fork" ELSE pallet # "fork"
  /\ pallet' = Start(work)
  /\ UNCHANGED clear

Transfer ==
  /\ job \in {"pick", "place"} /\ pallet = Start(job)
  /\ pallet' = Goal(job) /\ ~clear' /\ UNCHANGED job

Handle ==
  /\ job # "none"
  /\ clear' \in BOOLEAN /\ UNCHANGED <<job, pallet>>

End ==
  /\ job \in {"pick", "place"} /\ pallet = Goal(job)
  /\ job' = "none" /\ clear' /\ UNCHANGED pallet

Fail ==
  /\ job \in {"pick", "place"}
  /\ job' = "error" /\ UNCHANGED <<pallet, clear>>

\* Only an operator ends the error, and takes a pallet off the fork.
Reset ==
  /\ job = "error" /\ job' = "none" /\ pallet' = "none"
  /\ clear' \in BOOLEAN

Next ==
  \/ \E work \in {"pick", "place"} : Begin(work)
  \/ Transfer \/ Handle \/ End \/ Fail \/ Reset

Spec == Init /\ [][Next]_vars

=============================================================================
