------------------------------- MODULE JobLanes -------------------------------
(***************************************************************************)
(* What the job manager promises about the work it has accepted, as far as *)
(* its files tell: RUNBOOK.md:282-302.  A job waits, is active, and is     *)
(* done; an active job may be put back by a restart; a lane has one active *)
(* job and all lanes together at most MaxParallel.  Nothing is said of the *)
(* order within a lane, nor of how the files are kept.                     *)
(***************************************************************************)
EXTENDS Integers, FiniteSets

CONSTANTS Jobs, Lane(_), MaxParallel,
          Lossy   \* may an accepted job be lost?

VARIABLE state

States == {"absent", "waiting", "active", "done"}

ActiveSet == {j \in Jobs : state[j] = "active"}

Init == state = [j \in Jobs |-> "absent"]

Move(j, from, to) == state[j] \in from /\ state' = [state EXCEPT ![j] = to]

Submit(j) == Move(j, {"absent"}, "waiting")
Start(j)  ==
    /\ \A k \in ActiveSet : Lane(k) # Lane(j)
    /\ Cardinality(ActiveSet) < MaxParallel
    /\ Move(j, {"waiting"}, "active")
Finish(j)  == Move(j, {"active"}, "done")
Drop(j)    == Move(j, {"waiting"}, "done")      \* cancelled, or it could not be spawned
Requeue(j) == Move(j, {"active"}, "waiting")    \* resumed by a restart
Lose(j)    == Lossy /\ Move(j, {"waiting", "active", "done"}, "absent")

Next == \E j \in Jobs :
            Submit(j) \/ Start(j) \/ Finish(j) \/ Drop(j) \/ Requeue(j) \/ Lose(j)

Spec == Init /\ [][Next]_state
=============================================================================
