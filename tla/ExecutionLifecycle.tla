-------------------------- MODULE ExecutionLifecycle --------------------------
(***************************************************************************)
(* What the executions of a session promise, without the executor: each    *)
(* one is opened INPROGRESS, ends in one of the final states of            *)
(* ExecutionState, and can only be taken up again while it waits for a     *)
(* human (STOPPED) or after an error of the node that waited (RETRY: an    *)
(* ERROR whose last entry follows a stop). Only the newest execution is    *)
(* ever taken up again.                                                    *)
(***************************************************************************)
EXTENDS Naturals, Sequences

VARIABLE states   \* the states of the executions, oldest first

LifecycleStates == {"INPROGRESS", "STOPPED", "RETRY", "ERROR", "TERMINATED", "FINISHED"}

LifecycleInit == states = <<>>

Open == states' = Append(states, "INPROGRESS")

Close(i) ==
    /\ states[i] = "INPROGRESS"
    /\ \E s \in LifecycleStates \ {"INPROGRESS"} : states' = [states EXCEPT ![i] = s]

TakeUp ==
    /\ states # <<>>
    /\ states[Len(states)] \in {"STOPPED", "RETRY"}
    /\ states' = [states EXCEPT ![Len(states)] = "INPROGRESS"]

LifecycleNext == Open \/ TakeUp \/ \E i \in DOMAIN states : Close(i)

LifecycleSpec == LifecycleInit /\ [][LifecycleNext]_states
==============================================================================
