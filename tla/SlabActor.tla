------------------------------ MODULE SlabActor ------------------------------
(***************************************************************************)
(* apply_to_slabs and slab_action_callback (src/vdo/block-allocator.c):    *)
(* an allocator starts an administrative action on each of its slabs and  *)
(* counts their completions in slab_actor.slab_action_count; the actor's  *)
(* callback (the next drain or resume step) runs when the count reaches   *)
(* zero.  Every slab action finishes the allocator's one completion.  The *)
(* loop runs on the allocator's thread with requeue off, so a slab action *)
(* that finishes at once runs its callback inside vdo_start_slab_action,  *)
(* before the loop moves on; the others are queued on the same thread and *)
(* run after apply_to_slabs returns, in any order.  The count starts at 1 *)
(* and the loop's own last call removes that 1 ("Ensure that we don't     *)
(* finish before we're done starting").                                   *)
(***************************************************************************)
EXTENDS Naturals, FiniteSets

CONSTANTS
  ActorSlabs,     \* the allocator's slabs, in the iterator's order 0 .. n-1
  ActionErrors    \* model values: error results of a slab action

ActionResults == {"success"} \cup ActionErrors

VARIABLES
  actorPhase,     \* "idle", "looping" (inside apply_to_slabs), "returned"
  nextSlab,       \* the iterator's position
  actionCount,    \* allocator->slab_actor.slab_action_count
  pendingSlabs,   \* slabs whose action was started and has not finished
  finishedSlabs,  \* slabs whose action finished
  actorResult,    \* the operation result latched in the admin state
  slabErrors,     \* history: the errors the slab actions finished with
  callbackRuns    \* times actor->callback has run

actorVars == <<actorPhase, nextSlab, actionCount, pendingSlabs, finishedSlabs,
               actorResult, slabErrors, callbackRuns>>

ActorInit ==
  /\ actorPhase = "idle"
  /\ nextSlab = 0
  /\ actionCount = 0
  /\ pendingSlabs = {}
  /\ finishedSlabs = {}
  /\ actorResult = "success"
  /\ slabErrors = {}
  /\ callbackRuns = 0

(* vdo_set_operation_result through handle_operation_error: the first   *)
(* error is kept.                                                        *)
LatchOperationResult(latched, result) ==
  IF result # "success" /\ latched = "success" THEN result ELSE latched

(* slab_action_callback on a count of n: the last one runs the actor's  *)
(* callback, any other resets the completion for the next slab.         *)
SlabActionCallback(n) ==
  /\ actionCount' = n - 1
  /\ callbackRuns' = IF n - 1 = 0 THEN callbackRuns + 1 ELSE callbackRuns

(* A slab action finishing the allocator's completion with result r:     *)
(* handle_operation_error first when r is an error, then the callback.   *)
FinishSlabAction(n, r) ==
  /\ actorResult' = LatchOperationResult(actorResult, r)
  /\ slabErrors' = IF r = "success" THEN slabErrors ELSE slabErrors \cup {r}
  /\ SlabActionCallback(n)

(* apply_to_slabs up to its loop, with the count started at zero. *)
ApplyToSlabsFromZero ==
  /\ actorPhase = "idle"
  /\ actorPhase' = "looping"
  /\ actionCount' = 0
  /\ UNCHANGED <<nextSlab, pendingSlabs, finishedSlabs, actorResult,
                 slabErrors, callbackRuns>>

(* apply_to_slabs up to its loop: prepare the completion, clear the open  *)
(* slab, and start the count at 1.                                        *)
ApplyToSlabs ==
  /\ actorPhase = "idle"
  /\ actorPhase' = "looping"
  /\ actionCount' = 1
  /\ UNCHANGED <<nextSlab, pendingSlabs, finishedSlabs, actorResult,
                 slabErrors, callbackRuns>>

(* One iteration: unlink the slab, count it, vdo_start_slab_action.  The *)
(* action finishes at once with result r, or later.                     *)
StartSlabAction(atOnce, r) ==
  /\ actorPhase = "looping"
  /\ nextSlab \in ActorSlabs
  /\ nextSlab' = nextSlab + 1
  /\ IF atOnce
     THEN /\ FinishSlabAction(actionCount + 1, r)
          /\ finishedSlabs' = finishedSlabs \cup {nextSlab}
          /\ UNCHANGED pendingSlabs
     ELSE /\ actionCount' = actionCount + 1
          /\ pendingSlabs' = pendingSlabs \cup {nextSlab}
          /\ UNCHANGED <<finishedSlabs, actorResult, slabErrors, callbackRuns>>
  /\ UNCHANGED actorPhase

(* The end of the loop without apply_to_slabs' own call. *)
EndApplyToSlabsWithoutCall ==
  /\ actorPhase = "looping"
  /\ nextSlab \notin ActorSlabs
  /\ actorPhase' = "returned"
  /\ UNCHANGED <<nextSlab, actionCount, pendingSlabs, finishedSlabs,
                 actorResult, slabErrors, callbackRuns>>

(* The loop is done: apply_to_slabs calls slab_action_callback itself. *)
EndApplyToSlabs ==
  /\ actorPhase = "looping"
  /\ nextSlab \notin ActorSlabs
  /\ actorPhase' = "returned"
  /\ SlabActionCallback(actionCount)
  /\ UNCHANGED <<nextSlab, pendingSlabs, finishedSlabs, actorResult,
                 slabErrors>>

(* A queued slab action finishes on the allocator's thread. *)
SlabActionDone(s, r) ==
  /\ actorPhase = "returned"
  /\ s \in pendingSlabs
  /\ pendingSlabs' = pendingSlabs \ {s}
  /\ finishedSlabs' = finishedSlabs \cup {s}
  /\ FinishSlabAction(actionCount, r)
  /\ UNCHANGED <<actorPhase, nextSlab>>

ActorNext ==
  \/ ApplyToSlabs
  \/ \E atOnce \in BOOLEAN, r \in ActionResults : StartSlabAction(atOnce, r)
  \/ EndApplyToSlabs
  \/ \E s \in ActorSlabs, r \in ActionResults : SlabActionDone(s, r)

(* apply_to_slabs is straight-line code on the allocator's thread, which  *)
(* then runs every queued completion.                                    *)
ActorFairness ==
  /\ WF_actorVars(\E atOnce \in BOOLEAN, r \in ActionResults :
                    StartSlabAction(atOnce, r))
  /\ WF_actorVars(EndApplyToSlabs)
  /\ \A s \in ActorSlabs :
       WF_actorVars(\E r \in ActionResults : SlabActionDone(s, r))

-----------------------------------------------------------------------------
(* The actor's callback, the next drain or resume step, runs at most once *)
(* per apply_to_slabs, and only after the loop has started every slab and *)
(* every slab's action has finished, also when actions finish inside      *)
(* vdo_start_slab_action while the loop is still running; and it then     *)
(* sees the first error any slab action reported.                         *)
CallbackOnceAfterEverySlab ==
  /\ callbackRuns <= 1
  /\ callbackRuns = 1 =>
       /\ actorPhase = "returned"
       /\ finishedSlabs = ActorSlabs
       /\ (actorResult = "success") <=> (slabErrors = {})

(* Once apply_to_slabs has begun, the actor's callback eventually runs:  *)
(* the count reaches zero however the slab actions interleave.           *)
CallbackEventuallyRuns ==
  [](actorPhase # "idle" => <>(callbackRuns > 0))
=============================================================================
