-------------------------- MODULE MCMetadataExtent --------------------------
(***************************************************************************)
(* Two completion-counting protocols of the vdo checked side by side: a   *)
(* metadata extent counting its vios' completions (extent.c) and an       *)
(* allocator counting its slab actions' completions in apply_to_slabs     *)
(* (block-allocator.c).  They share no state; each step is a step of one  *)
(* of them, and each keeps its own fairness.                              *)
(***************************************************************************)
EXTENDS MetadataExtent, SlabActor

ComposedInit == Init /\ ActorInit

ComposedNext ==
  \/ Next /\ UNCHANGED actorVars
  \/ ActorNext /\ UNCHANGED vars

ComposedSpec ==
  /\ ComposedInit
  /\ [][ComposedNext]_<<vars, actorVars>>
  /\ \A i \in Vios : WF_vars(\E r \in VioResults : HandleVioCompletion(i, r))
  /\ ActorFairness
=============================================================================
