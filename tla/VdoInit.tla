------------------------------- MODULE VdoInit -------------------------------
(***************************************************************************)
(* initialize_vdo and initialize_vdo_kobjects (src/vdo/vdoInit.c) with     *)
(* every failure point: the geometry read and the two kobject_add calls.   *)
(* The vdo, and both of its kobjects, live inside the kernel layer; by the *)
(* comment before initialize_vdo_kobjects, dropping the last reference to  *)
(* vdo_directory frees that layer.  initialize_vdo is synchronous, so it   *)
(* is one action; the helpers below are the calls it makes, over a record  *)
(* of the state they touch.                                                *)
(***************************************************************************)
EXTENDS Naturals

Kobjects == {"vdoDirectory", "workQueueDirectory"}

(* Where initialize_vdo fails, if it does. *)
FailurePoints == {"none", "readGeometry", "addVdoDirectory", "addWorkQueueDirectory"}

VARIABLES
  kref,              \* reference count of each kobject
  layerFrees,        \* times the kernel layer has been freed
  instanceReleases,  \* release_vdo_instance calls
  result             \* initialize_vdo's return: "none" before it runs

vars == <<kref, layerFrees, instanceReleases, result>>
State == [kref |-> kref, layerFrees |-> layerFrees,
          instanceReleases |-> instanceReleases]

Init ==
  /\ kref = [k \in Kobjects |-> 0]
  /\ layerFrees = 0
  /\ instanceReleases = 0
  /\ result = "none"

(* kobject_init: one reference. *)
KobjectInit(st, k) == [st EXCEPT !.kref[k] = 1]

(* kobject_put: drop a reference; the last one of vdo_directory runs its  *)
(* release, which frees the kernel layer (comment, vdoInit.c:110-114).    *)
KobjectPut(st, k) ==
  LET dropped == [st EXCEPT !.kref[k] = @ - 1]
  IN  IF k = "vdoDirectory" /\ dropped.kref[k] = 0
      THEN [dropped EXCEPT !.layerFrees = @ + 1]
      ELSE dropped

(* A successful kobject_add of a child holds a reference on its parent. *)
KobjectAddChild(st, parent) == [st EXCEPT !.kref[parent] = @ + 1]

(* The error exit of initialize_vdo: release_vdo_instance; FREE(layer). *)
ReleaseAndFree(st) ==
  [st EXCEPT !.instanceReleases = @ + 1, !.layerFrees = @ + 1]

(* initialize_vdo_kobjects failing at `fail`, or succeeding. *)
InitializeVdoKobjects(st, fail) ==
  LET vdoDir == KobjectInit(st, "vdoDirectory")
      wqDir  == KobjectInit(vdoDir, "workQueueDirectory")
  IN  CASE fail = "addVdoDirectory" ->
             KobjectPut(vdoDir, "vdoDirectory")
        [] fail = "addWorkQueueDirectory" ->
             KobjectPut(KobjectPut(wqDir, "workQueueDirectory"), "vdoDirectory")
        [] OTHER -> KobjectAddChild(wqDir, "vdoDirectory")

(* initialize_vdo, failing at `fail` or not. *)
InitializeVdo(fail) ==
  LET after == CASE fail = "readGeometry" -> ReleaseAndFree(State)
                 [] fail = "none"         -> InitializeVdoKobjects(State, fail)
                 [] OTHER -> ReleaseAndFree(InitializeVdoKobjects(State, fail))
  IN  /\ result = "none"
      /\ kref' = after.kref
      /\ layerFrees' = after.layerFrees
      /\ instanceReleases' = after.instanceReleases
      /\ result' = IF fail = "none" THEN "success" ELSE "error"

Next == \E fail \in FailurePoints : InitializeVdo(fail)

Spec == Init /\ [][Next]_vars

-----------------------------------------------------------------------------
(* The kernel layer is freed at most once on every path of initialize_vdo: *)
(* the comment before initialize_vdo_kobjects says the last kobject_put of *)
(* vdo_directory frees it, and initialize_vdo's error exit frees it too.  *)
LayerFreedAtMostOnce == layerFrees <= 1
=============================================================================
