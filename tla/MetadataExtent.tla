--------------------------- MODULE MetadataExtent ---------------------------
(***************************************************************************)
(* A metadata extent (src/vdo/base/extent.c): a completion with a fixed    *)
(* array of extent->count metadata vios.  launchMetadataExtent launches    *)
(* the first `count` of them; each vio's completion runs                   *)
(* handle_vio_completion on the extent's callback thread (the vios are     *)
(* given that thread), so completions are serialized but arrive in any     *)
(* order.  The extent's completion fires when complete_count reaches       *)
(* extent->count.  Block numbers and the read/write operation do not       *)
(* affect the control and are left out.                                    *)
(***************************************************************************)
EXTENDS Naturals, Sequences, FiniteSets

CONSTANTS
  ExtentSize,   \* extent->count, the vios made by create_extent
  MaxLaunches,  \* bound on the number of launches of the extent
  Errors        \* model values: the error results a metadata vio can have

Success    == "success"
OutOfRange == "outOfRange"   \* VDO_OUT_OF_RANGE
VioResults == {Success} \cup Errors
Results    == VioResults \cup {OutOfRange}
Vios       == 0 .. ExtentSize - 1

VARIABLES
  result,         \* extent->completion.result
  complete,       \* extent->completion.complete
  completeCount,  \* extent->complete_count
  outstanding,    \* vios launched whose completion has not run yet
  launchCount,    \* the `count` of the latest launch
  vioResults,     \* results of this launch's vio completions, in order
  launches        \* launches so far

vars == <<result, complete, completeCount, outstanding, launchCount,
          vioResults, launches>>

(* set_completion_result (completion.c, not in this tree; spec section 7:  *)
(* the first non-success result is kept).                                  *)
SetCompletionResult(current, new) == IF current = Success THEN new ELSE current

Init ==
  /\ result = Success
  /\ complete = FALSE
  /\ completeCount = 0
  /\ outstanding = {}
  /\ launchCount = 0
  /\ vioResults = <<>>
  /\ launches = 0

(* The caller waits for the extent's completion before launching it again. *)
Idle == launches = 0 \/ complete

(* A launch that forgets the count range check. *)
LaunchMetadataExtentWithoutRangeCheck(count) ==
  /\ result' = Success
  /\ complete' = FALSE
  /\ completeCount' = ExtentSize - count
  /\ outstanding' = 0 .. count - 1

(* A launch starting complete_count one too high. *)
LaunchMetadataExtentOffByOne(count) ==
  /\ result' = IF count > ExtentSize THEN OutOfRange ELSE Success
  /\ complete' = (count > ExtentSize)
  /\ completeCount' = IF count > ExtentSize THEN completeCount
                      ELSE ExtentSize - count + 1
  /\ outstanding' = IF count > ExtentSize THEN {} ELSE 0 .. count - 1

(* A launch that does not reset complete_count. *)
LaunchMetadataExtentKeepingCount(count) ==
  /\ result' = IF count > ExtentSize THEN OutOfRange ELSE Success
  /\ complete' = (count > ExtentSize)
  /\ completeCount' = completeCount
  /\ outstanding' = IF count > ExtentSize THEN {} ELSE 0 .. count - 1

(* launchMetadataExtent: reset_completion; finish with VDO_OUT_OF_RANGE    *)
(* when more blocks are asked for than the extent has; otherwise count     *)
(* the vios not launched as already complete and launch the first count.   *)
LaunchMetadataExtent(count) ==
  IF count > ExtentSize
  THEN /\ result' = OutOfRange
       /\ complete' = TRUE
       /\ UNCHANGED <<completeCount, outstanding>>
  ELSE /\ result' = Success
       /\ complete' = FALSE
       /\ completeCount' = ExtentSize - count
       /\ outstanding' = 0 .. count - 1

(* read_partial_metadata_extent / write_partial_metadata_extent *)
Launch(count) ==
  /\ Idle
  /\ launches < MaxLaunches
  /\ LaunchMetadataExtent(count)
  /\ launchCount' = count
  /\ vioResults' = <<>>
  /\ launches' = launches + 1

(* A completion that finishes with the last vio's result alone. *)
HandleVioCompletionLastResult(i, r) ==
  /\ i \in outstanding
  /\ outstanding' = outstanding \ {i}
  /\ vioResults' = Append(vioResults, r)
  /\ completeCount' = completeCount + 1
  /\ IF completeCount + 1 # ExtentSize
     THEN /\ result' = SetCompletionResult(result, r)
          /\ UNCHANGED complete
     ELSE /\ result' = r
          /\ complete' = TRUE
  /\ UNCHANGED <<launchCount, launches>>

(* handle_vio_completion: vio i completes with result r.  Before the last  *)
(* one the result is only recorded; the last one finishes the extent's     *)
(* completion (finish_completion also goes through set_completion_result). *)
HandleVioCompletion(i, r) ==
  /\ i \in outstanding
  /\ outstanding' = outstanding \ {i}
  /\ vioResults' = Append(vioResults, r)
  /\ completeCount' = completeCount + 1
  /\ result' = SetCompletionResult(result, r)
  /\ complete' = (completeCount + 1 = ExtentSize)
  /\ UNCHANGED <<launchCount, launches>>

Next ==
  \/ \E count \in 0 .. ExtentSize + 1 : Launch(count)
  \/ \E i \in Vios, r \in VioResults : HandleVioCompletion(i, r)

(* Every launched metadata vio's I/O eventually completes. *)
Spec == Init /\ [][Next]_vars
        /\ \A i \in Vios : WF_vars(\E r \in VioResults : HandleVioCompletion(i, r))

-----------------------------------------------------------------------------
TypeOK ==
  /\ result \in Results
  /\ complete \in BOOLEAN
  /\ completeCount \in Nat
  /\ outstanding \subseteq Vios
  /\ launchCount \in 0 .. ExtentSize + 1
  /\ vioResults \in Seq(VioResults)
  /\ launches \in 0 .. MaxLaunches

(* The first error among the vio completions of this launch, in the order  *)
(* they completed.                                                          *)
FirstError(seq) ==
  LET errs == SelectSeq(seq, LAMBDA e : e # Success)
  IN  IF errs = <<>> THEN Success ELSE Head(errs)

(* Once the extent's completion fires, it carries VDO_OUT_OF_RANGE for a   *)
(* launch longer than the extent and otherwise the first error any of its  *)
(* vios completed with (spec 7), even when later vios succeed or fail      *)
(* differently: handle_vio_completion's set_completion_result calls.       *)
FinishesWithFirstError ==
  (launches > 0 /\ complete) =>
     result = IF launchCount > ExtentSize THEN OutOfRange
              ELSE FirstError(vioResults)

(* The extent's completion never fires while one of its launched vios is   *)
(* still outstanding: complete_count starts at extent->count - count, so   *)
(* the last of the count completions, and only it, finishes the extent.    *)
NoFinishWhileVioOutstanding ==
  complete => outstanding = {}

(* Every launch of at least one block eventually fires the extent's        *)
(* completion: launchMetadataExtent and handle_vio_completion count the    *)
(* completions up to extent->count.                                        *)
EveryLaunchFinishes ==
  [](launches > 0 /\ ~complete /\ launchCount > 0 => <>complete)
=============================================================================
