-------------------------- MODULE MCBlockAllocator --------------------------
(***************************************************************************)
(* One zone of three two-block slabs.  The slab images cover the four     *)
(* kinds of slab a load meets: never written, clean with counts on disk,  *)
(* dirty with a journal that must be replayed, and dirty without it.      *)
(* The refs of a dirty image are those its journal replay rebuilds.       *)
(***************************************************************************)
EXTENDS BlockAllocator

MCSlabImages ==
  { [refs |-> <<0, 0>>, blank |-> TRUE, clean |-> TRUE,
     mustLoadRefs |-> FALSE, requiresScrubbing |-> FALSE, emptiness |-> 2],
    [refs |-> <<1, 0>>, blank |-> FALSE, clean |-> TRUE,
     mustLoadRefs |-> TRUE, requiresScrubbing |-> FALSE, emptiness |-> 1],
    [refs |-> <<1, 1>>, blank |-> FALSE, clean |-> FALSE,
     mustLoadRefs |-> TRUE, requiresScrubbing |-> TRUE, emptiness |-> 0],
    [refs |-> <<0, 1>>, blank |-> FALSE, clean |-> FALSE,
     mustLoadRefs |-> TRUE, requiresScrubbing |-> FALSE, emptiness |-> 1] }

(* The images give refs as sequences <<b0, b1>>; BlockAllocator indexes *)
(* blocks from 0.                                                       *)
MCRefs(r) == [b \in 0 .. 1 |-> r[b + 1]]

MCImages == { [i EXCEPT !.refs = MCRefs(i.refs)] : i \in MCSlabImages }

MCLoadTypes == {"normal", "recovery", "rebuild"}

(* For the liveness run: a slab that a normal load leaves on the        *)
(* scrubber's normal list, beside a never-written one.                  *)
MCLiveImages == { i \in MCImages : ~i.requiresScrubbing /\ (~i.clean \/ i.blank) }

MCLiveLoadTypes == {"normal"}
=============================================================================
