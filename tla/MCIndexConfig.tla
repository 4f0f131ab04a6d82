---------------------------- MODULE MCIndexConfig ----------------------------
(* Configurations and prior region contents for checking IndexConfig.     *)
EXTENDS IndexConfig, UdsConfiguration

(* A dense index geometry with bytes_per_page and the nonce at the top of *)
(* their (scaled) u32 and u64 ranges.                                     *)
MCBase == [recordPagesPerChapter |-> 1, chaptersPerVolume |-> 4,
           sparseChaptersPerVolume |-> 0, cacheChapters |-> 7,
           volumeIndexMeanDelta |-> 16, bytesPerPage |-> 255,
           sparseSampleRate |-> 0, nonce |-> 65535,
           remappedVirtual |-> 0, remappedPhysical |-> 0]

MCConfigs ==
  { MCBase,
    [MCBase EXCEPT !.remappedVirtual = 300, !.remappedPhysical = 7],
    [MCBase EXCEPT !.nonce = 1],
    [MCBase EXCEPT !.chaptersPerVolume = 3] }

(* An empty region, another file, an unknown version, and an 08.02 header *)
(* followed by a payload too short for it.                                *)
MCInitialDisk ==
  { <<>>, <<"ALBIX">>, <<Magic, "07.01">>,
    <<Magic, Version0802>> \o EncodeIndexConfig0602(MCBase) }

(* The region and the configuration share no state, so their steps are   *)
(* independent: the region is exercised while no configuration is held,   *)
(* and a configuration is made (and freed) while the region is as it      *)
(* started, which explores both without their product.                   *)
ComposedInit == Init /\ MadeInit

ComposedNext ==
  \/ Next /\ made = NotMade /\ UNCHANGED made
  \/ MakeNext /\ written = NoWrite /\ lastCheck = NoCheck /\ UNCHANGED vars

ComposedSpec == ComposedInit /\ [][ComposedNext]_<<vars, made>>
=============================================================================
