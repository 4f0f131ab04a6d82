----------------------------- MODULE IndexConfig -----------------------------
(***************************************************************************)
(* The saved UDS index configuration (src/uds/config.c):                   *)
(* write_config_contents encodes a configuration in the 06.02 or 08.02     *)
(* layout, validate_config_contents reads it back, checks it against the   *)
(* caller's configuration and adopts the saved remapping.                  *)
(*                                                                         *)
(* The stored stream is a sequence whose first two elements are the magic  *)
(* and version strings, kept whole as tokens, followed by the payload      *)
(* bytes.  A byte is a digit of base ByteBase, so a u32 field holds        *)
(* ByteBase^4 values and a u64 field ByteBase^8: the widths of the layout  *)
(* are kept, the byte is made small.                                       *)
(***************************************************************************)
EXTENDS Naturals, Sequences, FiniteSets
LOCAL SX == INSTANCE SequencesExt

CONSTANTS
  ByteBase,   \* values of one byte of the stored payload
  Configs,    \* configurations (records with the fields below) callers use
  Versions,   \* the version argument of write_config_contents
  InitialDisk \* streams the config region may hold before the first write

Magic       == "ALBIC"   \* INDEX_CONFIG_MAGIC
Version0602 == "06.02"   \* INDEX_CONFIG_VERSION_6_02
Version0802 == "08.02"   \* INDEX_CONFIG_VERSION_8_02

Success          == "success"
NoIndex          == "noIndex"           \* UDS_NO_INDEX
CorruptComponent == "corruptComponent"  \* UDS_CORRUPT_COMPONENT
CorruptFile      == "corruptFile"       \* verify_buffered_data: wrong magic
ShortRead        == "shortRead"         \* read_from_buffered_reader: no data
WriteError       == "writeError"        \* write_to_buffered_writer failing

(* The fields of struct uds_configuration_6_02 in layout order, with the *)
(* reserved word, and the two 08.02 appends.                              *)
Fields0602 == <<"recordPagesPerChapter", "chaptersPerVolume",
                "sparseChaptersPerVolume", "cacheChapters", "reserved",
                "volumeIndexMeanDelta", "bytesPerPage", "sparseSampleRate",
                "nonce">>
Fields0802 == Fields0602 \o <<"remappedVirtual", "remappedPhysical">>
ConfigFields == SX!ToSet(Fields0802) \ {"reserved"}
RemapFields == {"remappedVirtual", "remappedPhysical"}

(* Width in bytes: the nonce and the remappings are u64, the rest u32. *)
Width(f) == IF f \in {"nonce"} \cup RemapFields THEN 8 ELSE 4

(* Bytes of a layout: sizeof the struct, which has no padding. *)
LayoutLength(fields) == SX!FoldLeft(LAMBDA n, f : n + Width(f), 0, fields)

(* put_uint32_le_into_buffer / put_uint64_le_into_buffer: little-endian,  *)
(* a wider value (size_t bytes_per_page) truncated to the field.          *)
PutUintLE(v, width) == [i \in 1 .. width |-> (v \div ByteBase ^ (i - 1)) % ByteBase]

(* get_uint32_le_from_buffer / get_uint64_le_from_buffer *)
GetUintLE(bytes) == SX!FoldRight(LAMBDA b, acc : b + ByteBase * acc, bytes, 0)

(* One field's value; zero_bytes writes the reserved word. *)
FieldValue(config, f) == IF f = "reserved" THEN 0 ELSE config[f]

(* The puts of an encoder, in order. *)
EncodeFields(config, fields) ==
  SX!FoldLeft(LAMBDA acc, f : acc \o PutUintLE(FieldValue(config, f), Width(f)),
              <<>>, fields)

(* The gets of a decoder: each field from its offset in the buffer (the   *)
(* reserved word is skipped).                                             *)
DecodeFields(bytes, fields) ==
  LET Offset(i) == LayoutLength(SubSeq(fields, 1, i - 1))
  IN  [f \in SX!ToSet(fields) \ {"reserved"} |->
         LET i == CHOOSE k \in DOMAIN fields : fields[k] = f
         IN  GetUintLE(SubSeq(bytes, Offset(i) + 1, Offset(i) + Width(f)))]

EncodeIndexConfig0602(config) == EncodeFields(config, Fields0602)
EncodeIndexConfig0802(config) == EncodeFields(config, Fields0802)

(* decode_index_config_06_02: the 06.02 layout has no remapping, which is *)
(* set to 0.                                                             *)
DecodeIndexConfig0602(bytes) ==
  LET d == DecodeFields(bytes, Fields0602)
  IN  [f \in ConfigFields |-> IF f \in RemapFields THEN 0 ELSE d[f]]

DecodeIndexConfig0802(bytes) == DecodeFields(bytes, Fields0802)

(* A variant writing 06.02 for version 4 as well. *)
WriteConfigContentsThroughFour(config, version) ==
  IF version <= 4
  THEN <<Magic, Version0602>> \o EncodeIndexConfig0602(config)
  ELSE <<Magic, Version0802>> \o EncodeIndexConfig0802(config)

(* write_config_contents: the magic, then 06.02 for a version below 4     *)
(* (an index not reduced by a chapter), else 08.02 with the remapping.    *)
WriteConfigContents(config, version) ==
  IF version < 4
  THEN <<Magic, Version0602>> \o EncodeIndexConfig0602(config)
  ELSE <<Magic, Version0802>> \o EncodeIndexConfig0802(config)

(* read_version, after the magic: [result, saved] for the stream.  A     *)
(* known version reads sizeof its struct of payload, else the read fails.*)
ReadVersion(stream) ==
  LET payload == SubSeq(stream, 3, Len(stream))
      Read(fields, Decode(_)) ==
        IF Len(payload) < LayoutLength(fields)
        THEN [result |-> ShortRead, saved |-> {}]
        ELSE [result |-> Success,
              saved |-> Decode(SubSeq(payload, 1, LayoutLength(fields)))]
  IN  CASE Len(stream) < 2         -> [result |-> ShortRead, saved |-> {}]
        [] stream[2] = Version0602 -> Read(Fields0602, DecodeIndexConfig0602)
        [] stream[2] = Version0802 -> Read(Fields0802, DecodeIndexConfig0802)
        [] OTHER                   -> [result |-> CorruptComponent, saved |-> {}]

(* are_matching_configurations without the nonce. *)
AreMatchingConfigurationsIgnoringNonce(saved, user) ==
  \A f \in ConfigFields \ (RemapFields \cup {"nonce"}) : saved[f] = user[f]

(* are_matching_configurations: every field but the remapping. *)
AreMatchingConfigurations(saved, user) ==
  \A f \in ConfigFields \ RemapFields : saved[f] = user[f]

(* validate_config_contents: [result, the caller's geometry remapping]. *)
ValidateConfigContents(stream, user) ==
  LET read == ReadVersion(stream)
      keep == [v |-> user.remappedVirtual, p |-> user.remappedPhysical]
  IN  CASE stream = <<>>                               ->
             [result |-> ShortRead, remap |-> keep]
        [] stream[1] # Magic                           ->
             [result |-> CorruptFile, remap |-> keep]
        [] read.result # Success                       ->
             [result |-> read.result, remap |-> keep]
        [] ~AreMatchingConfigurations(read.saved, user) ->
             [result |-> NoIndex, remap |-> keep]
        [] OTHER ->
             [result |-> Success,
              remap |-> [v |-> read.saved.remappedVirtual,
                         p |-> read.saved.remappedPhysical]]

-----------------------------------------------------------------------------
AnyConfig == CHOOSE c \in Configs : TRUE
NoRemap == [v |-> 0, p |-> 0]
(* Nothing saved yet: the region still holds its initial contents. *)
NoWrite == [saved |-> FALSE, config |-> AnyConfig, version |-> 0]
NoCheck == [user |-> AnyConfig, result |-> "none", remap |-> NoRemap]

VARIABLES
  disk,       \* the config region
  written,    \* the configuration and version last written successfully
  lastCheck   \* the last validation: its caller, result and remapping

vars == <<disk, written, lastCheck>>

Init ==
  /\ disk \in InitialDisk
  /\ written = NoWrite
  /\ lastCheck = NoCheck

(* Saving the configuration; a failed write leaves the region as it was  *)
(* (the config is smaller than the one block the buffered writer flushes *)
(* at once).                                                              *)
Write(config, version) ==
  \/ /\ disk' = WriteConfigContents(config, version)
     /\ written' = [saved |-> TRUE, config |-> config, version |-> version]
     /\ lastCheck' = NoCheck
  \/ /\ UNCHANGED <<disk, written>>
     /\ lastCheck' = [NoCheck EXCEPT !.result = WriteError]

(* Loading: validate the saved configuration against the caller's. *)
Validate(user) ==
  LET check == ValidateConfigContents(disk, user)
  IN  /\ lastCheck' = [user |-> user, result |-> check.result,
                       remap |-> check.remap]
      /\ UNCHANGED <<disk, written>>

Next ==
  \/ \E c \in Configs, v \in Versions : Write(c, v)
  \/ \E u \in Configs : Validate(u)

Spec == Init /\ [][Next]_vars

-----------------------------------------------------------------------------
(* Two configurations describe the same index: equal in every field the   *)
(* remapping aside.                                                        *)
SameIndex(a, b) == \A f \in ConfigFields \ RemapFields : a[f] = b[f]

(* Validation against a configuration that matches the one last saved     *)
(* succeeds, and hands the caller the saved remapping for a version 4 or  *)
(* later (spec 8.6, E4) and no remapping for an older one (E3): the       *)
(* version dispatch of write_config_contents and read_version and the two *)
(* encoders and decoders agree field by field.                            *)
SavedConfigurationRoundTrips ==
  (/\ lastCheck.result \notin {"none", WriteError}
   /\ written.saved
   /\ SameIndex(written.config, lastCheck.user))
  => /\ lastCheck.result = Success
     /\ lastCheck.remap =
          IF written.version < 4 THEN NoRemap
          ELSE [v |-> written.config.remappedVirtual,
                p |-> written.config.remappedPhysical]

(* validate_config_contents accepts only a region holding a configuration *)
(* saved by write_config_contents that matches the caller's in every      *)
(* field but the remapping: a foreign, older or different index is        *)
(* refused (spec 6: a mismatch yields NO_INDEX).                          *)
AcceptsOnlyMatchingConfiguration ==
  lastCheck.result = Success =>
     /\ written.saved
     /\ SameIndex(written.config, lastCheck.user)
=============================================================================
