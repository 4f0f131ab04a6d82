\* Bytes of base 4 (u32 fields hold 0..255, u64 fields 0..65535); four
\* configurations differing in the nonce, the remapping and the chapter
\* count; the versions around the 06.02 / 08.02 boundary.  The memory codes
\* keep the layout of uds.h: 1 .. MAX, the REDUCED flag above MAX with the
\* reduced sizes above it, the fractional codes apart; one core makes
\* uds_get_num_cores() / 2 zero, sixteen exceeds MAX_ZONES.
CONSTANTS
  ByteBase = 4
  Configs <- MCConfigs
  Versions = {0, 3, 4, 5}
  InitialDisk <- MCInitialDisk
  DefaultChaptersPerVolume = 4
  SmallRecordPagesPerChapter = 2
  DefaultRecordPagesPerChapter = 8
  ConfigMax = 3
  ConfigReduced = 8
  ConfigReducedMax = 11
  ConfigReduced256MB = 16
  ConfigReduced512MB = 17
  ConfigReduced768MB = 18
  Config256MB = 20
  Config512MB = 21
  Config768MB = 22
  MaxZones = 4
  Cores = {1, 2, 16}
SPECIFICATION ComposedSpec
INVARIANTS
  SavedConfigurationRoundTrips
  AcceptsOnlyMatchingConfiguration
  MadeConfigurationIsUsable
  ReducedIsOneChapterSmaller
