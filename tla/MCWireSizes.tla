------------------------------ MODULE MCWireSizes ------------------------------
(***************************************************************************)
(* WireSizes for TLC: every configuration of small sizes, and those that   *)
(* validate() accepts although packets do not arrive whole under them.     *)
(***************************************************************************)
EXTENDS WireSizes

SmallConfigs ==
    [max_packet_size : 0 .. 12, fragment_above : 0 .. 12,
     max_fragments : 0 .. 5, fragment_size : 0 .. 8]

MCHeaderSizes == 4 .. 9

Config(max, above, fragments, size) ==
    [max_packet_size |-> max, fragment_above |-> above,
     max_fragments |-> fragments, fragment_size |-> size]

\* The default fragment_size, with packets of up to 1200 bytes unfragmented.
AboveSlot == {Config(16384, 1200, 16, 1024)}

\* More fragments allowed than a u8 counts.
ManyFragments == {Config(16384, 64, 256, 64)}

\* A full fragment with two headers is longer than the largest packet with one.
LargeFragments == {Config(1200, 600, 2, 1200)}

\* A full fragment is longer than a u16 says.
LongFragments == {Config(65540, 65536, 2, 65536)}

ShortHeader == {4}

================================================================================
