------------------------ MODULE MCProcessingLayers ------------------------
EXTENDS ProcessingLayers

Unconfigured == [configured |-> FALSE, claims |-> TRUE, facts |-> TRUE]
ClaimsOnly   == [configured |-> TRUE, claims |-> TRUE, facts |-> FALSE]
AllLayers    == [configured |-> TRUE, claims |-> TRUE, facts |-> TRUE]

FromUnconfigured == {Unconfigured}
FromClaimsOnly   == {ClaimsOnly}
FromAllLayers    == {AllLayers}

NoZeroChunk     == {{}}
OneZeroChunk    == {{2}}
SomeZeroChunk   == {{}, {2}}
LastIsZeroChunk == {{LastVersion}}
=============================================================================
