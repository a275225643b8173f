SPECIFICATION PatchSpec
CHECK_DEADLOCK FALSE
CONSTANT Games <- MCGames
INVARIANT RegistryClaimsNoSkippedFix
