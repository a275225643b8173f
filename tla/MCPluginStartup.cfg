\* Every installation; the preloader DLL, where there is one, comes first.
SPECIFICATION MCSpec
CONSTANTS
  DllFirst = TRUE
  Games <- MCGames
INVARIANT InstalledAtMostOnce NoGameWithoutFixes TreeLodAsConfigured RegisteredIffPatched
CHECK_DEADLOCK FALSE
