\* Every installation; SKSE may call Preload before the DLL calls Initialize.
SPECIFICATION Spec
CONSTANT DllFirst = FALSE
INVARIANT InstalledAtMostOnce
CHECK_DEADLOCK FALSE
