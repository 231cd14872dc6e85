\* Two kinds of configuration and three updates, so that a push rebuilds one kind
\* while the next request accumulates others; two callers, so that one overtakes the
\* other; failing pushes; a stop at any time.  DebounceMax 0: a timer that fires pushes;
\* how it is re-armed is the subject of MCDebounce.
CONSTANTS
  Sources = {s1, s2}
  Configs = {k1, k2}
  Versions = {0}
  NoRequest = NoRequest
  DebounceAfter = 1
  DebounceMax = 0
  EnableEDSDebounce = TRUE
  ChanSize = 1
  Prompt = FALSE
  MaxUpdates = 3
  MayFail = TRUE
  ExtensionKinds = {}
  MaxExtensionChanges = 0
SPECIFICATION GlobalSpec
SYMMETRY Symmetry
INVARIANTS UpdatesAccounted ContextCatchesUp ReadyMeansComplete
PROPERTIES ContextMovesForward
