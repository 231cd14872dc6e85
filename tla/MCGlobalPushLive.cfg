\* Readiness, with a stop at any time and a push of the extension
\* handler beside the others.
CONSTANTS
  Sources = {s1}
  Configs = {}
  Versions = {0}
  NoRequest = NoRequest
  DebounceAfter = 1
  DebounceMax = 1
  EnableEDSDebounce = TRUE
  ChanSize = 1
  Prompt = FALSE
  MaxUpdates = 2
  MayFail = FALSE
  ExtensionKinds = {ext}
  MaxExtensionChanges = 1
SPECIFICATION GlobalFairSpec
PROPERTIES BecomesReady
