\* The extension handler calls Push beside a debounced push, and the two contexts
\* are written in the wrong order.
CONSTANTS
  Sources = {s1}
  Configs = {k1}
  Versions = {0}
  NoRequest = NoRequest
  DebounceAfter = 1
  DebounceMax = 1
  EnableEDSDebounce = TRUE
  ChanSize = 1
  Prompt = FALSE
  MaxUpdates = 2
  MayFail = FALSE
  ExtensionKinds = {ext}
  MaxExtensionChanges = 1
SPECIFICATION GlobalSpecWithExtensions
INVARIANTS ContextComplete
