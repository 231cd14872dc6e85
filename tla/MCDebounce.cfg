\* Two callers and a channel of capacity 1, so that calls block; EDS pushes are not
\* debounced and run beside the debounced ones.  The loop is prompt: time stands still
\* while one of its channels is ready.  Four updates are enough to re-arm the timer at
\* the last tick before DebounceMax.
CONSTANTS
  Sources = {s1, s2}
  Configs = {}
  Versions = {0}
  NoRequest = NoRequest
  DebounceAfter = 2
  DebounceMax = 3
  EnableEDSDebounce = FALSE
  ChanSize = 1
  Prompt = TRUE
  MaxUpdates = 4
SPECIFICATION DebounceFairSpec
INVARIANTS OnePushAtATime SomethingWillWakeLoop DelayBounded
PROPERTIES EveryUpdatePushed
