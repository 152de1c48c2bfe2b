CONSTANTS
  Root = root
  h1 = h1
  h2 = h2
  NoContext = NoContext
  Contexts <- MCContexts
SPECIFICATION FairHandoff
INVARIANTS OneInControl
PROPERTIES ImplementsCoroutine ControlArrives
