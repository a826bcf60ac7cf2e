CONSTANTS
  t1 = t1
  t2 = t2
  t3 = t3
  u = u
  Events = {t1, t2, t3, u}
  Handlers <- MCHandlers
  Decl <- MCDecl
  Strict = TRUE
  Classes <- MCClasses
  TypeOf <- MCTypeOf
  Reads <- MCReads
  Bare = {"U"}
  Made <- MCMade
  Emits <- MCEmits
  Channels <- MCChannels
  DlqOf <- MCDlqOf
  Drained = {"b.dlq"}
  Cap = 1
  MaxAdds = 2
  MaxStops = 1
  MaxFaults = 1
SPECIFICATION FairSpec
CHECK_DEADLOCK FALSE
PROPERTY Finishes
INVARIANTS TypeOK ClosedSettled LossBound CompletesOnce Observed OwnClass
