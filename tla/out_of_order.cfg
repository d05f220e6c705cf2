SPECIFICATION MCSpec
CONSTANTS
  alice = alice bob = bob node = node foo = foo bar = bar home = home
  one = one two = two three = three
  Scenarios = {"all"}
  Users = {alice}  Hosts = {node}  NPaths = {foo}
  Folders = {home}  Folder <- OneFolder
  Invocations = {one}  Target <- OneRun
  Faults = FALSE  Nil = Nil  Outside = {}
  ThroughLoopback = {one}  NoEditor = {}  Impatient = {}
  MaxUnmaps = 0  MaxRestarts = 0  MaxEdits = 2
INVARIANTS SavedIsKept
CHECK_DEADLOCK FALSE
