SPECIFICATION MCFairSpec
CONSTANTS
  alice = alice bob = bob node = node foo = foo bar = bar home = home
  one = one two = two three = three
  Scenarios = {"edits", "stops"}
  Users = {alice}  Hosts = {node}  NPaths = {foo, bar}
  Folders = {home}  Folder <- OneFolder
  Invocations = {one, two, three}  Target <- ThreeRuns
  Faults = TRUE  Nil = Nil  Outside <- BarIsOutside
  ThroughLoopback = {one, two, three}  NoEditor = {}  Impatient = {one}
  MaxUnmaps = 1  MaxRestarts = 1  MaxEdits = 2
INVARIANTS TypeOK UniqueWatch ListedIsWatched OneRequest SavedIsKeptInOrder
PROPERTIES ImplementsOpenService EditorIsWatched ClientsFinish SaveArrives
CHECK_DEADLOCK FALSE
