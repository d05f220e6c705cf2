SPECIFICATION MCSpec
CONSTANTS
  alice = alice bob = bob node = node foo = foo bar = bar home = home
  one = one two = two three = three
  Scenarios = {"all"}
  Users = {alice, bob}  Hosts = {node}  NPaths = {foo}
  Folders = {home}  Folder <- OneFolder
  Invocations = {one, two}  Target <- TwoUsers
  Faults = FALSE  Nil = Nil  Outside = {}
  ThroughLoopback = {one, two}  NoEditor = {}  Impatient = {}
  MaxUnmaps = 0  MaxRestarts = 0  MaxEdits = 0
INVARIANTS Provenance
CHECK_DEADLOCK FALSE
