SPECIFICATION MCFairSpec
CONSTANTS
  alice = alice bob = bob node = node foo = foo bar = bar home = home
  one = one two = two three = three
  Scenarios = {"all"}
  Users = {alice}  Hosts = {node}  NPaths = {foo, bar}
  Folders = {home}  Folder <- OneFolder
  Invocations = {one, two}  Target <- TwoFiles
  Faults = FALSE  Nil = Nil  Outside = {}
  ThroughLoopback = {one, two}  NoEditor = {one}  Impatient = {}
  MaxUnmaps = 0  MaxRestarts = 0  MaxEdits = 0
PROPERTIES ClientsFinish
CHECK_DEADLOCK FALSE
