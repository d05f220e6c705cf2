SPECIFICATION Spec
CONSTANTS
  alice = alice node = node foo = foo bar = bar home = home sub = sub
  one = one two = two
  Users = {alice}  Hosts = {node}  NPaths = {foo, bar}
  Folders = {home, sub}  Folder <- TwoFolders  Under <- HomeAndSub
  Invocations = {one, two}  Target <- TwoFiles
  Faults = FALSE  Nil = Nil  Outside = {}
  Reentrant = FALSE  MaxMishaps = 0  MaxEdits = 1
  NotInPath = {}  NotLaunched = {}  Failing = {}
PROPERTIES OnlySavesAreSynced
CHECK_DEADLOCK FALSE
