SPECIFICATION FairSpec
CONSTANTS
  alice = alice node = node foo = foo bar = bar home = home sub = sub
  one = one two = two
  Users = {alice}  Hosts = {node}  NPaths = {foo}
  Folders = {home, sub}  Folder <- OneFolder  Under <- HomeAndSub
  Invocations = {one, two}  Target <- SameFile
  Faults = FALSE  Nil = Nil  Outside = {}
  Reentrant = FALSE  MaxMishaps = 1  MaxEdits = 1
  NotInPath = {}  NotLaunched = {}  Failing = {two}
PROPERTIES ImplementsOpenService ClientsFinish IndicatorSettles
CHECK_DEADLOCK FALSE
