SPECIFICATION CommandsSpec
CONSTANTS
  a = a  b = b  web = web  noname = noname  r1 = r1  r2 = r2
  Subjects <- MCSubjects
  Names = {a, b}  Bodies = {b}  Texts = {a, b}  Begins <- PrefixFree
  Paths = {web, noname}
  None = None
  Requires <- MCRequires
  Arguments <- MCArguments  Nameless = noname  Blank = a
  Requests = {r1, r2}
  Walk <- MCWalk  Contents <- MCContents  Required <- MCRequired
SYMMETRY Symmetry
INVARIANTS TypeOK LoadsRequired ListsTheStore AddsInOrder LibrariesFresh LastOfWalk
PROPERTIES ImplementsStore
