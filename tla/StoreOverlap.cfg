SPECIFICATION Spec
CONSTANTS
  a = a  b = b  web = web  util = util
  Subjects <- MCSubjects
  Paths = {web, util}
  None = None
  Requires <- MCRequires
  Names = {a}  Bodies = {b}  Texts = {b}  Begins <- Overlapping
INVARIANTS GetsOwnScripts
