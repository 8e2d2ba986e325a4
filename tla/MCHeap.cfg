SPECIFICATION Spec
CONSTANTS
  User = {t1, t2}
  Size = 24
  Header = 3
  MinSize = 3
  Requests = {1, 4, 12}
SYMMETRY Symmetry
INVARIANTS WholeList UsersAgree
