SPECIFICATION Spec
INVARIANTS
  TypeOK
  OneActionSettles
