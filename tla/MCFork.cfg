SPECIFICATION Spec
CONSTANTS
  p1 = p1 p2 = p2 p3 = p3 p4 = p4
  e1 = e1 e2 = e2
  Page = {p1, p2, p3, p4}
  AS = {e1, e2}
  VA = {text, stack, temp}
  Stack = stack
  Temp = temp
  Value = {v1, v2}
  Made <- AnyPerm
  Invalid = Invalid
  Unmapped = Unmapped
SYMMETRY Symmetric
VIEW Shown
CONSTRAINT FewSent
INVARIANTS TypeOK CowExclusive StackWritable
PROPERTY PrivateMemSpec
CHECK_DEADLOCK FALSE
