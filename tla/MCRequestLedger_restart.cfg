CONSTANTS
  Key = {k1}
  Content = {h1, h2}
  Owner = {o1, o2}
  Result = {r1}
  None = None
SPECIFICATION Spec
INVARIANTS LeasedToSomeone
