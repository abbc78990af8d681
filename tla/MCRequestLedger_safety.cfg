CONSTANTS
  Key = {k1, k2}
  Content = {h1, h2}
  Owner = {o1, o2, o3}
  Result = {r1, r2}
  None = None
SPECIFICATION Spec
INVARIANTS TypeOK AnswersAgree SoleLessee
PROPERTIES CompletedIsFinal ImplementsContract
SYMMETRY Symmetry
