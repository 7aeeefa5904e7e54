SPECIFICATION Spec
CONSTANTS
  a = a  b = b  c = c
  State = {a, b, c}
  Meta = {m1, m2, m3}
  Rule = {r1, r2}
  Object = {o1}
  Field <- MCField
  Subject <- MCSubject
  Edge <- MCEdge
INVARIANT CopyIsOfOneDefinition
INVARIANT ParentsAreThoseBefore
INVARIANT FinalIsTheEnd
INVARIANT UnusedIsUnused
SYMMETRY MCSymmetry
