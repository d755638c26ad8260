CONSTANTS
  p1 = p1
  p2 = p2
  p3 = p3
  s1 = s1
  s2 = s2
  d1 = d1
  d2 = d2
  k1 = k1
  k2 = k2
  o1 = o1
  o2 = o2
  t1 = t1
  t2 = t2
  pay1 = pay1
  pay2 = pay2
  con1 = con1
  con2 = con2
  imp1 = imp1
  q1 = q1
  q2 = q2
  st1 = st1
  st2 = st2
  en1 = en1
  en2 = en2
  ev1 = ev1
  ev2 = ev2
  tag1 = tag1
  tag2 = tag2
  et1 = et1
  et2 = et2
  u1 = u1
  x1 = x1
  name1 = name1
  first = first
  Id = {p1, p2, p3, s1, s2, d1, d2, k1, k2, o1, o2, t1, t2, pay1, pay2, con1, con2, imp1, q1, q2, st1, st2, en1, en2, ev1, ev2, tag1, tag2, et1, et2, u1}
  TableOf <- Tabled
  Null = Null
  Now = Now
  Call = {c1, c2, c3}
  Worlds <- Everything
SPECIFICATION Spec
SYMMETRY Symmetry
CHECK_DEADLOCK FALSE
INVARIANT StampFitsStatus
PROPERTIES
  DealPairFits
  EventFitsItsStep
  StatusMoves
  DefaultSurvives
