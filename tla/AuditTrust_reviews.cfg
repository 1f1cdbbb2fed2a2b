SPECIFICATION Spec
CONSTANTS
  r1 = r1
  r2 = r2
  a1 = a1
  p1 = p1
  d1 = d1
  Reviewers <- TwoReviewers
  Auditors <- OneAuditor
  Projects <- OneProject
  MaxVersion = 2
  Deps <- OneDep
  Denied <- NothingDenied
  User = User
  Missing = Missing
  Free = Free
SYMMETRY Symmetry
INVARIANTS
  TypeOK
  PassIsApproved
PROPERTIES
  LedgerSpec
