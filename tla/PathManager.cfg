CONSTANTS
  s1 = s1
  s2 = s2
  Sites <- AllSites
  Paths <- AllPaths
  Negative <- Negatives
SPECIFICATION Spec
INVARIANT TypeOK
INVARIANT NoPrefixKept
PROPERTY RulesSpec
