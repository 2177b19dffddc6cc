SPECIFICATION Spec
CONSTANTS
  Null = Null
  MaxFlaws = 2
INVARIANTS
  
  RulesFitCallers
