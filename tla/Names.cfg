SPECIFICATION Spec
CONSTANTS
  Projects <- AllProjects
CHECK_DEADLOCK FALSE
INVARIANT EveryUseFindsItsDeclaration
INVARIANT ImportsLeadToTheDefinition
INVARIANT InheritedMembersComplete
