SPECIFICATION Spec
CONSTANTS
  RuleIds <- MCRuleIds
  Templates <- MCTemplates
  Ids <- MCIds
  Params = {"x"}
  Default = "file"
  NoParams = NoParams
  NoGroup = NoGroup
  NoProc = NoProc
  MaxRules = 2
  MaxIncludes = 1
  MaxReqs = 3
INVARIANT
  RulesAreWhole
  DbIsSorted
  ActivatedInOrder
  TemplateIsLongest
  InstancesAreApart
  ArgsAreAsked
CHECK_DEADLOCK FALSE
