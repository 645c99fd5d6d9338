\* The script of the first commit always fails.
SPECIFICATION FairSpec
CONSTANTS
  Shas = {1, 2}
  SchemaOf <- MCSchemaOf
  Bad = {1}
  Faults = {}
  MaxMishaps = 0
PROPERTIES
  FailureOpensIssue
