SPECIFICATION FairSpec
CONSTANTS
  Documents = {"d"}
  Queries = {"q"}
  Recipes = {"embed"}
  RecipeOf <- MCRecipeOf
  None = None
  Workers = 1
  MaxAttempts = 5
  MaxFailures = 2
  Scenarios <- RequestScenarios
INVARIANTS
  AnswersAreWhole
PROPERTIES
  AnswersStay
  ImplementsRequests
  DocumentsSettle
CHECK_DEADLOCK FALSE
