CONSTANTS
  Intervals = {0, 5, 500}
  Themes = {"cyan", "amber"}
  Lengths = {0, 300, 20000}
  NetMaxima = {0, 2, 40}
SPECIFICATION Spec
INVARIANTS
  SafeValues
PROPERTIES
  CliTakesPrecedence
