CONSTANTS
  PrefixTokens = {1, 2}
  MaxPrefix = 3
  MaxInserted = 3
  AnchorTags = {a1}
SPECIFICATION ForestSpec
INVARIANT InsertedPrefixMatches
CHECK_DEADLOCK FALSE
