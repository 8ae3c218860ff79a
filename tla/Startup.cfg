SPECIFICATION Spec
CONSTANTS
  ApiEnvironments <- FewApiEnvironments
  MlEnvironments <- FewMlEnvironments
  Atoi <- Numerals
  PyInt <- PyNumerals
  ParseDuration <- Lengths
  SlogLevel <- LevelNames
  Origins <- FewOrigins
INVARIANTS
  TypeOK
PROPERTIES
  AcceptedConfigBuilds
  AddressedIsReady
