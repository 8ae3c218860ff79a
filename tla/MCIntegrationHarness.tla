------------------------- MODULE MCIntegrationHarness -------------------------
\* The test on a machine with three ports.
EXTENDS IntegrationHarness
=============================================================================
