--------------------------- MODULE MC_TestExecutor ---------------------------
EXTENDS TestExecutor, TLC

CONSTANTS m1, m2

TwoDependencies == <<"d1", "d2">>
TwoSteps == <<{m1, m2}, {m1}>>
==============================================================================
