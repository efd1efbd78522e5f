---------------------------- MODULE MC_TestPhases ----------------------------
EXTENDS TestPhases, TLC

CONSTANTS n1, n2, oa, ob

AllBundles == {<<>>, <<oa>>, <<oa, ob>>}
AllNsLists == {<<n1>>, <<n2>>, <<n1, n2>>}
==============================================================================
