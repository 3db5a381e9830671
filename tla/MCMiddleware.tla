---------------------------- MODULE MCMiddleware ----------------------------
\* One tool, interchangeable calls; small thresholds, so that four calls open
\* the circuit, exhaust the rate window and trip the loop detector.
EXTENDS ToolMiddleware, TLC

CallSymmetry == Permutations(Calls)
=============================================================================
