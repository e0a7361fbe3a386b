---------------------------- MODULE MCRebaseLoop ----------------------------
\* RebaseLoop on small sets, for TLC.
EXTENDS RebaseLoop

\* No subject misleads, or the first pick's does.
MCMisleading == {{}, {1}}
=============================================================================
