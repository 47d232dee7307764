---------------------------- MODULE MC_RemoteRead ----------------------------
EXTENDS RemoteRead

CONSTANTS j1, j2, m1, m2

OneJob == {j1}
TwoJobs == {j1, j2}
OneMachine == <<m1>>
TwoMachines == <<m1, m2>>

=============================================================================
