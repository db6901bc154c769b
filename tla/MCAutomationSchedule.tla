------------------------ MODULE MCAutomationSchedule ------------------------
(* One or two daemons over one database and one binding of every source    *)
(* and missed-run policy.                                                  *)
EXTENDS AutomationSchedule, TLC

CONSTANTS b1, l1, l2

EveryTick == [b \in Binding |-> 1]
=============================================================================
