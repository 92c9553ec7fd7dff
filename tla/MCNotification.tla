--------------------------- MODULE MCNotification ---------------------------
(***************************************************************************)
(* Instances of NotificationSubscriber for TLC.                            *)
(***************************************************************************)
EXTENDS NotificationSubscriber

(* Budgets of disturbances.                                                *)
FaultBudget == [signal |-> 1, crash |-> 1, conn |-> 2, refused |-> 2]
SignalBudget == [signal |-> 1, crash |-> 0, conn |-> 0, refused |-> 0]
=============================================================================
