------------------------ MODULE MCAutomationDispatch ------------------------
(* One binding's receipts: an occurrence or a delivery, or both. *)
EXTENDS AutomationDispatch, TLC
=============================================================================
