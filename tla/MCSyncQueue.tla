---------------------------- MODULE MCSyncQueue ----------------------------
(* Small instances of SyncQueue. *)
EXTENDS SyncQueue

MCScenarios == { <<"checkOut", "report">>, <<"receipt", "aviz">>, <<"checkIn", "expense">> }

\* A day without faults.
MCDay == {<<"checkIn", "checkOut">>}
=============================================================================
