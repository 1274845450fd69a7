--------------------------- MODULE MC_EventOutbox ---------------------------
(***************************************************************************)
(* Small instance of EventOutbox: two servers on one store, one data event *)
(* and one receipt.                                                        *)
(***************************************************************************)
EXTENDS EventOutbox, TLC

CONSTANTS data, receipt, s1, s2

MC_Event == {data, receipt}
MC_Receipt == {receipt}
MC_Server == {s1, s2}
=============================================================================
