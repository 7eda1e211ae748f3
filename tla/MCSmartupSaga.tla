---------------------------- MODULE MCSmartupSaga ----------------------------
(***************************************************************************)
(* Small instances of SmartupSaga: two deals, two slots, the worker alone  *)
(* or next to a run-once process.                                          *)
(***************************************************************************)
EXTENDS SmartupSaga

CONSTANTS d1, d2, worker, once
==============================================================================
