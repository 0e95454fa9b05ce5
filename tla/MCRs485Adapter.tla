---------------------------- MODULE MCRs485Adapter -----------------------------
(* Rs485Adapter for TLC: frames of two bytes, five calls, two errors.          *)
EXTENDS Rs485Adapter
================================================================================
