---------------------------- MODULE MCLoginSession ----------------------------
(***************************************************************************)
(* The lines of stamp_rules that the runs of LoginSession are checked with. *)
(***************************************************************************)
EXTENDS LoginSession

MCRule ==
  {[stamp |-> "nod", time |-> 1000, failsafe |-> TRUE],
   [stamp |-> "hotkey", time |-> 500, failsafe |-> FALSE],
   [stamp |-> "hotkey", time |-> 500, failsafe |-> TRUE],
   [stamp |-> "skipped", time |-> 0, failsafe |-> TRUE],
   [stamp |-> "malformed", time |-> 0, failsafe |-> TRUE]}
================================================================================
