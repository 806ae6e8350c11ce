-------------------------------- MODULE MCQuota --------------------------------
(***************************************************************************)
(* The quota guard on one day in the middle of a month, on a paid plan     *)
(* with its credentials, when Cloudflare's answer may lack a field.        *)
(***************************************************************************)
EXTENDS Quota

MCSetting == {[enabled |-> TRUE, plan |-> "paid", credentials |-> TRUE]}
MCStarts == {[day |-> 20380, date |-> <<2025, 10, 19>>, last |-> 20381, rows |-> 2]}
MCAllowance == [plan \in {"free", "paid"} |-> [m \in Meter |-> 2]]

-----------------------------------------------------------------------------
(* "An unknown field must not read as zero usage" (`usage_from_graphql`): a check that stays
   quiet has seen that the usage of its window is below every threshold. *)
UnknownIsNotZero == log.says = "quiet" => ~Near(log.usage)
=============================================================================
