---------------------------- MODULE MCLivePolicy ----------------------------
(* Small instances of LivePolicy: two rules, one provider.                 *)
EXTENDS LivePolicy

DoJob(kind, rules, wait) == [kind |-> kind, rules |-> rules, wait |-> wait]

(* Every kind of command; a set that brings a provider's rule with it.     *)
AllJobs ==
  {DoJob("set", {"r1", "p"}, TRUE), DoJob("set", {"r2"}, FALSE),
   DoJob("update", {"r2"}, TRUE),
   DoJob("attach", {"p"}, FALSE), DoJob("detach", {"p"}, FALSE),
   DoJob("approve", {"r1"}, FALSE)}

(* The commands that change the policy by increments. *)
Increments ==
  {DoJob("update", {"r2"}, FALSE), DoJob("approve", {"r1"}, FALSE),
   DoJob("attach", {"p"}, FALSE), DoJob("detach", {"p"}, FALSE)}
=============================================================================
