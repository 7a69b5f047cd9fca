--------------------------- MODULE ExchangePolicy ---------------------------
(***************************************************************************)
(* Message policy of one exchange (ExchangePolicy of proto/h1/exchange.rs),*)
(* used by both drivers: what the heads of an exchange decide about the    *)
(* connection, independently of the I/O that carries them.                 *)
(*                                                                         *)
(* A policy is a record; the operations that mutate it in the code return  *)
(* the new record here.  A validated head is a record too:                 *)
(*   class    "informational", "final" or "upgrade"                        *)
(*   continue the status is 100                                            *)
(*   upgrade  the kind of upgrade it performs, or NoUpgrade                *)
(*   matches  its protocol is among those the request offered              *)
(*   reuse    its fields and version let the connection persist            *)
(*   body     it announces a body                                          *)
(***************************************************************************)
EXTENDS Naturals

CONSTANT NoUpgrade

Kinds == {"Tunnel", "Protocol"}

ASSUME NoUpgradeAssumption == NoUpgrade \notin Kinds

Policies(max) ==
    [phase : {"AwaitingHead", "Final", "Upgrade"}, reuse : BOOLEAN,
     upgrade : Kinds \cup {NoUpgrade}, informational : 0 .. max]

\* A head that performs an upgrade is treated as one whatever its status.
HeadRecords ==
    {head \in [class : {"informational", "final", "upgrade"}, continue : BOOLEAN,
               upgrade : Kinds \cup {NoUpgrade}, matches : BOOLEAN, reuse : BOOLEAN, body : BOOLEAN] :
        head.class = "upgrade" <=> head.upgrade \in Kinds}

NewPolicy(reuse, upgrade) ==
    [phase |-> "AwaitingHead", reuse |-> reuse, upgrade |-> upgrade, informational |-> 0]

\* The request asked for exactly this upgrade.
UpgradeAgreed(policy, head) ==
    /\ policy.upgrade = head.upgrade
    /\ head.upgrade = "Protocol" => head.matches

OverLimit(policy, max) == policy.informational > max

AtLimit(policy, max) == policy.informational = max

\* receive_head: the action a head calls for, "Error" when it is refused.
HeadAction(policy, head, max) ==
    CASE policy.phase # "AwaitingHead" -> "Error"
      [] policy.phase = "AwaitingHead" /\ head.class = "upgrade" ->
             IF UpgradeAgreed(policy, head) THEN "Upgrade" ELSE "Error"
      [] policy.phase = "AwaitingHead" /\ head.class = "informational" ->
             IF AtLimit(policy, max) THEN "Error" ELSE "Informational"
      [] policy.phase = "AwaitingHead" /\ head.class = "final" -> "Final"

\* Close, once decided by either message, stays.
StillReusable(policy, head) == policy.reuse /\ head.reuse

\* receive_head and sent_response: the policy after an accepted head.
AfterHead(policy, head) ==
    CASE head.class = "upgrade" -> [policy EXCEPT !.phase = "Upgrade"]
      [] head.class = "informational" -> [policy EXCEPT !.informational = @ + 1]
      [] head.class = "final" ->
             [policy EXCEPT !.phase = "Final", !.reuse = StillReusable(policy, head)]

\* close_after_exchange
Closing(policy) == [policy EXCEPT !.reuse = FALSE]

\* finish: the disposition once both directions settled.
Finished(policy, request, response) ==
    CASE request = "Retired" \/ response = "Retired" -> "Close"
      [] request = "Complete" /\ response = "Complete" ->
             CASE policy.phase = "AwaitingHead" -> "Internal"
               [] policy.phase = "Upgrade" -> "Handoff"
               [] policy.phase = "Final" -> IF policy.reuse THEN "Reusable" ELSE "Close"
=============================================================================
