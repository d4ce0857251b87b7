----------------------------- MODULE LoginGrant -----------------------------
(***************************************************************************)
(* What the signaling server promises of every credential it hands to      *)
(* something that is not a browser: a native client's session, a phone's   *)
(* binding, a host's token.  Somebody asks for it, a user approves it, and *)
(* it is used once, for that user; what has ended never comes back.        *)
(***************************************************************************)
CONSTANTS Grants, Users, None

VARIABLES
    stage,       \* of each grant
    approver     \* the user it is for

vars == <<stage, approver>>

Init ==
    /\ stage = [g \in Grants |-> "none"]
    /\ approver = [g \in Grants |-> None]

Becomes(g, from, to, u) ==
    stage[g] \in from /\ stage'[g] = to /\ approver'[g] = u

Stays(g) == Becomes(g, {stage[g]}, stage[g], approver[g])

Ask(g) == Becomes(g, {"none"}, "asked", None)

\* A device that logs in was approved with its binding and does not ask.
Approve(g) == \E u \in Users : Becomes(g, {"none", "asked"}, "approved", u)

Use(g) == Becomes(g, {"approved"}, "used", approver[g])

\* The user who types a host's code gives it its token at once.
ApproveAndUse(g) == \E u \in Users : Becomes(g, {"asked"}, "used", u)

\* Refused, expired, logged out, replaced or lost.
End(g) == Becomes(g, {"asked", "approved", "used"}, "ended", None)

\* Several may move at once: a host's new token replaces its old one, a restart
\* ends all that are under way.
Next == \A g \in Grants :
    Stays(g) \/ Ask(g) \/ Approve(g) \/ Use(g) \/ ApproveAndUse(g) \/ End(g)

Spec == Init /\ [][Next]_vars
=============================================================================
