-------------------------- MODULE MCNotifications --------------------------
(***************************************************************************)
(* Notifications for TLC.  s1 and s2 share one quote, a mint quote or a    *)
(* melt quote, that may be paid.  s3 subscribes to that quote and to       *)
(* another: what it adds is that subscribing and leaving can fail between  *)
(* two topics, for which no quote has to change.                           *)
(***************************************************************************)
EXTENDS Notifications

CONSTANTS q1, q2, s1, s2, s3

MCKinds == {(q1 :> k) @@ (q2 :> "idle") : k \in {"mint", "melt"}}

MCTopics == (s1 :> <<q1>>) @@ (s2 :> <<q1>>) @@ (s3 :> <<q1, q2>>)

=============================================================================
