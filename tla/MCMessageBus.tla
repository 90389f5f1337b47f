---------------------------- MODULE MCMessageBus ----------------------------
(* A small instance: two sends of one job kind and two heartbeat messages  *)
(* (the scheduled loop's and the ad-hoc endpoint's).                       *)
EXTENDS MessageBus

CONSTANTS s1, s2, h1, h2

MCKinds == {"job", "heartbeat"}
MCKindOf == [m \in SendMsgs \cup TryMsgs |->
               IF m \in {s1, s2} THEN "job" ELSE "heartbeat"]
=============================================================================
