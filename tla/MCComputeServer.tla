-------------------------- MODULE MCComputeServer --------------------------
(* The compute server with two connections, for TLC.                        *)
EXTENDS ComputeServer

CONSTANTS c1, c2

MCClient == {c1, c2}
(* One client has two blocks to send, so that one can wait while the other  *)
(* runs; the second client gives it competition.                            *)
MCMaxRequests == [c \in MCClient |-> IF c = c1 THEN 2 ELSE 1]

(* One client, with two blocks to send. *)
MCOneClientRequests == [c \in {c1} |-> 2]
=============================================================================
