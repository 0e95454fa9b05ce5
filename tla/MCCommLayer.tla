------------------------------ MODULE MCCommLayer ------------------------------
(* CommLayer for TLC: two devices whose numbers are the magic of a fragment,    *)
(* which answer each other, and a third that has no handlers and whose          *)
(* broadcasts have two answers; room for two messages, so that both fit, or not. *)
EXTENDS CommLayer

MCSetups == [d \in {1, 90, 165} |-> IF d = 1 THEN {{"message"}}
                                    ELSE {{"message", "state", "command"}}]
================================================================================
