------------------------------ MODULE MCMailRun ------------------------------
(* Every report goes out in the same number of messages, for TLC. *)
EXTENDS MailRun

CONSTANT Parts

MCMessages == [j \in Jobs |-> Parts]
=============================================================================
