--------------------------- MODULE MCConsumerGroup ---------------------------
(***************************************************************************)
(* Model values for the runs of ConsumerGroup.                             *)
(***************************************************************************)
EXTENDS ConsumerGroup, TLC

=============================================================================
