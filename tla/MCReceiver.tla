----------------------------- MODULE MCReceiver -----------------------------
(* Values of the constants of the receivers for TLC.                       *)
EXTENDS ReceiverThreadC
MCShutters == {0, 1}
(* What NoSilentLoss needs of the packets, for the values of receiver.cfg. *)
ASSUME MCGeometry == PacketsCutRows
=============================================================================
