----------------------------- MODULE MCReceiver -----------------------------
(* Receiver with a sender that transmits a header and a data frame, in the   *)
(* format of WIN32/build/TestPA, with payloads of one and two words: the     *)
(* second payload does not fit into what is left of its block.               *)
EXTENDS Receiver

Frame(command, length) ==
  <<[role |-> "command", value |-> command], [role |-> "length", value |-> length]>>
    \o [i \in 1 .. length |-> [role |-> "payload", value |-> i]]

HeaderAndData == Frame("SEND_HEADER", 1) \o Frame("SEND_DATA", 2)
=============================================================================
