--------------------------- MODULE ControlMessages ---------------------------
(* The acknowledgements that CommandJournal and AckTracker are both given     *)
(* (include/aethon/control/command_journal.hpp).                              *)
EXTENDS Integers

CONSTANT Device

AckStatus == {"accepted", "rejected", "busy", "malformed", "unknown_command"}

Ack == [command_id : Nat, device : Device, status : AckStatus, time : Nat]
=============================================================================
