------------------------------- MODULE MCPpi -------------------------------
(***************************************************************************)
(* An instance of Ppi for TLC: one programmable channel and one fixed one. *)
(* The task "egu" of the fixed channel signals the event "triggered", as   *)
(* the tasks of the EGU do, and "dis" disables the channel group.          *)
(***************************************************************************)
EXTENDS Ppi, TLC

MCChannel    == {0, 20}
MCFixedEvent == (20 :> "compare")
MCFixedTask  == (20 :> "egu")
MCEvent      == {"compare", "triggered"}
MCTask       == {"egu", "en", "dis"}
MCGroup      == {"g"}
MCEnTask     == [g \in MCGroup |-> "en"]
MCDisTask    == [g \in MCGroup |-> "dis"]
MCRaises     == [t \in MCTask |-> IF t = "egu" THEN {"triggered"} ELSE {}]
=============================================================================
