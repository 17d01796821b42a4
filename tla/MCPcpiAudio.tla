------------------------------ MODULE MCPcpiAudio -----------------------------
(* Every audio instruction, and one the unit does not know.                  *)
EXTENDS PcpiAudio
AllInsns == AudioInsns \cup {"other"}
=============================================================================
