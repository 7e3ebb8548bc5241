----------------------------- MODULE TransportMC -----------------------------
(* Transport for TLC, with the read sequences of AsyncReaderMC.               *)
EXTENDS Transport, AsyncReaderMC
=============================================================================
