----------------------------- MODULE MCOtaBoard -----------------------------
(* OtaBoard with a factory image, an update that works, one that dies as   *)
(* soon as it boots, one the bootloader refuses, two the updater refuses   *)
(* (another board's, one too large) and an elf that was never packaged.    *)
EXTENDS OtaBoard
=============================================================================
