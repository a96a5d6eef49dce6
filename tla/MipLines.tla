------------------------------ MODULE MipLines ------------------------------
(* The interrupt lines of the hart and which of them software may write.   *)
EXTENDS Integers

CONSTANT Lines   \* the interrupt lines considered

AllLines     == {"MEIP", "SEIP", "MTIP", "STIP", "MSIP", "SSIP"}
MachineLines == {"MEIP", "MTIP", "MSIP"}

ASSUME LinesAssumption == Lines \subseteq AllLines

\* write_mask: the lines a CSR write of mip replaces; timerOn is menvcfg.STCE.
Writable(timerOn) ==
    Lines \cap ({"SSIP", "SEIP"} \cup (IF timerOn THEN {} ELSE {"STIP"}))
=============================================================================
