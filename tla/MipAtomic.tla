----------------------------- MODULE MipAtomic ------------------------------
(* What the interrupt-pending register promises to the devices and to the  *)
(* guest: every device update and every CSR write takes effect at once,    *)
(* and a CSR write changes only the lines software may write.              *)
EXTENDS MipLines

VARIABLES mip,    \* the pending lines
          stce    \* menvcfg.STCE: the S-mode timer line belongs to the CLINT

Drive(S, high) == /\ mip' = IF high THEN mip \cup S ELSE mip \ S
                  /\ UNCHANGED stce

Write(v) == /\ mip' = (mip \ Writable(stce)) \cup (v \cap Writable(stce))
            /\ UNCHANGED stce

SetStce(on) == /\ stce' = on
               /\ UNCHANGED mip

Init == mip = {} /\ stce = FALSE

Next == \/ \E S \in SUBSET Lines, high \in BOOLEAN : Drive(S, high)
        \/ \E v \in SUBSET Lines : Write(v)
        \/ \E on \in BOOLEAN : SetStce(on)

Spec == Init /\ [][Next]_<<mip, stce>>
=============================================================================
