------------------------------- MODULE MCHart -------------------------------
(* Instances of the hart.  The guest writes mstatus with a few values only *)
(* and reaches the others through traps and returns.                       *)
EXTENDS Hart

Off == [MIE |-> FALSE, MPIE |-> FALSE, MPP |-> U, SIE |-> FALSE,
        SPIE |-> FALSE, SPP |-> U, MPRV |-> FALSE, TW |-> FALSE, TSR |-> FALSE]

\* Trap stack: the guest prepares a return to S and one to U, with MPRV on;
\* traps taken in M prepare the return to M.  The second value makes sret and
\* wfi illegal in S.
TrapValues == {[Off EXCEPT !.MPP = S, !.SPIE = TRUE, !.MPRV = TRUE],
               [Off EXCEPT !.MPP = U, !.MPIE = TRUE, !.MPRV = TRUE, !.SIE = TRUE,
                           !.TW = TRUE, !.TSR = TRUE]}

\* Delivery: interrupts on or off in M and S.
DelayValues == {[Off EXCEPT !.MPP = S, !.SIE = TRUE],
                [Off EXCEPT !.MIE = TRUE, !.MPP = U]}

\* The reserved encoding 2 of MPP, which the write mask lets through.
ReservedValues == {[Off EXCEPT !.MPP = 2]}

Causes == {"illegal", "ecallU", "ecallS", "ecallM", "fault"}
=============================================================================
