--------------------------------- MODULE Fp ---------------------------------
(* The floating-point state of the hart and the F, D and compressed         *)
(* floating-point instructions of core/execute.cpp: the registers, fflags   *)
(* and frm, mstatus.FS, SoftFloat's own flags, which every instruction must *)
(* leave empty, and what the operating system knows of all this from FS.    *)
(* What SoftFloat computes is external: any of Results, with any flags.     *)
EXTENDS FpFormat, FiniteSets

CONSTANTS FRegs,          \* floating-point registers
          Words,          \* memory words and integer registers, as wide as a double
          Results,        \* SoftFloat's results, for either format
          RaisedSets,     \* the flags SoftFloat may raise in an operation
          CsrValues,      \* integers written to fflags, frm and fcsr
          RmFields        \* rounding-mode fields of instructions

VARIABLES hart,           \* fs, fflags, frm, F and softfloat_exceptionFlags (sf)
          out,            \* the instruction just executed
          unsaved,        \* parts changed since the system saved them
          byCompressed    \* registers c_fld and c_fldsp loaded since then
vars == <<hart, out, unsaved, byCompressed>>

Flags == {"NX", "UF", "OF", "DZ", "NV"}
FlagShift == [NX |-> 0, UF |-> 1, OF |-> 2, DZ |-> 3, NV |-> 4]
FlagSet(v) == {n \in Flags : (v \div 2^FlagShift[n]) % 2 = 1}
FlagBits(S) ==
    LET bit(n) == IF n \in S THEN 2^FlagShift[n] ELSE 0
    IN bit("NX") + bit("UF") + bit("OF") + bit("DZ") + bit("NV")
RMM == 4
DYN == 7
Off == 0
Clean == 2
Dirty == 3

FpAssumption ==
    /\ FRegs # {} /\ IsFiniteSet(FRegs) /\ Words \subseteq Values(Double)
    /\ Results \subseteq Values(Single)
    /\ RaisedSets \subseteq SUBSET Flags /\ CsrValues \subseteq Nat
    /\ RmFields \subseteq 0 .. 7

-----------------------------------------------------------------------------
\* The helpers of execute.cpp, each as what it makes of the hart.
IllegalRm(s, rm) == (IF rm = DYN THEN s.frm ELSE rm) > RMM
fp_set_dirty(s) == [s EXCEPT !.fs = Dirty]
(* Wrong variant: flags that change do not make the state dirty. *)
UpdateNotDirty(s) ==
    IF s.sf # {} THEN [s EXCEPT !.fflags = @ \cup s.sf, !.sf = {}] ELSE s

fp_update_exception_flags(s) ==
    IF s.sf # {} THEN [fp_set_dirty(s) EXCEPT !.fflags = @ \cup s.sf, !.sf = {}] ELSE s
fp_inst_end(s) == fp_update_exception_flags(fp_set_dirty(s))

\* SoftFloat raises flags; a register is written in a format.
Raise(s, flags) == [s EXCEPT !.sf = @ \cup flags]
Write(s, f, rd, v) == [s EXCEPT !.F[rd] = WriteAs(f, v)]
Operand(f, r) == ReadAs(f, hart.F[r])
LowFor(f, w) == IF f = Single THEN unbox(w) ELSE w

\* The parts of the state, and those in which two harts differ.
Parts == FRegs \cup {"fflags", "frm"}
Changed(s, t) ==
    {r \in FRegs : s.F[r] # t.F[r]}
    \cup (IF s.fflags # t.fflags THEN {"fflags"} ELSE {})
    \cup (IF s.frm # t.frm THEN {"frm"} ELSE {})

Idle == [op |-> "none", raised |-> {}, v |-> 0]
\* The end of an instruction that leaves the hart s: one at a time. Integer
\* results are left out.
Ends(op, s, raised, v) ==
    /\ out = Idle
    /\ out' = [op |-> op, raised |-> raised, v |-> v]
    /\ hart' = s
    /\ unsaved' = unsaved \cup Changed(hart, s)
Completes(s, raised) == Ends("fp", s, raised, 0) /\ UNCHANGED byCompressed
\* An illegal-instruction exception, or a fault of the access.
Traps == Completes(hart, {})

\* fp_inst_prep, which the others follow: an exception while FS is off.
Prepared == hart.fs # Off
FpOff == ~Prepared /\ Traps

-----------------------------------------------------------------------------
Init ==
    /\ hart = [fs |-> Off, fflags |-> {}, frm |-> 0, F |-> [r \in FRegs |-> 0], sf |-> {}]
    /\ out = Idle
    /\ unsaved = {} /\ byCompressed = {}

\* flw, fld: the access may fault.
Load(f) ==
    \/ FpOff
    \/ Prepared /\ Traps
    \/ \E rd \in FRegs, w \in Words :
          Prepared /\ Completes(fp_set_dirty(Write(hart, f, rd, LowFor(f, w))), {})

\* c_fld, c_fldsp: as fld, without fp_set_dirty.
CompressedLoad ==
    \/ FpOff
    \/ Prepared /\ Traps
    \/ \E rd \in FRegs, w \in Words :
          LET s == Write(hart, Double, rd, w)
          IN Prepared /\ Ends("fp", s, {}, 0)
             /\ byCompressed' = byCompressed \cup Changed(hart, s)
c_fld == CompressedLoad
c_fldsp == CompressedLoad

\* fsw, fsd, c_fsd and c_fsdsp store, fmv_x moves and fclass tells what a
\* register holds: no floating-point state changes, whether or not a store
\* faults.
OnlyReads == FpOff \/ (Prepared /\ Completes(hart, {}))

\* Operations that round: the mode is checked before anything is computed.
Rounded(f) ==
    \/ FpOff
    \/ \E rm \in RmFields :
          \/ Prepared /\ IllegalRm(hart, rm) /\ Traps
          \/ \E rd \in FRegs, v \in Results, flags \in RaisedSets :
                /\ Prepared /\ ~IllegalRm(hart, rm)
                /\ Completes(fp_inst_end(Raise(Write(hart, f, rd, v), flags)), flags)
ToInt ==
    \/ FpOff
    \/ \E rm \in RmFields :
          \/ Prepared /\ IllegalRm(hart, rm) /\ Traps
          \/ \E flags \in RaisedSets :
                /\ Prepared /\ ~IllegalRm(hart, rm)
                /\ Completes(fp_update_exception_flags(Raise(hart, flags)), flags)

\* fsgnj, fsgnjn, fsgnjx.
SignInjection(f) ==
    \/ FpOff
    \/ \E rd, rs1, rs2 \in FRegs :
          LET u == Operand(f, rs1)
              v == Operand(f, rs2)
          IN \E r \in {fsgnj(f, u, v), fsgnjn(f, u, v), fsgnjx(f, u, v)} :
                Prepared /\ Completes(fp_set_dirty(Write(hart, f, rd, r)), {})

\* fmin and fmax: a signaling NaN sets NV in fflags at once; the quiet
\* comparison raises it too.
MinMax(f) ==
    \/ FpOff
    \/ \E rd, rs1, rs2 \in FRegs :
          LET u == Operand(f, rs1)
              v == Operand(f, rs2)
              nv == IF isSignalingNaN(f, u) \/ isSignalingNaN(f, v) THEN {"NV"} ELSE {}
              s == Raise([hart EXCEPT !.fflags = @ \cup nv], nv)
          IN \E r \in {fmin(f, u, v), fmax(f, u, v)} :
                Prepared /\ Completes(fp_inst_end(Write(s, f, rd, r)), nv)

\* fmv_w_x and fmv_d_x.
FromX(f) ==
    \/ FpOff
    \/ \E rd \in FRegs, w \in Words :
          Prepared /\ Completes(fp_set_dirty(Write(hart, f, rd, LowFor(f, w))), {})

\* feq is quiet; flt and fle raise NV for any NaN.
Compare(f) ==
    \/ FpOff
    \/ \E rs1, rs2 \in FRegs :
          LET u == Operand(f, rs1)
              v == Operand(f, rs2)
              quiet == IF isSignalingNaN(f, u) \/ isSignalingNaN(f, v) THEN {"NV"} ELSE {}
              loud == IF Ordered(f, u, v) THEN {} ELSE {"NV"}
          IN \E flags \in {quiet, loud} :
                Prepared /\ Completes(fp_update_exception_flags(Raise(hart, flags)), flags)

-----------------------------------------------------------------------------
\* The F extension, in the order of the source.
flw == Load(Single)
fsw == OnlyReads
ArithS == Rounded(Single)          \* fadd_s, fsub_s, fmul_s, fdiv_s, fsqrt_s
SignS == SignInjection(Single)
MinMaxS == MinMax(Single)
ToIntS == ToInt                    \* fcvt_w_s, fcvt_wu_s, fcvt_l_s, fcvt_lu_s
FromIntS == Rounded(Single)        \* fcvt_s_w, fcvt_s_wu, fcvt_s_l, fcvt_s_lu
fmv_x_w == OnlyReads
fmv_w_x == FromX(Single)
fclass_s == OnlyReads
CompareS == Compare(Single)
MulAddS == Rounded(Single)         \* fmadd_s, fmsub_s, fnmsub_s, fnmadd_s
InsnF == \/ flw \/ fsw \/ ArithS \/ SignS \/ MinMaxS \/ ToIntS \/ FromIntS
         \/ fmv_x_w \/ fmv_w_x \/ fclass_s \/ CompareS \/ MulAddS

\* The D extension.
fld == Load(Double)
fsd == OnlyReads
ArithD == Rounded(Double)
SignD == SignInjection(Double)
MinMaxD == MinMax(Double)
ToIntD == ToInt
FromIntD == Rounded(Double)
fcvt_s_d == Rounded(Single)
fcvt_d_s == Rounded(Double)
fmv_x_d == OnlyReads
fmv_d_x == FromX(Double)
fclass_d == OnlyReads
CompareD == Compare(Double)
MulAddD == Rounded(Double)
InsnD == \/ fld \/ fsd \/ ArithD \/ SignD \/ MinMaxD \/ ToIntD \/ FromIntD
         \/ fcvt_s_d \/ fcvt_d_s \/ fmv_x_d \/ fmv_d_x \/ fclass_d \/ CompareD \/ MulAddD

-----------------------------------------------------------------------------
\* fflags, frm and fcsr: FS must be on, and a checked write makes it dirty.
\* fcsr is a view of the other two.
CsrRead(s, c) ==
    CASE c = "fflags" -> FlagBits(s.fflags)
      [] c = "frm"    -> s.frm
      [] c = "fcsr"   -> FlagBits(s.fflags) + (s.frm * 32)
WriteFflags(s, v) == [s EXCEPT !.fflags = FlagSet(v)]
WriteFrm(s, v) == [s EXCEPT !.frm = v % 8]
WriteFcsr(s, v) == WriteFrm(WriteFflags(s, v % 32), (v \div 32) % 8)
CsrWritten(s, c, v) ==
    CASE c = "fflags" -> WriteFflags(s, v)
      [] c = "frm"    -> WriteFrm(s, v)
      [] c = "fcsr"   -> WriteFcsr(s, v)
Csrs == {"fflags", "frm", "fcsr"}
CsrAccess(c) ==
    \/ FpOff
    \/ Prepared /\ Completes(hart, {})                    \* only read
    \/ \E v \in CsrValues :
          /\ Prepared
          /\ Ends(c, fp_set_dirty(CsrWritten(hart, c, v)), {}, v)
          /\ UNCHANGED byCompressed
FFLAGS == CsrAccess("fflags")
FRM == CsrAccess("frm")
FCSR == CsrAccess("fcsr")

\* The system: at a switch it saves the state if FS says it changed, and
\* marks it clean; it turns the unit off once it is saved, and on again.
Save ==
    /\ out = Idle /\ hart.fs = Dirty
    /\ hart' = [hart EXCEPT !.fs = Clean]
    /\ unsaved' = {} /\ byCompressed' = {}
    /\ UNCHANGED out
Switch ==
    /\ out = Idle
    /\ \/ hart.fs = Clean /\ hart' = [hart EXCEPT !.fs = Off]
       \/ hart.fs = Off /\ hart' = [hart EXCEPT !.fs = Clean]
    /\ UNCHANGED <<out, unsaved, byCompressed>>
Retire == out # Idle /\ out' = Idle /\ UNCHANGED <<hart, unsaved, byCompressed>>

\* The compressed stores.
c_fsd == OnlyReads
c_fsdsp == OnlyReads

Next == InsnF \/ InsnD \/ c_fld \/ c_fldsp \/ c_fsd \/ c_fsdsp
        \/ FFLAGS \/ FRM \/ FCSR \/ Save \/ Switch \/ Retire
Spec == Init /\ [][Next]_vars

-----------------------------------------------------------------------------
\* Every register holds a word, every field its own kind of value.
TypeOK ==
    /\ hart.fs \in 0 .. 3 /\ hart.fflags \subseteq Flags /\ hart.frm \in 0 .. 7
    /\ hart.F \in [FRegs -> Values(Double)]
    /\ unsaved \subseteq Parts /\ byCompressed \subseteq FRegs

\* The assertion of fp_inst_prep, softfloat_exceptionFlags == 0: whatever ran
\* before, SoftFloat's flags are empty when an instruction begins.
FlagsAreDrained == hart.sf = {}

\* What FS says is true: unless it is dirty, all of the state is what the
\* system last saved, but for the registers c_fld and c_fldsp loaded.
CleanMeansSaved == hart.fs # Dirty => unsaved \subseteq byCompressed

\* Flags only accrue: an instruction other than a CSR write keeps every flag
\* that was set and adds exactly those it raised.
FlagsAccrue ==
    [][(out' # Idle /\ out'.op \notin Csrs) =>
          hart'.fflags = hart.fflags \cup out'.raised]_vars

\* The three registers are two: what is written to one is read from the
\* others, a flag where it was and a mode where it was.
ViewsAgree ==
    [][out'.op = "fcsr" =>
          /\ CsrRead(hart', "fcsr") = out'.v % 256
          /\ CsrRead(hart', "fflags") = out'.v % 32
          /\ CsrRead(hart', "frm") = (out'.v \div 32) % 8]_vars
=============================================================================
