---------------------------- MODULE RegisterPlan ----------------------------
(***************************************************************************)
(* From a frequency to six register words: calculate_regs and make_regs of *)
(* the Python library (adf435x/core.py), buildRegisters of the GUI         *)
(* (qtgui/adf4351.cpp) and calculateFreq of the command line program       *)
(* (examples/adf4351-eval).  Frequencies are whole kHz; a quotient of      *)
(* doubles is the exact fraction plus what binary noise can make of it: a  *)
(* tie rounds either way, and the floor of a quotient that is a whole      *)
(* number may come out one lower.                                          *)
(***************************************************************************)
EXTENDS Integers, FiniteSets

CONSTANTS Requests,  \* settings of the user that decide on the frequency
          Others,    \* the bits of the six words that do not
          Garbage    \* what the GUI's uninitialised divider may hold; {} if
                     \* band_select_auto happens to be read as true

Regs == 0..5
Programs == {"core.py", "adf4351.cpp", "adf4351-eval"}
Devices == {"ADF4350", "ADF4351"}

(* band: a band select divider given by the caller of the library, 0 none. *)
Request == [prog : Programs, device : Devices, freq : Nat, ref : Nat \ {0},
            r : 1..1023, doubler : 0..1, div2 : 0..1, feedback : 0..1,
            mode : 0..1, band : 0..255]

(* The bits of a word from lo on.                                          *)
Field(word, lo, width) == (word \div 2^lo) % 2^width

(* Where make_regs and buildRegisters put the values that are calculated,  *)
(* the number of the register among them: register, lowest bit and width.  *)
Planned == {<<0, 0, 3>>, <<0, 3, 12>>, <<0, 15, 16>>, <<1, 0, 3>>, <<1, 3, 12>>,
            <<2, 0, 3>>, <<2, 8, 1>>, <<2, 14, 12>>, <<3, 0, 3>>, <<3, 23, 1>>,
            <<4, 0, 3>>, <<4, 12, 12>>, <<5, 0, 3>>, <<5, 19, 2>>}

(* The bits between them, 30 the highest.                                  *)
Unplanned == {<<1, 15, 16>>, <<2, 3, 5>>, <<2, 9, 5>>, <<2, 26, 5>>, <<3, 3, 20>>, <<3, 24, 7>>,
              <<4, 3, 9>>, <<4, 24, 7>>, <<5, 3, 16>>, <<5, 21, 10>>}

(* The phase detector has a kilohertz at least, otherwise there is no      *)
(* modulus.  The command line program knows a frequency and an R counter   *)
(* only, one that divides the reference.                                   *)
ASSUME RequestsAssumption ==
  /\ Requests \subseteq Request
  /\ \A q \in Requests : 1000 * q.ref * (1 + q.doubler) >= (1 + q.div2) * q.r
  /\ \A q \in Requests : q.prog = "adf4351-eval" =>
       /\ q.doubler = 0 /\ q.div2 = 0 /\ q.feedback = 1 /\ q.mode = 0
       /\ q.device = "ADF4351" /\ (1000000 * q.ref) % q.r = 0
ASSUME OthersAssumption ==
  \A o \in Others : o \in [Regs -> Nat] /\ \A f \in Planned : Field(o[f[1]], f[2], f[3]) = 0
ASSUME GarbageAssumption == Garbage \subseteq Nat

VARIABLES pc, request, plan, regs

vars == <<pc, request, plan, regs>>

(***************************************************************************)
(* Numbers                                                                 *)
(***************************************************************************)
gcd[p \in Nat \X Nat] ==
  LET a == p[1]
      b == p[2]
  IN IF a = 0 THEN b ELSE IF b = 0 THEN a
     ELSE IF a > b THEN gcd[<<a % b, b>>] ELSE gcd[<<a, b % a>>]

Ratio(n, d) == LET g == gcd[<<n, d>>] IN [num |-> n \div g, den |-> d \div g]

Ceil(n, d) == (n + d - 1) \div d

(* n / d rounded: two values at a tie.                                     *)
Nearest(n, d) ==
  {m \in {n \div d, n \div d + 1} : 2 * m * d - 2 * n \in (0 - d)..d}

(* The frequency of the phase detector in kHz.                             *)
Pfd(q) == Ratio(1000 * q.ref * (1 + q.doubler), (1 + q.div2) * q.r)

(* The range of the VCO starts at 2200 MHz: the first power of two that    *)
(* reaches it (library), one doubling for each bound not reached (GUI).    *)
LibraryDivider(freq) ==
  LET fits == {k \in 0..6 : freq * 2^k >= 2200000}
  IN IF fits = {} THEN 64 ELSE 2^(CHOOSE k \in fits : \A j \in fits : k <= j)

Bounds == {2200000, 1100000, 550000, 275000, 137500, 68750}

(* Mutant: one bound too low.                                              *)
GuiDividerLate(freq) == 2^Cardinality({b \in (Bounds \ {68750}) \cup {68000} : freq < b})

GuiDivider(freq) == 2^Cardinality({b \in Bounds : freq < b})

(* N, the division ratio from the feedback to the phase detector.          *)
N(q, divider) == Ratio(q.freq * (IF q.feedback = 1 THEN divider ELSE 1) * Pfd(q).den,
                       Pfd(q).num)

(* INT and the fraction that remains.  The GUI adds 1e-9 against a floor   *)
(* that comes out one lower, the library does not.                         *)
Split(q, n) ==
  {[int |-> n.num \div n.den, rest |-> n.num % n.den]}
    \cup {s \in {[int |-> n.num - 1, rest |-> 1]} :
            q.prog = "core.py" /\ n.den = 1 /\ s.int >= 0}

(* FRAC and MOD are divided by their gcd; a modulus of 1 becomes 2.        *)
Reduced(mod, frac) ==
  LET g == gcd[<<mod, frac>>]
  IN [MOD |-> IF mod \div g = 1 THEN 2 ELSE mod \div g, FRAC |-> frac \div g]

(* The plan: what is calculated before it is put into words.  up: FRAC was *)
(* rounded up to MOD; step: the modulus before the reduction.              *)
NoPlan == [INT |-> 0, FRAC |-> 0, MOD |-> 2, divider |-> 1, band |-> 0,
           step |-> 2, up |-> FALSE]

Plans(q, divider, band) ==
  LET n == N(q, divider) IN
  UNION {UNION {{
    [INT |-> s.int, FRAC |-> Reduced(mod, frac).FRAC, MOD |-> Reduced(mod, frac).MOD,
     divider |-> divider, band |-> band, step |-> mod, up |-> frac = mod]
      : frac \in Nearest(s.rest * mod, n.den)}
      : mod \in Nearest(Pfd(q).num, Pfd(q).den)}
      : s \in Split(q, n)}

(***************************************************************************)
(* Words                                                                   *)
(***************************************************************************)
(* Mutants: the reference doubler one bit too high, where it meets the     *)
(* MUXOUT field, and R5 with the number of R4.                             *)
WordsDoubler(q, p, o, ldf) ==
  [r \in Regs |-> o[r] + r +
    CASE r = 0 -> p.INT * 2^15 + p.FRAC * 2^3
      [] r = 1 -> p.MOD * 2^3
      [] r = 2 -> q.doubler * 2^26 + q.div2 * 2^24 + q.r * 2^14 + ldf * 2^8
      [] r = 3 -> IF q.device = "ADF4351" THEN q.mode * 2^23 ELSE 0
      [] r = 4 -> q.feedback * 2^23 + (CHOOSE k \in 0..6 : 2^k = p.divider) * 2^20
                    + p.band * 2^12
      [] r = 5 -> 3 * 2^19]
WordsNumber(q, p, o, ldf) == [WordsDoubler(q, p, o, ldf) EXCEPT ![5] = @ - 1]

(* The words of a plan: every value shifted to its place, the number of    *)
(* the register in the lowest bits.                                        *)
Words(q, p, o, ldf) ==
  [r \in Regs |-> o[r] + r +
    CASE r = 0 -> p.INT * 2^15 + p.FRAC * 2^3
      [] r = 1 -> p.MOD * 2^3
      [] r = 2 -> q.doubler * 2^25 + q.div2 * 2^24 + q.r * 2^14 + ldf * 2^8
      [] r = 3 -> IF q.device = "ADF4351" THEN q.mode * 2^23 ELSE 0
      [] r = 4 -> q.feedback * 2^23 + (CHOOSE k \in 0..6 : 2^k = p.divider) * 2^20
                    + p.band * 2^12
      [] r = 5 -> 3 * 2^19]

Init ==
  /\ pc = "asked" /\ request \in Requests
  /\ plan = NoPlan /\ regs = [r \in Regs |-> 0]

(***************************************************************************)
(* The library                                                             *)
(***************************************************************************)
(* The range of the device, the limits of the phase detector and of the    *)
(* band select clock.  Without a divider from the caller the fast band     *)
(* select mode fails for want of one.                                      *)
Possible(q, p) ==
  LET f == Pfd(q) IN
  /\ q.freq <= 4500000
  /\ IF q.device = "ADF4351" THEN q.freq >= 33000 ELSE q.freq >= 137500
  /\ f.num > 32000 * f.den =>
       /\ p.FRAC = 0
       /\ q.device = "ADF4351" => f.num <= 90000 * f.den /\ q.mode = 1
  /\ p.band # 0
  /\ f.num <= 500 * f.den * p.band
  /\ f.num > 125 * f.den * p.band => q.device = "ADF4351" /\ q.mode = 1

LibraryBand(q) ==
  IF q.band # 0 THEN q.band
  ELSE IF q.mode = 1 THEN 0
  ELSE LET ceil == Ceil(8 * Pfd(q).num, 1000 * Pfd(q).den)
       IN IF ceil > 255 THEN 255 ELSE ceil

calculate_regs ==
  /\ pc = "asked" /\ request.prog = "core.py"
  /\ \E p \in Plans(request, LibraryDivider(request.freq), LibraryBand(request)) :
       IF Possible(request, p) THEN pc' = "planned" /\ plan' = p
                               ELSE pc' = "rejected" /\ UNCHANGED plan
  /\ UNCHANGED <<request, regs>>

(* Mutant: no check of MOD.                                                *)
InFieldsNoMod(p, o) ==
  /\ p.INT \in (IF Field(o[1], 27, 1) = 0 THEN 23 ELSE 75)..65535
  /\ p.FRAC \in 0..(p.MOD - 1)

(* The checks of make_regs; the prescaler is R1[27].                       *)
InFields(p, o) ==
  /\ p.INT \in (IF Field(o[1], 27, 1) = 0 THEN 23 ELSE 75)..65535
  /\ p.MOD \in 2..4095
  /\ p.FRAC \in 0..(p.MOD - 1)

make_regs ==
  /\ pc = "planned"
  /\ \E o \in Others :
       IF InFields(plan, o)
         THEN /\ pc' = "built"
              /\ regs' = Words(request, plan, o, IF plan.FRAC = 0 THEN 0 ELSE 1)
         ELSE pc' = "rejected" /\ UNCHANGED regs
  /\ UNCHANGED <<request, plan>>

(***************************************************************************)
(* The GUI                                                                 *)
(***************************************************************************)
(* With band_select_auto the next whole number in both modes; neither it   *)
(* nor the divider is ever initialised.                                    *)
GuiBands(q) ==
  LET f == Pfd(q)
      ceil == Ceil((IF q.mode = 1 THEN 2 ELSE 8) * f.num, 1000 * f.den)
  IN {IF ceil > 255 THEN 255 ELSE ceil} \cup Garbage

(* INT, FRAC and MOD are cut to the width of their fields.                 *)
CutToFields(p) == [p EXCEPT !.INT = @ % 65536, !.FRAC = @ % 4096, !.MOD = @ % 4096]

(* Nothing is checked.  LDF is automatic: 1 without a fraction.            *)
buildRegisters ==
  /\ pc = "asked" /\ request.prog = "adf4351.cpp"
  /\ \E band \in GuiBands(request), o \in Others :
     \E p \in Plans(request, GuiDivider(request.freq), band) :
       /\ plan' = p
       /\ regs' = Words(request, CutToFields(p), o, IF p.FRAC = 0 THEN 1 ELSE 0)
  /\ pc' = "built"
  /\ UNCHANGED request

(***************************************************************************)
(* The command line program                                                *)
(***************************************************************************)
(* The bit fields of R0 to R5: register, lowest bit, width.                *)
Layout == [
  FRAC |-> <<0, 3, 12>>, INT |-> <<0, 15, 16>>,
  MOD |-> <<1, 3, 12>>, phase |-> <<1, 15, 12>>, prescaler |-> <<1, 27, 1>>,
  PDPolarity |-> <<2, 6, 1>>, LDP |-> <<2, 7, 1>>, LDF |-> <<2, 8, 1>>, CPCurrent |-> <<2, 9, 4>>,
  doubleBuffer |-> <<2, 13, 1>>, RCounter |-> <<2, 14, 10>>, RDiv2 |-> <<2, 24, 1>>,
  RMul2 |-> <<2, 25, 1>>, muxOut |-> <<2, 26, 3>>,
  clkDiv |-> <<3, 3, 12>>, bandSelClkMode |-> <<3, 23, 1>>,
  outPower |-> <<4, 3, 2>>, outEnable |-> <<4, 5, 1>>, MTLD |-> <<4, 10, 1>>,
  VCOPowerDown |-> <<4, 11, 1>>, bandSelClkDiv |-> <<4, 12, 8>>, RFDivSel |-> <<4, 20, 3>>,
  feedback |-> <<4, 23, 1>>, LDPinMode |-> <<5, 22, 2>>]

(* Assignments to bit fields, each cut to its width, on top of the default *)
(* values.                                                                 *)
Assigned(field, value) == (value % 2^Layout[field][3]) * 2^Layout[field][2]

EvalWords(q, p) ==
  [r \in Regs |-> r +
    CASE r = 0 -> Assigned("INT", p.INT) + Assigned("FRAC", p.FRAC)
      [] r = 1 -> Assigned("MOD", p.MOD) + Assigned("phase", 1) + Assigned("prescaler", 1)
      [] r = 2 -> LET whole == IF p.FRAC = 0 THEN 1 ELSE 0 IN
                  Assigned("muxOut", 6) + Assigned("RCounter", q.r) + Assigned("doubleBuffer", 1)
                    + Assigned("CPCurrent", 7) + Assigned("LDF", whole) + Assigned("LDP", whole)
                    + Assigned("PDPolarity", 1)
      [] r = 3 -> Assigned("clkDiv", 150)
      [] r = 4 -> Assigned("feedback", 1) + Assigned("RFDivSel", CHOOSE k \in 0..6 : 2^k = p.divider)
                    + Assigned("bandSelClkDiv", p.band) + Assigned("MTLD", 1)
                    + Assigned("outEnable", 1) + Assigned("outPower", 3)
      [] r = 5 -> 3 * 2^19 + Assigned("LDPinMode", 1)]

OffWords ==
  [r \in Regs |-> r + CASE r = 4 -> Assigned("VCOPowerDown", 1)
                        [] r = 5 -> 3 * 2^19
                        [] OTHER -> 0]

(* INT and the fraction are cut, not rounded: what is a whole number of    *)
(* steps, or of phase detector cycles, may come out one step lower, since  *)
(* the frequency itself is a decimal read as a double (main.cpp:89-102).   *)
Cut(n, mod) ==
  LET whole == n.num \div n.den
      fine == (n.num % n.den) * mod
  IN {[int |-> whole, frac |-> fine \div n.den]}
       \cup {s \in {[int |-> whole, frac |-> fine \div n.den - 1]} :
               fine % n.den = 0 /\ s.frac >= 0}
       \cup {s \in {[int |-> whole - 1, frac |-> mod - 1]} : n.num % n.den = 0 /\ s.int >= 0}

EvalPlans(q) ==
  LET pfd == (1000000 * q.ref) \div q.r
      mod == pfd \div 1000
      per == Ratio(1000, pfd)
      n == Ratio(q.freq * GuiDivider(q.freq) * per.num, per.den)
  IN {[INT |-> s.int,
       FRAC |-> IF s.frac = 0 THEN 0 ELSE Reduced(mod, s.frac).FRAC,
       MOD |-> IF s.frac = 0 THEN 2 ELSE Reduced(mod, s.frac).MOD,
       divider |-> GuiDivider(q.freq), band |-> Ceil(pfd, 125000), step |-> mod, up |-> FALSE]
        : s \in Cut(n, mod)}

(* main takes a frequency out of range for zero, which switches the VCO    *)
(* off.                                                                    *)
InRange(freq) == freq \in 33000..4500000

calculateFreq ==
  /\ pc = "asked" /\ request.prog = "adf4351-eval"
  /\ IF InRange(request.freq)
       THEN /\ pc' = "built"
            /\ \E p \in EvalPlans(request) : plan' = p /\ regs' = EvalWords(request, p)
       ELSE /\ pc' = "off"
            /\ regs' = OffWords
            /\ UNCHANGED plan
  /\ UNCHANGED request

Next == calculate_regs \/ make_regs \/ buildRegisters \/ calculateFreq

Spec == Init /\ [][Next]_vars

(***************************************************************************)
(* What the chip makes of six words, by the bit fields of adf4351-eval     *)
(***************************************************************************)
getReg(w, field) == Field(w[Layout[field][1]], Layout[field][2], Layout[field][3])

ChipPfd(w, ref) == Ratio(1000 * ref * (1 + getReg(w, "RMul2")),
                         (1 + getReg(w, "RDiv2")) * getReg(w, "RCounter"))
ChipDivider(w) == 2^getReg(w, "RFDivSel")

(* The ratio the chip needs for a frequency.                               *)
Needed(w, ref, freq) ==
  LET f == ChipPfd(w, ref)
  IN Ratio(freq * (IF getReg(w, "feedback") = 1 THEN ChipDivider(w) ELSE 1) * f.den, f.num)

Distance(a, b) == IF a > b THEN a - b ELSE b - a

(* INT + FRAC / MOD is the needed ratio up to k half steps of 1 / step;    *)
(* the whole parts then differ by one at most.                             *)
WithinHalfSteps(k, w, ref, freq, step) ==
  LET n == Needed(w, ref, freq)
      whole == n.num \div n.den
      INT == getReg(w, "INT")
      MOD == getReg(w, "MOD")
  IN /\ Distance(INT, whole) <= 1
     /\ 2 * Distance((INT - whole) * MOD * n.den + getReg(w, "FRAC") * n.den, (n.num % n.den) * MOD)
          <= (k * MOD * n.den) \div step

(***************************************************************************)
(* Properties                                                              *)
(***************************************************************************)
Representable == plan.INT < 65536 /\ plan.MOD < 4096 /\ plan.band < 256

(* Every variable holds a value of its kind; a library that returns words  *)
(* never returns a modulus the chip cannot hold (core.py:226-228).         *)
TypeOK ==
  /\ pc \in {"asked", "planned", "rejected", "built", "off"} /\ request \in Requests
  /\ plan.INT \in Nat /\ plan.FRAC \in Nat /\ plan.MOD \in Nat \ {0, 1}
  /\ plan.FRAC < plan.MOD /\ plan.divider \in {2^k : k \in 0..6}
  /\ plan.band \in Nat /\ plan.step \in Nat /\ plan.up \in BOOLEAN
  /\ regs \in [Regs -> Nat]
  /\ pc = "built" /\ request.prog = "core.py" => Representable

(* The words tune the chip to the requested frequency: decoded field by    *)
(* field they give it up to half a step of the modulus, a whole step where *)
(* the fraction is cut.  Left out are the two defects the other runs show: *)
(* a fraction that was rounded up to the modulus, and a value that is cut  *)
(* to its field (core.py:110-134, 243-294, qtgui/adf4351.cpp:36-81,        *)
(* 111-128, adf4351-eval/adf4351.cpp:43-91).                               *)
Tuned ==
  pc = "built" /\ Representable /\ ~plan.up
    => WithinHalfSteps(IF request.prog = "adf4351-eval" THEN 2 ELSE 1,
                       regs, request.ref, request.freq, plan.step)

(* The divider chosen brings the VCO into its octave, 2200 to 4400 MHz, at *)
(* the borders of the dividers too, for each frequency that it can be      *)
(* brought there for.  The programs also accept 33 to 34.375 MHz and 4400  *)
(* to 4500 MHz ("fMAX = 4500 # 4400", core.py:101-105, 113-116,            *)
(* adf4351.cpp:37-58): there the VCO is outside, and all that is promised  *)
(* is the last divider on that side.                                       *)
VcoInRange ==
  pc = "built" =>
    /\ request.freq >= 34375 /\ request.freq <= 4400000
         => request.freq * plan.divider >= 2200000 /\ request.freq * plan.divider <= 4400000
    /\ request.freq < 34375 => plan.divider = 64
    /\ request.freq > 4400000 => plan.divider = 1

(* The calculated values keep to their fields: every word carries the      *)
(* number of its own register, and all other settings unchanged            *)
(* (core.py:243-299, qtgui/adf4351.cpp:111-129); switched off is off.      *)
SettingsKept ==
  /\ pc = "off" => getReg(regs, "VCOPowerDown") = 1 /\ getReg(regs, "outEnable") = 0
  /\ pc = "off" \/ (pc = "built" /\ Representable) => \A r \in Regs : regs[r] % 8 = r
  /\ pc = "built" /\ Representable /\ request.prog # "adf4351-eval"
       => \E o \in Others : \A f \in Unplanned :
            Field(regs[f[1]], f[2], f[3]) = Field(o[f[1]], f[2], f[3])

(***************************************************************************)
(* What the documentation says, which the code does not do                 *)
(***************************************************************************)
(* "This code sets the output frequency to" (README.md:50): a frequency on *)
(* the grid of the default phase detector frequency is met.  Without the   *)
(* GUI's 1e-9 the floor may come out one lower, FRAC is rounded to MOD,    *)
(* both are reduced to 1, and "if MOD == 1: MOD = 2" makes it a half.      *)
LibrarySetsFrequency ==
  pc = "built" /\ request.prog = "core.py"
    => WithinHalfSteps(1, regs, request.ref, request.freq, plan.step)

(* "set initial frequency" (qtgui/README.md:14): the words that the window *)
(* shows are words for the frequency it shows.  A modulus above 4095 is    *)
(* cut, not refused (adf4351.cpp:112-114).                                 *)
GuiSetsFrequency ==
  pc = "built" /\ request.prog = "adf4351.cpp"
    => WithinHalfSteps(1, regs, request.ref, request.freq, plan.step)
=============================================================================
