--------------------------- MODULE MCRegisterPlan ---------------------------
(***************************************************************************)
(* Requests for RegisterPlan: frequencies at the borders of the dividers,  *)
(* of the device and of the phase detector grid, references that give a    *)
(* phase detector frequency on and off the kHz grid, below and above its   *)
(* limits.                                                                 *)
(***************************************************************************)
EXTENDS RegisterPlan

Ask(prog, freq, ref, r) ==
  [prog |-> prog, device |-> "ADF4351", freq |-> freq, ref |-> ref, r |-> r,
   doubler |-> 0, div2 |-> 0, feedback |-> 1, mode |-> 0, band |-> 0]

Freqs == {32999, 33000, 33025, 34374, 34375, 68749, 68750, 100000, 137499, 137500,
          275000, 549999, 1000003, 1099999, 2199999, 2200000, 2200100, 4400000, 4400001, 4500001}

(* R = 250 is the library's default, R = 21 gives a phase detector         *)
(* frequency off the kHz grid, R = 8 one with a fraction that ties.        *)
OnEveryPath ==
  UNION {{[Ask(prog, f, 25, r) EXCEPT !.doubler = d, !.div2 = v, !.feedback = b, !.mode = m,
                                      !.device = dev, !.band = s]
           : prog \in {"core.py", "adf4351.cpp"}, r \in {250, 21, 8}, d \in 0..1, v \in 0..1, b \in 0..1,
             m \in 0..1, dev \in {"ADF4351"}, s \in {0, 200}} : f \in Freqs}

(* Phase detector frequencies above 32 and 90 MHz, both devices.           *)
FastDetector ==
  UNION {{[Ask("core.py", f, ref, 1) EXCEPT !.mode = m, !.device = dev, !.band = s]
           : ref \in {25, 32, 40, 80, 99}, m \in 0..1, dev \in Devices, s \in {0, 80, 200}}
           : f \in {120000, 2400000, 2475000, 2500000}}

(* The command line program's R = 250, and other divisors.                 *)
CommandLine == {Ask("adf4351-eval", f, 25, r) : f \in Freqs, r \in {250, 8, 1}}

PlanRequests == OnEveryPath \cup FastDetector \cup CommandLine

(* The defaults of both programs.  For these frequencies the library's     *)
(* quotient of doubles is less than the whole number it stands for.        *)
LibraryRequests == {Ask("core.py", f, 25, 250) : f \in {33025, 100100, 2200100}}
GuiRequests == {Ask("adf4351.cpp", f, 25, 1) : f \in {1000000, 1000001, 2200100}}

(* Nothing set but the planned fields, and everything else set below 2^30. *)
AllOnes == [r \in Regs |-> CASE r = 0 -> 0
                             [] r = 1 -> 2^29 - 2^15
                             [] r = 2 -> (2^30 - 2^26) + (2^14 - 2^9) + (2^8 - 2^3)
                             [] r = 3 -> 2^23 - 2^3
                             [] r = 4 -> 2^12 - 2^3
                             [] r = 5 -> (2^24 - 2^21) + (2^19 - 2^3)]
PlanOthers == {[r \in Regs |-> 0], AllOnes}
NoOthers == {[r \in Regs |-> 0]}
PlanGarbage == {0, 255, 300}
=============================================================================
