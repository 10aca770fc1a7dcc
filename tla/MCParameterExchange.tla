------------------------ MODULE MCParameterExchange ------------------------
(***************************************************************************)
(* A diamond: the control thread feeds a and b over one port each, both    *)
(* feed c, and a's output also leads past b, directly into d, which is     *)
(* fed by c as well.  d reports back to a top-level parameter output.      *)
(***************************************************************************)
EXTENDS ParameterExchange

CONSTANTS a, b, c, d

MCComponent  == {a, b, c, d}
MCConnection == {"ctl_a", "ctl_b", "a_cd", "b_c", "c_d", "d_ctl"}

MCSender == [k \in MCConnection |->
  CASE k \in {"ctl_a", "ctl_b"} -> Control
    [] k = "a_cd"  -> a
    [] k = "b_c"   -> b
    [] k = "c_d"   -> c
    [] k = "d_ctl" -> d]

MCReceivers == [k \in MCConnection |->
  CASE k = "ctl_a" -> {a}
    [] k = "ctl_b" -> {b}
    [] k = "a_cd"  -> {c, d}
    [] k = "b_c"   -> {c}
    [] k = "c_d"   -> {d}
    [] k = "d_ctl" -> {Control}]

MCSchedule == <<b, a, c, d>>
=============================================================================
