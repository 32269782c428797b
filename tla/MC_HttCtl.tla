----------------------------- MODULE MC_HttCtl -----------------------------
(***************************************************************************)
(* Small instances of HttCtl: writes to htt_stats_type with no number, a  *)
(* type alone, a type with some and with all four parameters, the reset   *)
(* type and a type past the enum, one of them longer than the buffer;     *)
(* writes to htt_stats_reset at both ends of each bitmap word and past    *)
(* the enum.                                                              *)
(***************************************************************************)
EXTENDS HttCtl, TLC

MCArgs == {<<>>, <<0>>, <<1>>, <<2, 1>>, <<1, 0, 0, 0, 1>>, <<96>>}

MCWriteInputs ==
  {[count |-> 4, args |-> a] : a \in MCArgs} \cup {[count |-> 40, args |-> <<1>>]}

MCResetInputs == {0, 1, 31, 32, 63, 64, 95, 96}

Perms == Permutations(Callers)

=============================================================================
