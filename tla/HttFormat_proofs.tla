-------------------------- MODULE HttFormat_proofs --------------------------
(***************************************************************************)
(* Proofs about HttFormat for every buffer size, text length, array size  *)
(* and message: the accumulator's offset stays below                      *)
(* ATH12K_HTT_STATS_BUF_SIZE and print_array_to_buf_index's NUL store     *)
(* lands inside the buffer.  Neither depends on what a formatter writes:  *)
(* only on scnprintf's clamp and on the order of the calls.               *)
(***************************************************************************)
EXTENDS HttFormat, TLAPS

(* OffsetBound and NulInBuffer strengthened: inside print_array_to_buf_   *)
(* index the offset is the formatter's len and offset + index is at least *)
(* 1 (the header wrote a character, or the offset is already past 0), so  *)
(* the index-- store never reaches below the buffer.                      *)
OffInv ==
  /\ blen \in 0..(BufSize - 1)
  /\ len \in Int /\ aoff \in Int /\ aidx \in Int
  /\ pc \in {"tlv", "fmt", "arr", "str", "done"}
  /\ pc \in {"fmt", "arr", "str"} => len \in 0..(BufSize - 1)
  /\ pc = "arr" => /\ aoff = len /\ aidx \in Nat
                   /\ aoff + aidx \in 1..(BufSize - 1)
  /\ nul \in 0..(BufSize - 1)

LEMMA InitOffInv == Init => OffInv
  BY BufSizeAssumption DEF Init, OffInv

LEMMA NextOffInv == OffInv /\ [Next]_vars => OffInv'
<1> SUFFICES ASSUME OffInv, [Next]_vars PROVE OffInv'
  OBVIOUS
<1>0. BufSize \in Nat /\ BufSize >= 2
  BY BufSizeAssumption
<1>1. CASE TlvNext
  <2>1. pc' \in {"done", "fmt"} /\ (pc' = "fmt" => len' = blen)
    <3>1. CASE rem < HdrLen \/ Head(msg).len > rem - HdrLen
      BY <1>1, <3>1 DEF TlvNext
    <3>2. CASE ~(rem < HdrLen \/ Head(msg).len > rem - HdrLen)
      BY <1>1, <3>2 DEF TlvNext
    <3>3. QED
      BY <3>1, <3>2
  <2>2. len' \in Int
    <3>1. CASE rem < HdrLen \/ Head(msg).len > rem - HdrLen
      BY <1>1, <3>1 DEF TlvNext, OffInv
    <3>2. CASE ~(rem < HdrLen \/ Head(msg).len > rem - HdrLen)
      BY <1>1, <3>2 DEF TlvNext, OffInv
    <3>3. QED
      BY <3>1, <3>2
  <2>3. UNCHANGED <<blen, aoff, aidx, nul>>
    BY <1>1 DEF TlvNext, arrVars
  <2>4. QED
    BY <2>1, <2>2, <2>3 DEF OffInv
<1>2. CASE TlvEnd
  BY <1>2 DEF TlvEnd, OffInv, arrVars
<1>3. CASE PutStep
  <2>1. PICK n \in TextLen : len' = len + Scn(BufSize - len, n)
    BY <1>3 DEF PutStep
  <2>2. pc = "fmt" /\ len \in 0..(BufSize - 1)
    BY <1>3 DEF PutStep, OffInv
  <2>3. Scn(BufSize - len, n) \in 0..(BufSize - len - 1)
    BY <1>0, <2>2, TextLenAssumption DEF Scn
  <2>4. len' \in 0..(BufSize - 1)
    BY <1>0, <2>1, <2>2, <2>3
  <2>5. UNCHANGED <<blen, pc, aoff, aidx, nul>>
    BY <1>3 DEF PutStep, arrVars
  <2>6. QED
    BY <2>2, <2>4, <2>5 DEF OffInv
<1>4. CASE ArrBegin
  <2>1. PICK n \in TextLen : aidx' = Scn(BufSize - len, n)
    BY <1>4 DEF ArrBegin
  <2>2. pc = "fmt" /\ len \in 0..(BufSize - 1)
    BY <1>4 DEF ArrBegin, OffInv
  <2>3. /\ Scn(BufSize - len, n) \in 0..(BufSize - len - 1)
        /\ BufSize - len >= 2 => Scn(BufSize - len, n) >= 1
    BY <1>0, <2>2, TextLenAssumption DEF Scn
  <2>4. aoff' = len /\ len' = len /\ pc' = "arr"
    BY <1>4 DEF ArrBegin
  <2>5. aidx' \in Nat /\ aoff' + aidx' \in 1..(BufSize - 1)
    BY <1>0, <2>1, <2>2, <2>3, <2>4
  <2>6. UNCHANGED <<blen, nul>>
    BY <1>4 DEF ArrBegin
  <2>7. blen' \in 0..(BufSize - 1) /\ nul' \in 0..(BufSize - 1)
    BY <2>6 DEF OffInv
  <2>8. len' \in 0..(BufSize - 1) /\ aoff' = len' /\ aidx' \in Nat
    BY <2>2, <2>4, <2>5
  <2>9. pc' = "arr" => /\ aoff' = len' /\ aidx' \in Nat
                        /\ aoff' + aidx' \in 1..(BufSize - 1)
    BY <2>5, <2>8, Zenon
  <2>10. pc' \in {"fmt", "arr", "str"} => len' \in 0..(BufSize - 1)
    BY <2>8
  <2>11. len' \in Int /\ aoff' \in Int /\ aidx' \in Int
    BY <1>0, <2>8
  <2>12. pc' \in {"tlv", "fmt", "arr", "str", "done"}
    BY <2>4
  <2>13. QED
    BY <2>7, <2>9, <2>10, <2>11, <2>12, Zenon DEF OffInv
<1>5. CASE ArrElem
  <2>1. PICK n \in TextLen : aidx' = aidx + Scn((BufSize - aoff) - aidx, n)
    BY <1>5 DEF ArrElem
  <2>2. pc = "arr" /\ aoff = len /\ aidx \in Nat /\ aoff + aidx \in 1..(BufSize - 1)
        /\ len \in 0..(BufSize - 1)
    BY <1>5 DEF ArrElem, OffInv
  <2>3. Scn((BufSize - aoff) - aidx, n) \in 0..((BufSize - aoff) - aidx - 1)
    BY <1>0, <2>2, TextLenAssumption DEF Scn
  <2>4. UNCHANGED <<blen, pc, len, aoff, nul>>
    BY <1>5 DEF ArrElem
  <2>5. aidx' \in Nat /\ aoff' + aidx' \in 1..(BufSize - 1)
    BY <1>0, <2>1, <2>2, <2>3, <2>4
  <2>6. blen' \in 0..(BufSize - 1) /\ nul' \in 0..(BufSize - 1)
    BY <2>4 DEF OffInv
  <2>7. len' \in 0..(BufSize - 1) /\ aoff' = len' /\ pc' = "arr"
    BY <2>2, <2>4
  <2>8. pc' = "arr" => /\ aoff' = len' /\ aidx' \in Nat
                        /\ aoff' + aidx' \in 1..(BufSize - 1)
    BY <2>5, <2>7, Zenon
  <2>9. len' \in Int /\ aoff' \in Int /\ aidx' \in Int
    BY <1>0, <2>5, <2>7
  <2>10. QED
    BY <2>6, <2>7, <2>8, <2>9, Zenon DEF OffInv
<1>6. CASE ArrEnd
  <2>1. PICK n \in TextLen :
          len' = len + ((aidx - 1) + Scn((BufSize - aoff) - (aidx - 1), n))
    BY <1>6 DEF ArrEnd
  <2>2. pc = "arr" /\ aoff = len /\ aidx \in Nat /\ aoff + aidx \in 1..(BufSize - 1)
        /\ len \in 0..(BufSize - 1)
    BY <1>6 DEF ArrEnd, OffInv
  <2>3. /\ Scn((BufSize - aoff) - (aidx - 1), n) \in 0..((BufSize - aoff) - aidx)
        /\ Scn((BufSize - aoff) - (aidx - 1), n) >= 1
    BY <1>0, <2>2, TextLenAssumption DEF Scn
  <2>4. len' \in 0..(BufSize - 1)
    BY <1>0, <2>1, <2>2, <2>3
  <2>5. nul' = aoff + (aidx - 1) /\ pc' = "fmt" /\ UNCHANGED <<blen, aoff, aidx>>
    BY <1>6 DEF ArrEnd, arrVars
  <2>6. nul' \in 0..(BufSize - 1)
    BY <1>0, <2>2, <2>5
  <2>7. QED
    BY <2>2, <2>4, <2>5, <2>6 DEF OffInv
<1>7. CASE StrBegin
  BY <1>7 DEF StrBegin, OffInv, arrVars
<1>8. CASE StrElem
  <2>1. pc' \in {"fmt", "str"}
    BY <1>8 DEF StrElem
  <2>2. UNCHANGED <<blen, len, aoff, aidx, nul>>
    BY <1>8 DEF StrElem, arrVars
  <2>3. pc = "str"
    BY <1>8 DEF StrElem
  <2>4. QED
    BY <2>1, <2>2, <2>3 DEF OffInv
<1>9. CASE StrEnd
  BY <1>9 DEF StrEnd, OffInv, arrVars
<1>10. CASE FmtEnd
  BY <1>10 DEF FmtEnd, OffInv, arrVars
<1>11. CASE UNCHANGED vars
  BY <1>11 DEF vars, OffInv
<1>12. QED
  BY <1>1, <1>2, <1>3, <1>4, <1>5, <1>6, <1>7, <1>8, <1>9, <1>10, <1>11
     DEF Next

(* The offset bound of spec 3 and 4.2 (OffsetBound, checked by the        *)
(* format_core run): every scnprintf and print_array_to_buf_index call of *)
(* every formatter gets a positive size, for every buffer size, text      *)
(* length and message.                                                    *)
THEOREM OffsetSafe == Spec => []OffsetBound
<1>1. Init => OffInv
  BY InitOffInv
<1>2. OffInv /\ [Next]_vars => OffInv'
  BY NextOffInv
<1>3. OffInv => OffsetBound
  BY BufSizeAssumption DEF OffInv, OffsetBound
<1>4. QED
  BY <1>1, <1>2, <1>3, PTL DEF Spec

(* print_array_to_buf_index's index-- and NUL store over the trailing     *)
(* comma (NulInBuffer) land inside the buffer, whatever the offset, even  *)
(* when the buffer was already full and nothing was written.              *)
THEOREM NulSafe == Spec => []NulInBuffer
<1>1. Init => OffInv
  BY InitOffInv
<1>2. OffInv /\ [Next]_vars => OffInv'
  BY NextOffInv
<1>3. OffInv => NulInBuffer
  BY DEF OffInv, NulInBuffer
<1>4. QED
  BY <1>1, <1>2, <1>3, PTL DEF Spec

-----------------------------------------------------------------------------
(***************************************************************************)
(* What a formatter hands the accumulator: a sequence of writes.  These   *)
(* lemmas type the pieces the formatters are built from, and then every  *)
(* formatter of the dispatch.                                              *)
(***************************************************************************)

(* The program of writes of a formatter is a sequence of writes.          *)
FmtOK(f) == f.prog \in Seq(Emits)

LEMMA PutsType == \A m \in Nat : Puts(m) \in Seq(Emits)
  BY DEF Puts, Put, Emits

LEMMA ArrsType == \A k \in Nat : Arrs(k) \in Seq(Emits)
  BY BinsAssumption DEF Arrs, Arr, Emits

LEMMA RepType == \A k \in Nat, s \in Seq(Emits) : Rep(k, s) \in Seq(Emits)
<1> SUFFICES ASSUME NEW k \in Nat, NEW s \in Seq(Emits)
             PROVE  Rep(k, s) \in Seq(Emits)
  OBVIOUS
<1>1. CASE Len(s) = 0
  BY <1>1 DEF Rep
<1>2. CASE Len(s) # 0
  <2>1. \A i \in 1..(k * Len(s)) : ((i - 1) % Len(s)) + 1 \in 1..Len(s)
    BY <1>2
  <2>2. k * Len(s) \in Nat
    OBVIOUS
  <2>3. QED
    BY <2>1, <2>2 DEF Rep
<1>3. QED
  BY <1>1, <1>2

LEMMA ConcatType == \A s, t \in Seq(Emits) : s \o t \in Seq(Emits)
  OBVIOUS

LEMMA EmitsFacts ==
  /\ Put \in Emits
  /\ \A n \in Nat : Arr(n) \in Emits /\ Str(n) \in Emits
  BY DEF Put, Arr, Str, Emits

LEMMA GuardedType ==
  ASSUME NEW tag, NEW tl, NEW p \in Seq(Emits)
  PROVE  FmtOK(Guarded(tag, tl, p))
  BY DEF Guarded, Fmt, Skip, FmtOK

LEMMA ArrFmtType ==
  \A tl \in Nat : FmtOK(ClampedArr(tl)) /\ FmtOK(UnclampedArr(tl))
<1> SUFFICES ASSUME NEW tl \in Nat
             PROVE  FmtOK(ClampedArr(tl)) /\ FmtOK(UnclampedArr(tl))
  OBVIOUS
<1>1. MinU(tl \div 4, Bins) \in Nat /\ tl \div 4 \in Nat
  BY BinsAssumption DEF MinU
<1>2. \A n \in Nat : <<Put, Arr(n)>> \in Seq(Emits)
  BY EmitsFacts
<1>3. QED
  BY <1>1, <1>2 DEF ClampedArr, UnclampedArr, Fmt, FmtOK

(* Every formatter of the dispatch but the hw_war one hands the            *)
(* accumulator a sequence of writes, whatever the record's length.        *)
LEMMA FormattersType ==
  ASSUME NEW tl \in Nat, NEW off, NEW hw \in BOOLEAN, NEW sel
  PROVE  /\ FmtOK(htt_print_tx_pdev_stats_cmn_tlv(tl))
     /\ FmtOK(htt_print_tx_pdev_stats_urrn_tlv(tl))
     /\ FmtOK(htt_print_tx_pdev_stats_sifs_tlv(tl))
     /\ FmtOK(htt_print_tx_pdev_stats_flush_tlv(tl))
     /\ FmtOK(htt_print_tx_pdev_stats_sifs_hist_tlv(tl))
     /\ FmtOK(htt_print_pdev_ctrl_path_tx_stats_tlv(tl, off))
     /\ FmtOK(htt_print_tx_pdev_mu_ppdu_dist_stats_tlv(tl, hw))
     /\ FmtOK(ath12k_htt_print_stats_tx_sched_cmn_tlv(tl))
     /\ FmtOK(ath12k_htt_print_tx_pdev_stats_sched_per_txq_tlv(tl))
     /\ FmtOK(ath12k_htt_print_sched_txq_cmd_posted_tlv(tl))
     /\ FmtOK(ath12k_htt_print_sched_txq_cmd_reaped_tlv(tl))
     /\ FmtOK(ath12k_htt_print_sched_txq_sched_order_su_tlv(tl))
     /\ FmtOK(ath12k_htt_print_sched_txq_sched_ineligibility_tlv(tl))
     /\ FmtOK(ath12k_htt_print_sched_txq_supercycle_trigger_tlv(tl))
     /\ FmtOK(ath12k_htt_print_hw_stats_pdev_errs_tlv(tl))
     /\ FmtOK(ath12k_htt_print_hw_stats_intr_misc_tlv(tl))
     /\ FmtOK(ath12k_htt_print_hw_stats_whal_tx_tlv(tl))
     /\ FmtOK(ath12k_htt_print_tx_tqm_cmn_stats_tlv(tl))
     /\ FmtOK(ath12k_htt_print_tx_tqm_error_stats_tlv(tl))
     /\ FmtOK(ath12k_htt_print_tx_tqm_gen_mpdu_stats_tlv(tl))
     /\ FmtOK(ath12k_htt_print_tx_tqm_list_mpdu_stats_tlv(tl))
     /\ FmtOK(ath12k_htt_print_tx_tqm_list_mpdu_cnt_tlv(tl))
     /\ FmtOK(ath12k_htt_print_tx_tqm_pdev_stats_tlv(tl))
     /\ FmtOK(ath12k_htt_print_tx_de_cmn_stats_tlv(tl))
     /\ FmtOK(ath12k_htt_print_tx_de_eapol_packets_stats_tlv(tl))
     /\ FmtOK(ath12k_htt_print_tx_de_classify_stats_tlv(tl))
     /\ FmtOK(ath12k_htt_print_tx_de_classify_failed_stats_tlv(tl))
     /\ FmtOK(ath12k_htt_print_tx_de_classify_status_stats_tlv(tl))
     /\ FmtOK(ath12k_htt_print_tx_de_enqueue_packets_stats_tlv(tl))
     /\ FmtOK(ath12k_htt_print_tx_de_enqueue_discard_stats_tlv(tl))
     /\ FmtOK(ath12k_htt_print_tx_de_compl_stats_tlv(tl))
     /\ FmtOK(ath12k_htt_print_tx_selfgen_cmn_stats_tlv(tl))
     /\ FmtOK(ath12k_htt_print_tx_selfgen_ac_stats_tlv(tl))
     /\ FmtOK(ath12k_htt_print_tx_selfgen_ax_stats_tlv(tl))
     /\ FmtOK(ath12k_htt_print_tx_selfgen_be_stats_tlv(tl))
     /\ FmtOK(ath12k_htt_print_tx_selfgen_ac_err_stats_tlv(tl))
     /\ FmtOK(ath12k_htt_print_tx_selfgen_ax_err_stats_tlv(tl))
     /\ FmtOK(ath12k_htt_print_tx_selfgen_be_err_stats_tlv(tl))
     /\ FmtOK(ath12k_htt_print_tx_selfgen_ac_sched_status_stats_tlv(tl))
     /\ FmtOK(ath12k_htt_print_tx_selfgen_ax_sched_status_stats_tlv(tl))
     /\ FmtOK(ath12k_htt_print_tx_selfgen_be_sched_status_stats_tlv(tl))
     /\ FmtOK(ath12k_htt_print_stats_string_tlv(tl))
     /\ FmtOK(ath12k_htt_print_sring_stats_tlv(tl))
     /\ FmtOK(ath12k_htt_print_sfm_cmn_tlv(tl))
     /\ FmtOK(ath12k_htt_print_sfm_client_tlv(tl))
     /\ FmtOK(ath12k_htt_print_sfm_client_user_tlv(tl))
     /\ FmtOK(ath12k_htt_print_tx_pdev_mu_mimo_sch_stats_tlv(tl))
     /\ FmtOK(ath12k_htt_print_tx_pdev_mumimo_grp_stats_tlv(tl))
     /\ FmtOK(ath12k_htt_print_tx_pdev_mu_mimo_mpdu_stats_tlv(tl, sel))
     /\ FmtOK(ath12k_htt_print_pdev_cca_stats_hist_tlv(tl))
     /\ FmtOK(ath12k_htt_print_pdev_stats_cca_counters_tlv(tl))
     /\ FmtOK(ath12k_htt_print_pdev_obss_pd_stats_tlv(tl))
     /\ FmtOK(ath12k_htt_print_dmac_reset_stats_tlv(tl))
     /\ FmtOK(ath12k_htt_print_pdev_sched_algo_ofdma_stats_tlv(tl))
     /\ FmtOK(ath12k_htt_print_tx_pdev_rate_stats_be_ofdma_tlv(tl))
<1> USE DEF FmtOK
<1>1. FmtOK(htt_print_tx_pdev_stats_cmn_tlv(tl))
  BY PutsType, ArrsType, RepType, ConcatType, EmitsFacts, GuardedType, ArrFmtType, BinsAssumption DEF htt_print_tx_pdev_stats_cmn_tlv
<1>2. FmtOK(htt_print_tx_pdev_stats_urrn_tlv(tl))
  BY PutsType, ArrsType, RepType, ConcatType, EmitsFacts, GuardedType, ArrFmtType, BinsAssumption DEF htt_print_tx_pdev_stats_urrn_tlv
<1>3. FmtOK(htt_print_tx_pdev_stats_sifs_tlv(tl))
  BY PutsType, ArrsType, RepType, ConcatType, EmitsFacts, GuardedType, ArrFmtType, BinsAssumption DEF htt_print_tx_pdev_stats_sifs_tlv
<1>4. FmtOK(htt_print_tx_pdev_stats_flush_tlv(tl))
  BY PutsType, ArrsType, RepType, ConcatType, EmitsFacts, GuardedType, ArrFmtType, BinsAssumption DEF htt_print_tx_pdev_stats_flush_tlv
<1>5. FmtOK(htt_print_tx_pdev_stats_sifs_hist_tlv(tl))
  BY PutsType, ArrsType, RepType, ConcatType, EmitsFacts, GuardedType, ArrFmtType, BinsAssumption DEF htt_print_tx_pdev_stats_sifs_hist_tlv
<1>6. FmtOK(htt_print_pdev_ctrl_path_tx_stats_tlv(tl, off))
  BY PutsType, ArrsType, RepType, ConcatType, EmitsFacts, GuardedType, ArrFmtType, BinsAssumption DEF htt_print_pdev_ctrl_path_tx_stats_tlv, Fmt, Skip, FmtOK
<1>7. FmtOK(htt_print_tx_pdev_mu_ppdu_dist_stats_tlv(tl, hw))
  <2>1. (IF hw THEN Puts(1 + 4 * Bins) ELSE <<>>) \in Seq(Emits)
    <3>1. 1 + 4 * Bins \in Nat
      BY BinsAssumption
    <3>2. Puts(1 + 4 * Bins) \in Seq(Emits) /\ <<>> \in Seq(Emits)
      BY <3>1, PutsType
    <3>3. QED
      BY <3>2, Zenon
  <2>2. QED
    BY <2>1, GuardedType DEF htt_print_tx_pdev_mu_ppdu_dist_stats_tlv
<1>8. FmtOK(ath12k_htt_print_stats_tx_sched_cmn_tlv(tl))
  BY PutsType, ArrsType, RepType, ConcatType, EmitsFacts, GuardedType, ArrFmtType, BinsAssumption DEF ath12k_htt_print_stats_tx_sched_cmn_tlv
<1>9. FmtOK(ath12k_htt_print_tx_pdev_stats_sched_per_txq_tlv(tl))
  BY PutsType, ArrsType, RepType, ConcatType, EmitsFacts, GuardedType, ArrFmtType, BinsAssumption DEF ath12k_htt_print_tx_pdev_stats_sched_per_txq_tlv
<1>10. FmtOK(ath12k_htt_print_sched_txq_cmd_posted_tlv(tl))
  BY PutsType, ArrsType, RepType, ConcatType, EmitsFacts, GuardedType, ArrFmtType, BinsAssumption DEF ath12k_htt_print_sched_txq_cmd_posted_tlv
<1>11. FmtOK(ath12k_htt_print_sched_txq_cmd_reaped_tlv(tl))
  BY PutsType, ArrsType, RepType, ConcatType, EmitsFacts, GuardedType, ArrFmtType, BinsAssumption DEF ath12k_htt_print_sched_txq_cmd_reaped_tlv
<1>12. FmtOK(ath12k_htt_print_sched_txq_sched_order_su_tlv(tl))
  BY PutsType, ArrsType, RepType, ConcatType, EmitsFacts, GuardedType, ArrFmtType, BinsAssumption DEF ath12k_htt_print_sched_txq_sched_order_su_tlv
<1>13. FmtOK(ath12k_htt_print_sched_txq_sched_ineligibility_tlv(tl))
  BY PutsType, ArrsType, RepType, ConcatType, EmitsFacts, GuardedType, ArrFmtType, BinsAssumption DEF ath12k_htt_print_sched_txq_sched_ineligibility_tlv
<1>14. FmtOK(ath12k_htt_print_sched_txq_supercycle_trigger_tlv(tl))
  BY PutsType, ArrsType, RepType, ConcatType, EmitsFacts, GuardedType, ArrFmtType, BinsAssumption DEF ath12k_htt_print_sched_txq_supercycle_trigger_tlv
<1>15. FmtOK(ath12k_htt_print_hw_stats_pdev_errs_tlv(tl))
  BY PutsType, ArrsType, RepType, ConcatType, EmitsFacts, GuardedType, ArrFmtType, BinsAssumption DEF ath12k_htt_print_hw_stats_pdev_errs_tlv
<1>16. FmtOK(ath12k_htt_print_hw_stats_intr_misc_tlv(tl))
  BY PutsType, ArrsType, RepType, ConcatType, EmitsFacts, GuardedType, ArrFmtType, BinsAssumption DEF ath12k_htt_print_hw_stats_intr_misc_tlv
<1>17. FmtOK(ath12k_htt_print_hw_stats_whal_tx_tlv(tl))
  BY PutsType, ArrsType, RepType, ConcatType, EmitsFacts, GuardedType, ArrFmtType, BinsAssumption DEF ath12k_htt_print_hw_stats_whal_tx_tlv
<1>18. FmtOK(ath12k_htt_print_tx_tqm_cmn_stats_tlv(tl))
  BY PutsType, ArrsType, RepType, ConcatType, EmitsFacts, GuardedType, ArrFmtType, BinsAssumption DEF ath12k_htt_print_tx_tqm_cmn_stats_tlv
<1>19. FmtOK(ath12k_htt_print_tx_tqm_error_stats_tlv(tl))
  BY PutsType, ArrsType, RepType, ConcatType, EmitsFacts, GuardedType, ArrFmtType, BinsAssumption DEF ath12k_htt_print_tx_tqm_error_stats_tlv
<1>20. FmtOK(ath12k_htt_print_tx_tqm_gen_mpdu_stats_tlv(tl))
  BY PutsType, ArrsType, RepType, ConcatType, EmitsFacts, GuardedType, ArrFmtType, BinsAssumption DEF ath12k_htt_print_tx_tqm_gen_mpdu_stats_tlv
<1>21. FmtOK(ath12k_htt_print_tx_tqm_list_mpdu_stats_tlv(tl))
  BY PutsType, ArrsType, RepType, ConcatType, EmitsFacts, GuardedType, ArrFmtType, BinsAssumption DEF ath12k_htt_print_tx_tqm_list_mpdu_stats_tlv
<1>22. FmtOK(ath12k_htt_print_tx_tqm_list_mpdu_cnt_tlv(tl))
  BY PutsType, ArrsType, RepType, ConcatType, EmitsFacts, GuardedType, ArrFmtType, BinsAssumption DEF ath12k_htt_print_tx_tqm_list_mpdu_cnt_tlv
<1>23. FmtOK(ath12k_htt_print_tx_tqm_pdev_stats_tlv(tl))
  BY PutsType, ArrsType, RepType, ConcatType, EmitsFacts, GuardedType, ArrFmtType, BinsAssumption DEF ath12k_htt_print_tx_tqm_pdev_stats_tlv
<1>24. FmtOK(ath12k_htt_print_tx_de_cmn_stats_tlv(tl))
  BY PutsType, ArrsType, RepType, ConcatType, EmitsFacts, GuardedType, ArrFmtType, BinsAssumption DEF ath12k_htt_print_tx_de_cmn_stats_tlv
<1>25. FmtOK(ath12k_htt_print_tx_de_eapol_packets_stats_tlv(tl))
  BY PutsType, ArrsType, RepType, ConcatType, EmitsFacts, GuardedType, ArrFmtType, BinsAssumption DEF ath12k_htt_print_tx_de_eapol_packets_stats_tlv
<1>26. FmtOK(ath12k_htt_print_tx_de_classify_stats_tlv(tl))
  BY PutsType, ArrsType, RepType, ConcatType, EmitsFacts, GuardedType, ArrFmtType, BinsAssumption DEF ath12k_htt_print_tx_de_classify_stats_tlv
<1>27. FmtOK(ath12k_htt_print_tx_de_classify_failed_stats_tlv(tl))
  BY PutsType, ArrsType, RepType, ConcatType, EmitsFacts, GuardedType, ArrFmtType, BinsAssumption DEF ath12k_htt_print_tx_de_classify_failed_stats_tlv
<1>28. FmtOK(ath12k_htt_print_tx_de_classify_status_stats_tlv(tl))
  BY PutsType, ArrsType, RepType, ConcatType, EmitsFacts, GuardedType, ArrFmtType, BinsAssumption DEF ath12k_htt_print_tx_de_classify_status_stats_tlv
<1>29. FmtOK(ath12k_htt_print_tx_de_enqueue_packets_stats_tlv(tl))
  BY PutsType, ArrsType, RepType, ConcatType, EmitsFacts, GuardedType, ArrFmtType, BinsAssumption DEF ath12k_htt_print_tx_de_enqueue_packets_stats_tlv
<1>30. FmtOK(ath12k_htt_print_tx_de_enqueue_discard_stats_tlv(tl))
  BY PutsType, ArrsType, RepType, ConcatType, EmitsFacts, GuardedType, ArrFmtType, BinsAssumption DEF ath12k_htt_print_tx_de_enqueue_discard_stats_tlv
<1>31. FmtOK(ath12k_htt_print_tx_de_compl_stats_tlv(tl))
  BY PutsType, ArrsType, RepType, ConcatType, EmitsFacts, GuardedType, ArrFmtType, BinsAssumption DEF ath12k_htt_print_tx_de_compl_stats_tlv
<1>32. FmtOK(ath12k_htt_print_tx_selfgen_cmn_stats_tlv(tl))
  BY PutsType, ArrsType, RepType, ConcatType, EmitsFacts, GuardedType, ArrFmtType, BinsAssumption DEF ath12k_htt_print_tx_selfgen_cmn_stats_tlv
<1>33. FmtOK(ath12k_htt_print_tx_selfgen_ac_stats_tlv(tl))
  BY PutsType, ArrsType, RepType, ConcatType, EmitsFacts, GuardedType, ArrFmtType, BinsAssumption DEF ath12k_htt_print_tx_selfgen_ac_stats_tlv
<1>34. FmtOK(ath12k_htt_print_tx_selfgen_ax_stats_tlv(tl))
  BY PutsType, ArrsType, RepType, ConcatType, EmitsFacts, GuardedType, ArrFmtType, BinsAssumption DEF ath12k_htt_print_tx_selfgen_ax_stats_tlv
<1>35. FmtOK(ath12k_htt_print_tx_selfgen_be_stats_tlv(tl))
  BY PutsType, ArrsType, RepType, ConcatType, EmitsFacts, GuardedType, ArrFmtType, BinsAssumption DEF ath12k_htt_print_tx_selfgen_be_stats_tlv
<1>36. FmtOK(ath12k_htt_print_tx_selfgen_ac_err_stats_tlv(tl))
  BY PutsType, ArrsType, RepType, ConcatType, EmitsFacts, GuardedType, ArrFmtType, BinsAssumption DEF ath12k_htt_print_tx_selfgen_ac_err_stats_tlv
<1>37. FmtOK(ath12k_htt_print_tx_selfgen_ax_err_stats_tlv(tl))
  BY PutsType, ArrsType, RepType, ConcatType, EmitsFacts, GuardedType, ArrFmtType, BinsAssumption DEF ath12k_htt_print_tx_selfgen_ax_err_stats_tlv
<1>38. FmtOK(ath12k_htt_print_tx_selfgen_be_err_stats_tlv(tl))
  BY PutsType, ArrsType, RepType, ConcatType, EmitsFacts, GuardedType, ArrFmtType, BinsAssumption DEF ath12k_htt_print_tx_selfgen_be_err_stats_tlv
<1>39. FmtOK(ath12k_htt_print_tx_selfgen_ac_sched_status_stats_tlv(tl))
  BY PutsType, ArrsType, RepType, ConcatType, EmitsFacts, GuardedType, ArrFmtType, BinsAssumption DEF ath12k_htt_print_tx_selfgen_ac_sched_status_stats_tlv
<1>40. FmtOK(ath12k_htt_print_tx_selfgen_ax_sched_status_stats_tlv(tl))
  BY PutsType, ArrsType, RepType, ConcatType, EmitsFacts, GuardedType, ArrFmtType, BinsAssumption DEF ath12k_htt_print_tx_selfgen_ax_sched_status_stats_tlv
<1>41. FmtOK(ath12k_htt_print_tx_selfgen_be_sched_status_stats_tlv(tl))
  BY PutsType, ArrsType, RepType, ConcatType, EmitsFacts, GuardedType, ArrFmtType, BinsAssumption DEF ath12k_htt_print_tx_selfgen_be_sched_status_stats_tlv
<1>42. FmtOK(ath12k_htt_print_stats_string_tlv(tl))
  BY PutsType, ArrsType, RepType, ConcatType, EmitsFacts, GuardedType, ArrFmtType, BinsAssumption DEF ath12k_htt_print_stats_string_tlv, Fmt, Skip, FmtOK
<1>43. FmtOK(ath12k_htt_print_sring_stats_tlv(tl))
  BY PutsType, ArrsType, RepType, ConcatType, EmitsFacts, GuardedType, ArrFmtType, BinsAssumption DEF ath12k_htt_print_sring_stats_tlv
<1>44. FmtOK(ath12k_htt_print_sfm_cmn_tlv(tl))
  BY PutsType, ArrsType, RepType, ConcatType, EmitsFacts, GuardedType, ArrFmtType, BinsAssumption DEF ath12k_htt_print_sfm_cmn_tlv
<1>45. FmtOK(ath12k_htt_print_sfm_client_tlv(tl))
  BY PutsType, ArrsType, RepType, ConcatType, EmitsFacts, GuardedType, ArrFmtType, BinsAssumption DEF ath12k_htt_print_sfm_client_tlv
<1>46. FmtOK(ath12k_htt_print_sfm_client_user_tlv(tl))
  BY PutsType, ArrsType, RepType, ConcatType, EmitsFacts, GuardedType, ArrFmtType, BinsAssumption DEF ath12k_htt_print_sfm_client_user_tlv
<1>47. FmtOK(ath12k_htt_print_tx_pdev_mu_mimo_sch_stats_tlv(tl))
  <2>1. /\ Puts(1) \in Seq(Emits) /\ Puts(2) \in Seq(Emits)
        /\ Puts(4) \in Seq(Emits) /\ Puts(5) \in Seq(Emits)
    BY PutsType
  <2>2. Bins \in Nat /\ Bins - 1 \in Nat
    BY BinsAssumption
  <2>3. /\ Rep(Bins, Puts(2)) \in Seq(Emits) /\ Rep(Bins - 1, Puts(2)) \in Seq(Emits)
        /\ Rep(Bins, Puts(5)) \in Seq(Emits)
    BY <2>1, <2>2, RepType
  <2>4. /\ Puts(1) \o Rep(Bins - 1, Puts(2)) \in Seq(Emits)
        /\ Puts(1) \o Rep(Bins, Puts(2)) \in Seq(Emits)
        /\ Puts(1) \o Rep(Bins, Puts(5)) \in Seq(Emits)
    BY <2>1, <2>3, ConcatType
  <2>5. QED
    BY <2>1, <2>3, <2>4, ConcatType, GuardedType
       DEF ath12k_htt_print_tx_pdev_mu_mimo_sch_stats_tlv
<1>48. FmtOK(ath12k_htt_print_tx_pdev_mumimo_grp_stats_tlv(tl))
  <2>1. Puts(1) \in Seq(Emits) /\ Arrs(1) \in Seq(Emits) /\ Arrs(3) \in Seq(Emits)
    BY PutsType, ArrsType
  <2>2. Rep(Bins, Puts(1) \o Arrs(1)) \in Seq(Emits)
    <3>1. Puts(1) \o Arrs(1) \in Seq(Emits)
      BY <2>1, ConcatType
    <3>2. Bins \in Nat
      BY BinsAssumption
    <3>3. QED
      BY <3>1, <3>2, RepType
  <2>3. QED
    BY <2>1, <2>2, ConcatType, GuardedType
       DEF ath12k_htt_print_tx_pdev_mumimo_grp_stats_tlv
<1>49. FmtOK(ath12k_htt_print_tx_pdev_mu_mimo_mpdu_stats_tlv(tl, sel))
  <2>1. Puts(8) \in Seq(Emits) /\ Puts(7) \in Seq(Emits) /\ <<>> \in Seq(Emits)
    BY PutsType
  <2>2. (CASE sel = 0 -> Puts(8) [] sel = 1 -> Puts(7) [] OTHER -> <<>>) \in Seq(Emits)
    BY <2>1, Zenon
  <2>3. QED
    BY <2>2, GuardedType DEF ath12k_htt_print_tx_pdev_mu_mimo_mpdu_stats_tlv
<1>50. FmtOK(ath12k_htt_print_pdev_cca_stats_hist_tlv(tl))
  BY PutsType, ArrsType, RepType, ConcatType, EmitsFacts, GuardedType, ArrFmtType, BinsAssumption DEF ath12k_htt_print_pdev_cca_stats_hist_tlv
<1>51. FmtOK(ath12k_htt_print_pdev_stats_cca_counters_tlv(tl))
  BY PutsType, ArrsType, RepType, ConcatType, EmitsFacts, GuardedType, ArrFmtType, BinsAssumption DEF ath12k_htt_print_pdev_stats_cca_counters_tlv
<1>52. FmtOK(ath12k_htt_print_pdev_obss_pd_stats_tlv(tl))
  <2>1. Puts(15) \in Seq(Emits) /\ Puts(5) \in Seq(Emits)
    BY PutsType
  <2>2. Rep(Bins, Puts(5)) \in Seq(Emits)
    BY <2>1, RepType, BinsAssumption
  <2>3. QED
    BY <2>1, <2>2, ConcatType, GuardedType DEF ath12k_htt_print_pdev_obss_pd_stats_tlv
<1>53. FmtOK(ath12k_htt_print_dmac_reset_stats_tlv(tl))
  BY PutsType, ArrsType, RepType, ConcatType, EmitsFacts, GuardedType, ArrFmtType, BinsAssumption DEF ath12k_htt_print_dmac_reset_stats_tlv
<1>54. FmtOK(ath12k_htt_print_pdev_sched_algo_ofdma_stats_tlv(tl))
  BY PutsType, ArrsType, RepType, ConcatType, EmitsFacts, GuardedType, ArrFmtType, BinsAssumption DEF ath12k_htt_print_pdev_sched_algo_ofdma_stats_tlv
<1>55. FmtOK(ath12k_htt_print_tx_pdev_rate_stats_be_ofdma_tlv(tl))
  <2>1. /\ Puts(1) \in Seq(Emits) /\ Puts(3) \in Seq(Emits)
        /\ Arrs(1) \in Seq(Emits) /\ Arrs(2) \in Seq(Emits)
    BY PutsType, ArrsType
  <2>2. Rep(Bins, Puts(1)) \in Seq(Emits) /\ Rep(Bins, Puts(1) \o Arrs(1)) \in Seq(Emits)
    <3>1. Puts(1) \o Arrs(1) \in Seq(Emits)
      BY <2>1, ConcatType
    <3>2. Bins \in Nat
      BY BinsAssumption
    <3>3. QED
      BY <2>1, <3>1, <3>2, RepType
  <2>3. QED
    BY <2>1, <2>2, ConcatType, GuardedType
       DEF ath12k_htt_print_tx_pdev_rate_stats_be_ofdma_tlv
<1>56. QED
  BY <1>1, <1>2, <1>3, <1>4, <1>5, <1>6, <1>7, <1>8, <1>9, <1>10, <1>11, <1>12, <1>13, <1>14, <1>15, <1>16, <1>17, <1>18, <1>19, <1>20, <1>21, <1>22, <1>23, <1>24, <1>25, <1>26, <1>27, <1>28, <1>29, <1>30, <1>31, <1>32, <1>33, <1>34, <1>35, <1>36, <1>37, <1>38, <1>39, <1>40, <1>41, <1>42, <1>43, <1>44, <1>45, <1>46, <1>47, <1>48, <1>49, <1>50, <1>51, <1>52, <1>53, <1>54, <1>55

(* The hw_war formatter: its word count is (tag_len - sizeof) >> 2 as a  *)
(* u8, a natural number when tag_len reaches the structure size.          *)
LEMMA HwWarType ==
  ASSUME NEW tl \in Nat, "HW_WAR" \in DOMAIN Sizeof
  PROVE  FmtOK(ath12k_htt_print_hw_war_tlv(tl))
<1>1. Sizeof["HW_WAR"] \in Nat
  BY SizeofAssumption
<1>2. CASE tl < Sizeof["HW_WAR"]
  BY <1>2 DEF ath12k_htt_print_hw_war_tlv, Skip, Fmt, FmtOK
<1>3. CASE ~(tl < Sizeof["HW_WAR"])
  <2>1. 2 + (((tl - Sizeof["HW_WAR"]) \div 4) % U8) \in Nat
    BY <1>1, <1>3 DEF U8
  <2>2. QED
    BY <1>3, <2>1, PutsType DEF ath12k_htt_print_hw_war_tlv, Fmt, FmtOK
<1>4. QED
  BY <1>2, <1>3

(* ath12k_dbg_htt_ext_stats_parse hands the accumulator a sequence of     *)
(* writes for every record, a known tag or not.                           *)
LEMMA DispatchType ==
  ASSUME NEW rec \in TlvRec, NEW off
  PROVE  FmtOK(Dispatch(rec, off))
<1>1. rec.len \in Nat /\ (rec.sel # 2) \in BOOLEAN /\ rec.tag \in DOMAIN Sizeof
  BY DEF TlvRec
<1>2. /\ FmtOK(htt_print_tx_pdev_stats_cmn_tlv(rec.len))
        /\ FmtOK(htt_print_tx_pdev_stats_urrn_tlv(rec.len))
        /\ FmtOK(htt_print_tx_pdev_stats_sifs_tlv(rec.len))
        /\ FmtOK(htt_print_tx_pdev_stats_flush_tlv(rec.len))
        /\ FmtOK(htt_print_tx_pdev_stats_sifs_hist_tlv(rec.len))
        /\ FmtOK(htt_print_pdev_ctrl_path_tx_stats_tlv(rec.len, off))
        /\ FmtOK(htt_print_tx_pdev_mu_ppdu_dist_stats_tlv(rec.len, rec.sel # 2))
        /\ FmtOK(ath12k_htt_print_stats_tx_sched_cmn_tlv(rec.len))
        /\ FmtOK(ath12k_htt_print_tx_pdev_stats_sched_per_txq_tlv(rec.len))
        /\ FmtOK(ath12k_htt_print_sched_txq_cmd_posted_tlv(rec.len))
        /\ FmtOK(ath12k_htt_print_sched_txq_cmd_reaped_tlv(rec.len))
        /\ FmtOK(ath12k_htt_print_sched_txq_sched_order_su_tlv(rec.len))
        /\ FmtOK(ath12k_htt_print_sched_txq_sched_ineligibility_tlv(rec.len))
        /\ FmtOK(ath12k_htt_print_sched_txq_supercycle_trigger_tlv(rec.len))
        /\ FmtOK(ath12k_htt_print_hw_stats_pdev_errs_tlv(rec.len))
        /\ FmtOK(ath12k_htt_print_hw_stats_intr_misc_tlv(rec.len))
        /\ FmtOK(ath12k_htt_print_hw_stats_whal_tx_tlv(rec.len))
        /\ FmtOK(ath12k_htt_print_tx_tqm_cmn_stats_tlv(rec.len))
        /\ FmtOK(ath12k_htt_print_tx_tqm_error_stats_tlv(rec.len))
        /\ FmtOK(ath12k_htt_print_tx_tqm_gen_mpdu_stats_tlv(rec.len))
        /\ FmtOK(ath12k_htt_print_tx_tqm_list_mpdu_stats_tlv(rec.len))
        /\ FmtOK(ath12k_htt_print_tx_tqm_list_mpdu_cnt_tlv(rec.len))
        /\ FmtOK(ath12k_htt_print_tx_tqm_pdev_stats_tlv(rec.len))
        /\ FmtOK(ath12k_htt_print_tx_de_cmn_stats_tlv(rec.len))
        /\ FmtOK(ath12k_htt_print_tx_de_eapol_packets_stats_tlv(rec.len))
        /\ FmtOK(ath12k_htt_print_tx_de_classify_stats_tlv(rec.len))
        /\ FmtOK(ath12k_htt_print_tx_de_classify_failed_stats_tlv(rec.len))
        /\ FmtOK(ath12k_htt_print_tx_de_classify_status_stats_tlv(rec.len))
        /\ FmtOK(ath12k_htt_print_tx_de_enqueue_packets_stats_tlv(rec.len))
        /\ FmtOK(ath12k_htt_print_tx_de_enqueue_discard_stats_tlv(rec.len))
        /\ FmtOK(ath12k_htt_print_tx_de_compl_stats_tlv(rec.len))
        /\ FmtOK(ath12k_htt_print_tx_selfgen_cmn_stats_tlv(rec.len))
        /\ FmtOK(ath12k_htt_print_tx_selfgen_ac_stats_tlv(rec.len))
        /\ FmtOK(ath12k_htt_print_tx_selfgen_ax_stats_tlv(rec.len))
        /\ FmtOK(ath12k_htt_print_tx_selfgen_be_stats_tlv(rec.len))
        /\ FmtOK(ath12k_htt_print_tx_selfgen_ac_err_stats_tlv(rec.len))
        /\ FmtOK(ath12k_htt_print_tx_selfgen_ax_err_stats_tlv(rec.len))
        /\ FmtOK(ath12k_htt_print_tx_selfgen_be_err_stats_tlv(rec.len))
        /\ FmtOK(ath12k_htt_print_tx_selfgen_ac_sched_status_stats_tlv(rec.len))
        /\ FmtOK(ath12k_htt_print_tx_selfgen_ax_sched_status_stats_tlv(rec.len))
        /\ FmtOK(ath12k_htt_print_tx_selfgen_be_sched_status_stats_tlv(rec.len))
        /\ FmtOK(ath12k_htt_print_stats_string_tlv(rec.len))
        /\ FmtOK(ath12k_htt_print_sring_stats_tlv(rec.len))
        /\ FmtOK(ath12k_htt_print_sfm_cmn_tlv(rec.len))
        /\ FmtOK(ath12k_htt_print_sfm_client_tlv(rec.len))
        /\ FmtOK(ath12k_htt_print_sfm_client_user_tlv(rec.len))
        /\ FmtOK(ath12k_htt_print_tx_pdev_mu_mimo_sch_stats_tlv(rec.len))
        /\ FmtOK(ath12k_htt_print_tx_pdev_mumimo_grp_stats_tlv(rec.len))
        /\ FmtOK(ath12k_htt_print_tx_pdev_mu_mimo_mpdu_stats_tlv(rec.len, rec.sel))
        /\ FmtOK(ath12k_htt_print_pdev_cca_stats_hist_tlv(rec.len))
        /\ FmtOK(ath12k_htt_print_pdev_stats_cca_counters_tlv(rec.len))
        /\ FmtOK(ath12k_htt_print_pdev_obss_pd_stats_tlv(rec.len))
        /\ FmtOK(ath12k_htt_print_dmac_reset_stats_tlv(rec.len))
        /\ FmtOK(ath12k_htt_print_pdev_sched_algo_ofdma_stats_tlv(rec.len))
        /\ FmtOK(ath12k_htt_print_tx_pdev_rate_stats_be_ofdma_tlv(rec.len))
  BY <1>1, FormattersType
<1>3. rec.tag = "HW_WAR" => FmtOK(ath12k_htt_print_hw_war_tlv(rec.len))
  BY <1>1, HwWarType
<1>4. FmtOK(Skip)
  BY DEF Skip, Fmt, FmtOK
<1>5. QED
  BY <1>2, <1>3, <1>4, Zenon DEF Dispatch

-----------------------------------------------------------------------------
(* TypeOK strengthened by OffInv (which gives the offsets their range)    *)
(* and by the fact that inside a loop the write that started it is still  *)
(* at the head of the formatter's program.                                *)
TypeInv ==
  /\ TypeOK
  /\ OffInv
  /\ pc \in {"arr", "str"} => prog # <<>>

(* scnprintf into a buffer of a positive size returns less than the size. *)
LEMMA ScnRange ==
  ASSUME NEW size \in Nat \ {0}, NEW n \in Nat
  PROVE  Scn(size, n) \in 0..(size - 1)
  BY DEF Scn

LEMMA InitTypeInv == Init => TypeInv
<1> SUFFICES ASSUME Init PROVE TypeInv
  OBVIOUS
<1>1. msg \in Seq(TlvRec) /\ rem \in Int
  BY MsgsAssumption DEF Init
<1>2. blen \in Nat /\ sidx \in 0..(MaxStr - 1) /\ prog \in Seq(Emits)
      /\ ai \in 0..(U8 - 1) /\ si \in 0..(U8 - 1)
  BY MaxStrAssumption, BufSizeAssumption DEF Init, U8
<1>3. /\ pc \in {"tlv", "fmt", "arr", "str", "done"}
      /\ len \in Nat /\ aoff \in Nat /\ aidx \in Int /\ an \in Nat
      /\ sn \in Nat /\ nul \in Int /\ over \in BOOLEAN
  <2>1. /\ pc = "tlv" /\ len = 0 /\ aoff = 0 /\ aidx = 0 /\ an = 0
        /\ sn = 0 /\ nul = 0 /\ over = FALSE
    BY Zenon DEF Init
  <2>2. pc \in {"tlv", "fmt", "arr", "str", "done"}
    BY <2>1
  <2>3. len \in Nat /\ aoff \in Nat /\ aidx \in Int /\ an \in Nat
        /\ sn \in Nat /\ nul \in Int
    BY <2>1
  <2>4. over \in BOOLEAN
    BY <2>1, Zenon
  <2>5. QED
    BY <2>2, <2>3, <2>4
<1>4. TypeOK
  BY <1>1, <1>2, <1>3, Zenon DEF TypeOK
<1>5. QED
  BY <1>4, InitOffInv DEF TypeInv, Init

(* Inside print_array_to_buf_index or the string loop, the write that    *)
(* started it is still at the head of the formatter's program.            *)
LEMMA NextProgInv ==
  ASSUME pc \in {"arr", "str"} => prog # <<>>, [Next]_vars
  PROVE  pc' \in {"arr", "str"} => prog' # <<>>
<1>1. CASE StrElem
  <2>1. PICK c \in 0..4 :
          IF sidx + Scn(MaxStr - sidx, c) >= MaxStr
            THEN pc' = "fmt" /\ prog' = Tail(prog)
            ELSE UNCHANGED <<pc, prog>>
    BY <1>1 DEF StrElem
  <2>2. pc = "str"
    BY <1>1 DEF StrElem
  <2>3. QED
    BY <2>1, <2>2
<1>2. CASE ~StrElem
  BY <1>2 DEF Next, vars, TlvNext, TlvEnd, PutStep, ArrBegin, ArrElem, ArrEnd,
             StrBegin, StrEnd, FmtEnd
<1>3. QED
  BY <1>1, <1>2

LEMMA NextTypeOK ==
  ASSUME TypeOK, OffInv, OffInv', pc \in {"arr", "str"} => prog # <<>>,
         [Next]_vars
  PROVE  TypeOK'
<1>1. CASE TlvNext
  <2>1. Head(msg) \in TlvRec /\ Tail(msg) \in Seq(TlvRec)
    BY <1>1 DEF TlvNext, TypeOK
  <2>2. FmtOK(Dispatch(Head(msg), blen))
    BY <2>1, DispatchType
  <2>3. CASE rem < HdrLen \/ Head(msg).len > rem - HdrLen
    <3>1. pc' = "done"
          /\ UNCHANGED <<msg, rem, blen, prog, len, aoff, aidx, ai, an, sidx, si, sn, nul, over>>
      BY <1>1, <2>3 DEF TlvNext, arrVars, strVars
    <3>2. QED
      BY <3>1, Zenon DEF TypeOK
  <2>4. CASE ~(rem < HdrLen \/ Head(msg).len > rem - HdrLen)
    <3>1. /\ prog' = Dispatch(Head(msg), blen).prog
          /\ len' = blen /\ msg' = Tail(msg) /\ pc' = "fmt"
          /\ rem' = rem - HdrLen - Head(msg).len
          /\ over' = (over \/ Dispatch(Head(msg), blen).reads > Head(msg).len)
          /\ UNCHANGED <<blen, aoff, aidx, ai, an, sidx, si, sn, nul>>
      BY <1>1, <2>4 DEF TlvNext, arrVars, strVars
    <3>2. prog' \in Seq(Emits)
      BY <2>2, <3>1 DEF FmtOK
    <3>3. rem' \in Int /\ len' \in Nat /\ over' \in BOOLEAN
      BY <2>1, <3>1 DEF TypeOK, TlvRec, HdrLen
    <3>4. QED
      BY <2>1, <3>1, <3>2, <3>3, Zenon DEF TypeOK
  <2>5. QED
    BY <2>3, <2>4
<1>2. CASE TlvEnd
  <2>1. pc' = "done"
        /\ UNCHANGED <<msg, rem, blen, prog, len, aoff, aidx, ai, an, sidx, si, sn, nul, over>>
    BY <1>2 DEF TlvEnd, arrVars, strVars
  <2>2. QED
    BY <2>1, Zenon DEF TypeOK
<1>3. CASE PutStep
  <2>1. pc' = "fmt" /\ prog' = Tail(prog) /\ prog # <<>>
        /\ UNCHANGED <<msg, rem, blen, aoff, aidx, ai, an, sidx, si, sn, nul, over>>
    BY <1>3 DEF PutStep, arrVars, strVars
  <2>2. len' \in Nat /\ prog' \in Seq(Emits)
    BY <2>1 DEF OffInv, TypeOK
  <2>3. QED
    BY <2>1, <2>2, Zenon DEF TypeOK
<1>4. CASE ArrBegin
  <2>1. Head(prog) \in Emits /\ prog # <<>>
    BY <1>4 DEF ArrBegin, TypeOK
  <2>2. /\ aoff' = len /\ ai' = 0 /\ an' = Head(prog).n /\ pc' = "arr"
        /\ UNCHANGED <<msg, rem, blen, prog, len, sidx, si, sn, nul, over>>
    BY <1>4 DEF ArrBegin, strVars
  <2>3. aidx' \in Int /\ aoff' \in Nat /\ ai' \in 0..(U8 - 1) /\ an' \in Nat
    BY <2>1, <2>2 DEF OffInv, TypeOK, Emits, U8
  <2>4. QED
    BY <2>2, <2>3, Zenon DEF TypeOK
<1>5. CASE ArrElem
  <2>1. /\ ai' = (ai + 1) % U8
        /\ UNCHANGED <<msg, rem, blen, pc, prog, len, aoff, an, sidx, si, sn, nul, over>>
    BY <1>5 DEF ArrElem, strVars
  <2>2. aidx' \in Int
    BY DEF OffInv
  <2>3. ai' \in 0..(U8 - 1)
    BY <2>1 DEF TypeOK, U8
  <2>4. QED
    BY <2>1, <2>2, <2>3, Zenon DEF TypeOK
<1>6. CASE ArrEnd
  <2>1. /\ nul' = aoff + (aidx - 1) /\ prog' = Tail(prog) /\ pc' = "fmt"
        /\ prog # <<>>
        /\ UNCHANGED <<msg, rem, blen, aoff, aidx, ai, an, sidx, si, sn, over>>
    BY <1>6 DEF ArrEnd, arrVars, strVars
  <2>2. len' \in Nat /\ nul' \in Int /\ prog' \in Seq(Emits)
    BY <2>1 DEF OffInv, TypeOK
  <2>3. QED
    BY <2>1, <2>2, Zenon DEF TypeOK
<1>7. CASE StrBegin
  <2>1. Head(prog) \in Emits /\ prog # <<>>
    BY <1>7 DEF StrBegin, TypeOK
  <2>2. /\ sidx' = 0 /\ si' = 0 /\ sn' = Head(prog).n /\ pc' = "str"
        /\ UNCHANGED <<msg, rem, blen, prog, len, aoff, aidx, ai, an, nul, over>>
    BY <1>7 DEF StrBegin, arrVars
  <2>3. sidx' \in 0..(MaxStr - 1) /\ si' \in 0..(U8 - 1) /\ sn' \in Nat
    BY <2>1, <2>2, MaxStrAssumption DEF Emits, U8
  <2>4. QED
    BY <2>2, <2>3, Zenon DEF TypeOK
<1>8. CASE StrElem
  <2>1. PICK c \in 0..4 :
          /\ sidx' = sidx + Scn(MaxStr - sidx, c)
          /\ IF sidx + Scn(MaxStr - sidx, c) >= MaxStr
               THEN pc' = "fmt" /\ prog' = Tail(prog)
               ELSE UNCHANGED <<pc, prog>>
    BY <1>8 DEF StrElem
  <2>2. sidx \in 0..(MaxStr - 1) /\ MaxStr \in Nat /\ MaxStr - sidx \in Nat \ {0}
    BY MaxStrAssumption DEF TypeOK
  <2>3. Scn(MaxStr - sidx, c) \in 0..(MaxStr - sidx - 1)
    BY <2>2, ScnRange
  <2>4. sidx' \in 0..(MaxStr - 1)
    BY <2>1, <2>2, <2>3
  <2>5. UNCHANGED <<pc, prog>>
    BY <2>1, <2>2, <2>3
  <2>6. /\ si' = (si + 1) % U8
        /\ UNCHANGED <<msg, rem, blen, len, aoff, aidx, ai, an, sn, nul, over>>
    BY <1>8 DEF StrElem, arrVars
  <2>7. si' \in 0..(U8 - 1)
    BY <2>6 DEF TypeOK, U8
  <2>8. QED
    BY <2>4, <2>5, <2>6, <2>7, Zenon DEF TypeOK
<1>9. CASE StrEnd
  <2>1. prog' = Tail(prog) /\ prog # <<>> /\ pc' = "fmt"
        /\ UNCHANGED <<msg, rem, blen, len, aoff, aidx, ai, an, sidx, si, sn, nul, over>>
    BY <1>9 DEF StrEnd, arrVars, strVars
  <2>2. prog' \in Seq(Emits)
    BY <2>1 DEF TypeOK
  <2>3. QED
    BY <2>1, <2>2, Zenon DEF TypeOK
<1>10. CASE FmtEnd
  <2>1. blen' = len /\ pc' = "tlv"
        /\ UNCHANGED <<msg, rem, prog, len, aoff, aidx, ai, an, sidx, si, sn, nul, over>>
    BY <1>10 DEF FmtEnd, arrVars, strVars
  <2>2. QED
    BY <2>1, Zenon DEF TypeOK
<1>11. CASE UNCHANGED vars
  BY <1>11, Zenon DEF vars, TypeOK
<1>12. QED
  BY <1>1, <1>2, <1>3, <1>4, <1>5, <1>6, <1>7, <1>8, <1>9, <1>10, <1>11
     DEF Next

LEMMA NextTypeInv == TypeInv /\ [Next]_vars => TypeInv'
<1> SUFFICES ASSUME TypeInv, [Next]_vars PROVE TypeInv'
  OBVIOUS
<1>1. OffInv'
  BY NextOffInv DEF TypeInv
<1>2. TypeOK'
  BY <1>1, NextTypeOK DEF TypeInv
<1>3. (pc \in {"arr", "str"} => prog # <<>>)'
  BY NextProgInv DEF TypeInv
<1>4. QED
  BY <1>1, <1>2, <1>3 DEF TypeInv

(* The walk, the dispatch and every formatter keep the machine's state    *)
(* well typed (TypeOK, checked by the format_core run): in particular     *)
(* the string TLV's u16 index into its local data[] stays below           *)
(* ATH12K_HTT_MAX_STRING_LEN, for every string length, message and        *)
(* sizeof table.                                                           *)
THEOREM TypeCorrect == Spec => []TypeOK
<1>1. Init => TypeInv
  BY InitTypeInv
<1>2. TypeInv /\ [Next]_vars => TypeInv'
  BY NextTypeInv
<1>3. TypeInv => TypeOK
  BY DEF TypeInv
<1>4. QED
  BY <1>1, <1>2, <1>3, PTL DEF Spec

-----------------------------------------------------------------------------
(* OffInv strengthened for BufLenMonotone: a formatter's len never falls  *)
(* below the stats_req->buf_len it started from.                          *)
MonoInv ==
  /\ OffInv
  /\ pc \in {"fmt", "arr", "str"} => len >= blen

LEMMA NextLenInv ==
  ASSUME OffInv, pc \in {"fmt", "arr", "str"} => len >= blen, [Next]_vars
  PROVE  (pc \in {"fmt", "arr", "str"} => len >= blen)'
<1>0. BufSize \in Nat
  BY BufSizeAssumption
<1>1. CASE TlvNext
  <2>1. pc' \in {"done", "fmt"} /\ (pc' = "fmt" => len' = blen) /\ blen' = blen
    <3>1. CASE rem < HdrLen \/ Head(msg).len > rem - HdrLen
      BY <1>1, <3>1 DEF TlvNext
    <3>2. CASE ~(rem < HdrLen \/ Head(msg).len > rem - HdrLen)
      BY <1>1, <3>2 DEF TlvNext
    <3>3. QED
      BY <3>1, <3>2
  <2>2. blen \in Nat
    BY DEF OffInv
  <2>3. QED
    BY <2>1, <2>2
<1>2. CASE PutStep
  <2>1. PICK n \in TextLen : len' = len + Scn(BufSize - len, n)
    BY <1>2 DEF PutStep
  <2>2. len \in 0..(BufSize - 1) /\ pc = "fmt" /\ blen \in Nat
    BY <1>2 DEF PutStep, OffInv
  <2>3. Scn(BufSize - len, n) \in 0..(BufSize - len - 1)
    BY <1>0, <2>2, TextLenAssumption, ScnRange
  <2>4. pc' = "fmt" /\ blen' = blen
    BY <1>2 DEF PutStep
  <2>5. QED
    BY <2>1, <2>2, <2>3, <2>4
<1>3. CASE ArrEnd
  <2>1. PICK n \in TextLen :
          len' = len + ((aidx - 1) + Scn((BufSize - aoff) - (aidx - 1), n))
    BY <1>3 DEF ArrEnd
  <2>2. /\ pc = "arr" /\ aoff = len /\ aidx \in Nat
        /\ aoff + aidx \in 1..(BufSize - 1) /\ blen \in Nat
        /\ len \in 0..(BufSize - 1)
    BY <1>3 DEF ArrEnd, OffInv
  <2>3. Scn((BufSize - aoff) - (aidx - 1), n) \in Nat \ {0}
    BY <2>2, BufSizeAssumption, TextLenAssumption DEF Scn
  <2>4. blen' = blen /\ len >= blen
    BY <1>3, <2>2 DEF ArrEnd
  <2>5. len' \in Int /\ len' >= len
    BY <2>1, <2>2, <2>3
  <2>6. len' >= blen'
    BY <2>2, <2>4, <2>5
  <2>7. QED
    BY <2>6, Zenon
<1>4. CASE FmtEnd
  BY <1>4 DEF FmtEnd
<1>5. CASE TlvEnd \/ ArrBegin \/ ArrElem \/ StrBegin \/ StrEnd \/ UNCHANGED vars
  BY <1>5 DEF TlvEnd, ArrBegin, ArrElem, StrBegin, StrEnd, vars
<1>6. CASE StrElem
  <2>1. pc' \in {"fmt", "str"} /\ UNCHANGED <<len, blen>>
    BY <1>6 DEF StrElem
  <2>2. QED
    BY <1>6, <2>1 DEF StrElem
<1>7. QED
  BY <1>1, <1>2, <1>3, <1>4, <1>5, <1>6 DEF Next

LEMMA MonoInvInductive ==
  /\ Init => MonoInv
  /\ MonoInv /\ [Next]_vars => MonoInv'
<1>1. Init => MonoInv
  BY InitOffInv DEF Init, MonoInv
<1>2. MonoInv /\ [Next]_vars => MonoInv'
  BY NextOffInv, NextLenInv DEF MonoInv
<1>3. QED
  BY <1>1, <1>2

(* The accumulated text only grows (BufLenMonotone, checked by the        *)
(* format_core run): no formatter step moves stats_req->buf_len back,     *)
(* although print_array_to_buf_index's index-- can make its index -1 in  *)
(* a full buffer; the footer's scnprintf then gets a size of 2 and writes *)
(* one character.  Holds for every buffer size, text length and message.  *)
THEOREM BufLenMonotoneSafe == Spec => BufLenMonotone
<1>1. MonoInv /\ [Next]_vars => [blen' >= blen]_vars
  <2> SUFFICES ASSUME MonoInv, [Next]_vars PROVE blen' >= blen \/ UNCHANGED vars
    OBVIOUS
  <2>1. CASE FmtEnd
    BY <2>1 DEF FmtEnd, MonoInv
  <2>2. CASE ~FmtEnd
    <3>1. CASE UNCHANGED vars
      BY <3>1
    <3>2. CASE ~UNCHANGED vars
      <4>1. blen' = blen /\ blen \in Nat
        BY <2>2, <3>2 DEF Next, TlvNext, TlvEnd, PutStep, ArrBegin, ArrElem,
                          ArrEnd, StrBegin, StrElem, StrEnd, MonoInv, OffInv
      <4>2. QED
        BY <4>1
    <3>3. QED
      BY <3>1, <3>2
  <2>3. QED
    BY <2>1, <2>2
<1>2. QED
  BY <1>1, MonoInvInductive, PTL DEF Spec, BufLenMonotone

-----------------------------------------------------------------------------
(***************************************************************************)
(* Reads within the record.  Every formatter but the control-path one    *)
(* reads at most tag_len bytes of its record: the common guard on         *)
(* tag_len, the min_t clamps, and the tag_len >> 2 counts all bound the   *)
(* read by tag_len.                                                        *)
(***************************************************************************)

(* A formatter reads no more than the record's tag_len.                  *)
ReadsOK(f, tl) == f.reads \in Nat /\ f.reads <= tl

LEMMA GuardedReads ==
  ASSUME NEW tag, NEW tl \in Nat, NEW p, Sizeof[tag] \in Nat
  PROVE  ReadsOK(Guarded(tag, tl, p), tl)
  BY DEF Guarded, Fmt, Skip, ReadsOK

LEMMA ArrFmtReads ==
  \A tl \in Nat : ReadsOK(ClampedArr(tl), tl) /\ ReadsOK(UnclampedArr(tl), tl)
  BY BinsAssumption DEF ClampedArr, UnclampedArr, MinU, Fmt, ReadsOK

(* hw_war reads the fixed part and (tag_len - sizeof) >> 2 words modulo   *)
(* 256, never more than tag_len bytes.                                    *)
LEMMA HwWarReads ==
  ASSUME NEW tl \in Nat, Sizeof["HW_WAR"] \in Nat
  PROVE  ReadsOK(ath12k_htt_print_hw_war_tlv(tl), tl)
<1>1. CASE tl < Sizeof["HW_WAR"]
  BY <1>1 DEF ath12k_htt_print_hw_war_tlv, Skip, Fmt, ReadsOK
<1>2. CASE ~(tl < Sizeof["HW_WAR"])
  <2>1. ((tl - Sizeof["HW_WAR"]) \div 4) % U8 <= (tl - Sizeof["HW_WAR"]) \div 4
    BY <1>2 DEF U8
  <2>2. /\ Sizeof["HW_WAR"] + 4 * (((tl - Sizeof["HW_WAR"]) \div 4) % U8) \in Nat
        /\ Sizeof["HW_WAR"] + 4 * (((tl - Sizeof["HW_WAR"]) \div 4) % U8) <= tl
    BY <1>2, <2>1 DEF U8
  <2>3. QED
    BY <1>2, <2>2 DEF ath12k_htt_print_hw_war_tlv, Fmt, ReadsOK
<1>3. QED
  BY <1>1, <1>2

(* ath12k_dbg_htt_ext_stats_parse: a record of any tag but CTRL_PATH_TX   *)
(* is formatted without reading past its tag_len.                         *)
LEMMA DispatchReads ==
  ASSUME NEW rec \in TlvRec, rec.tag # "CTRL_PATH_TX", NEW off
  PROVE  ReadsOK(Dispatch(rec, off), rec.len)
<1>1. rec.len \in Nat /\ rec.tag \in DOMAIN Sizeof
  BY DEF TlvRec
<1>2. ReadsOK(htt_print_tx_pdev_stats_cmn_tlv(rec.len), rec.len)
  <2>1. Sizeof["TX_PDEV_CMN"] \in Nat
    BY SizeofAssumption DEF Structs
  <2>2. QED
    BY <1>1, <2>1, GuardedReads, Zenon DEF htt_print_tx_pdev_stats_cmn_tlv
<1>3. ReadsOK(htt_print_tx_pdev_stats_urrn_tlv(rec.len), rec.len)
  BY <1>1, ArrFmtReads DEF htt_print_tx_pdev_stats_urrn_tlv
<1>4. ReadsOK(htt_print_tx_pdev_stats_sifs_tlv(rec.len), rec.len)
  BY <1>1, ArrFmtReads DEF htt_print_tx_pdev_stats_sifs_tlv
<1>5. ReadsOK(htt_print_tx_pdev_stats_flush_tlv(rec.len), rec.len)
  BY <1>1, ArrFmtReads DEF htt_print_tx_pdev_stats_flush_tlv
<1>6. ReadsOK(htt_print_tx_pdev_stats_sifs_hist_tlv(rec.len), rec.len)
  BY <1>1, ArrFmtReads DEF htt_print_tx_pdev_stats_sifs_hist_tlv
<1>7. ReadsOK(htt_print_tx_pdev_mu_ppdu_dist_stats_tlv(rec.len, rec.sel # 2), rec.len)
  <2>1. Sizeof["MU_PPDU_DIST"] \in Nat
    BY SizeofAssumption DEF Structs
  <2>2. QED
    BY <1>1, <2>1, GuardedReads, Zenon DEF htt_print_tx_pdev_mu_ppdu_dist_stats_tlv
<1>8. ReadsOK(ath12k_htt_print_stats_tx_sched_cmn_tlv(rec.len), rec.len)
  <2>1. Sizeof["TX_SCHED_CMN"] \in Nat
    BY SizeofAssumption DEF Structs
  <2>2. QED
    BY <1>1, <2>1, GuardedReads, Zenon DEF ath12k_htt_print_stats_tx_sched_cmn_tlv
<1>9. ReadsOK(ath12k_htt_print_tx_pdev_stats_sched_per_txq_tlv(rec.len), rec.len)
  <2>1. Sizeof["SCHED_PER_TXQ"] \in Nat
    BY SizeofAssumption DEF Structs
  <2>2. QED
    BY <1>1, <2>1, GuardedReads, Zenon DEF ath12k_htt_print_tx_pdev_stats_sched_per_txq_tlv
<1>10. ReadsOK(ath12k_htt_print_sched_txq_cmd_posted_tlv(rec.len), rec.len)
  BY <1>1, ArrFmtReads DEF ath12k_htt_print_sched_txq_cmd_posted_tlv
<1>11. ReadsOK(ath12k_htt_print_sched_txq_cmd_reaped_tlv(rec.len), rec.len)
  BY <1>1, ArrFmtReads DEF ath12k_htt_print_sched_txq_cmd_reaped_tlv
<1>12. ReadsOK(ath12k_htt_print_sched_txq_sched_order_su_tlv(rec.len), rec.len)
  BY <1>1, ArrFmtReads DEF ath12k_htt_print_sched_txq_sched_order_su_tlv
<1>13. ReadsOK(ath12k_htt_print_sched_txq_sched_ineligibility_tlv(rec.len), rec.len)
  BY <1>1, ArrFmtReads DEF ath12k_htt_print_sched_txq_sched_ineligibility_tlv
<1>14. ReadsOK(ath12k_htt_print_sched_txq_supercycle_trigger_tlv(rec.len), rec.len)
  BY <1>1, ArrFmtReads DEF ath12k_htt_print_sched_txq_supercycle_trigger_tlv
<1>15. ReadsOK(ath12k_htt_print_hw_stats_pdev_errs_tlv(rec.len), rec.len)
  <2>1. Sizeof["HW_PDEV_ERRS"] \in Nat
    BY SizeofAssumption DEF Structs
  <2>2. QED
    BY <1>1, <2>1, GuardedReads, Zenon DEF ath12k_htt_print_hw_stats_pdev_errs_tlv
<1>16. ReadsOK(ath12k_htt_print_hw_stats_intr_misc_tlv(rec.len), rec.len)
  <2>1. Sizeof["HW_INTR_MISC"] \in Nat
    BY SizeofAssumption DEF Structs
  <2>2. QED
    BY <1>1, <2>1, GuardedReads, Zenon DEF ath12k_htt_print_hw_stats_intr_misc_tlv
<1>17. ReadsOK(ath12k_htt_print_hw_stats_whal_tx_tlv(rec.len), rec.len)
  <2>1. Sizeof["WHAL_TX"] \in Nat
    BY SizeofAssumption DEF Structs
  <2>2. QED
    BY <1>1, <2>1, GuardedReads, Zenon DEF ath12k_htt_print_hw_stats_whal_tx_tlv
<1>18. ReadsOK(ath12k_htt_print_hw_war_tlv(rec.len), rec.len)
  <2>1. Sizeof["HW_WAR"] \in Nat
    BY SizeofAssumption DEF Structs
  <2>2. QED
    BY <1>1, <2>1, HwWarReads
<1>19. ReadsOK(ath12k_htt_print_tx_tqm_cmn_stats_tlv(rec.len), rec.len)
  <2>1. Sizeof["TX_TQM_CMN"] \in Nat
    BY SizeofAssumption DEF Structs
  <2>2. QED
    BY <1>1, <2>1, GuardedReads, Zenon DEF ath12k_htt_print_tx_tqm_cmn_stats_tlv
<1>20. ReadsOK(ath12k_htt_print_tx_tqm_error_stats_tlv(rec.len), rec.len)
  <2>1. Sizeof["TX_TQM_ERROR"] \in Nat
    BY SizeofAssumption DEF Structs
  <2>2. QED
    BY <1>1, <2>1, GuardedReads, Zenon DEF ath12k_htt_print_tx_tqm_error_stats_tlv
<1>21. ReadsOK(ath12k_htt_print_tx_tqm_gen_mpdu_stats_tlv(rec.len), rec.len)
  BY <1>1, ArrFmtReads DEF ath12k_htt_print_tx_tqm_gen_mpdu_stats_tlv
<1>22. ReadsOK(ath12k_htt_print_tx_tqm_list_mpdu_stats_tlv(rec.len), rec.len)
  BY <1>1, ArrFmtReads DEF ath12k_htt_print_tx_tqm_list_mpdu_stats_tlv
<1>23. ReadsOK(ath12k_htt_print_tx_tqm_list_mpdu_cnt_tlv(rec.len), rec.len)
  BY <1>1, ArrFmtReads DEF ath12k_htt_print_tx_tqm_list_mpdu_cnt_tlv
<1>24. ReadsOK(ath12k_htt_print_tx_tqm_pdev_stats_tlv(rec.len), rec.len)
  <2>1. Sizeof["TX_TQM_PDEV"] \in Nat
    BY SizeofAssumption DEF Structs
  <2>2. QED
    BY <1>1, <2>1, GuardedReads, Zenon DEF ath12k_htt_print_tx_tqm_pdev_stats_tlv
<1>25. ReadsOK(ath12k_htt_print_tx_de_cmn_stats_tlv(rec.len), rec.len)
  <2>1. Sizeof["TX_DE_CMN"] \in Nat
    BY SizeofAssumption DEF Structs
  <2>2. QED
    BY <1>1, <2>1, GuardedReads, Zenon DEF ath12k_htt_print_tx_de_cmn_stats_tlv
<1>26. ReadsOK(ath12k_htt_print_tx_de_eapol_packets_stats_tlv(rec.len), rec.len)
  <2>1. Sizeof["TX_DE_EAPOL"] \in Nat
    BY SizeofAssumption DEF Structs
  <2>2. QED
    BY <1>1, <2>1, GuardedReads, Zenon DEF ath12k_htt_print_tx_de_eapol_packets_stats_tlv
<1>27. ReadsOK(ath12k_htt_print_tx_de_classify_stats_tlv(rec.len), rec.len)
  <2>1. Sizeof["TX_DE_CLASSIFY"] \in Nat
    BY SizeofAssumption DEF Structs
  <2>2. QED
    BY <1>1, <2>1, GuardedReads, Zenon DEF ath12k_htt_print_tx_de_classify_stats_tlv
<1>28. ReadsOK(ath12k_htt_print_tx_de_classify_failed_stats_tlv(rec.len), rec.len)
  <2>1. Sizeof["TX_DE_CLASSIFY_FAILED"] \in Nat
    BY SizeofAssumption DEF Structs
  <2>2. QED
    BY <1>1, <2>1, GuardedReads, Zenon DEF ath12k_htt_print_tx_de_classify_failed_stats_tlv
<1>29. ReadsOK(ath12k_htt_print_tx_de_classify_status_stats_tlv(rec.len), rec.len)
  <2>1. Sizeof["TX_DE_CLASSIFY_STATUS"] \in Nat
    BY SizeofAssumption DEF Structs
  <2>2. QED
    BY <1>1, <2>1, GuardedReads, Zenon DEF ath12k_htt_print_tx_de_classify_status_stats_tlv
<1>30. ReadsOK(ath12k_htt_print_tx_de_enqueue_packets_stats_tlv(rec.len), rec.len)
  <2>1. Sizeof["TX_DE_ENQUEUE_PACKETS"] \in Nat
    BY SizeofAssumption DEF Structs
  <2>2. QED
    BY <1>1, <2>1, GuardedReads, Zenon DEF ath12k_htt_print_tx_de_enqueue_packets_stats_tlv
<1>31. ReadsOK(ath12k_htt_print_tx_de_enqueue_discard_stats_tlv(rec.len), rec.len)
  <2>1. Sizeof["TX_DE_ENQUEUE_DISCARD"] \in Nat
    BY SizeofAssumption DEF Structs
  <2>2. QED
    BY <1>1, <2>1, GuardedReads, Zenon DEF ath12k_htt_print_tx_de_enqueue_discard_stats_tlv
<1>32. ReadsOK(ath12k_htt_print_tx_de_compl_stats_tlv(rec.len), rec.len)
  <2>1. Sizeof["TX_DE_COMPL"] \in Nat
    BY SizeofAssumption DEF Structs
  <2>2. QED
    BY <1>1, <2>1, GuardedReads, Zenon DEF ath12k_htt_print_tx_de_compl_stats_tlv
<1>33. ReadsOK(ath12k_htt_print_tx_selfgen_cmn_stats_tlv(rec.len), rec.len)
  <2>1. Sizeof["SELFGEN_CMN"] \in Nat
    BY SizeofAssumption DEF Structs
  <2>2. QED
    BY <1>1, <2>1, GuardedReads, Zenon DEF ath12k_htt_print_tx_selfgen_cmn_stats_tlv
<1>34. ReadsOK(ath12k_htt_print_tx_selfgen_ac_stats_tlv(rec.len), rec.len)
  <2>1. Sizeof["SELFGEN_AC"] \in Nat
    BY SizeofAssumption DEF Structs
  <2>2. QED
    BY <1>1, <2>1, GuardedReads, Zenon DEF ath12k_htt_print_tx_selfgen_ac_stats_tlv
<1>35. ReadsOK(ath12k_htt_print_tx_selfgen_ax_stats_tlv(rec.len), rec.len)
  <2>1. Sizeof["SELFGEN_AX"] \in Nat
    BY SizeofAssumption DEF Structs
  <2>2. QED
    BY <1>1, <2>1, GuardedReads, Zenon DEF ath12k_htt_print_tx_selfgen_ax_stats_tlv
<1>36. ReadsOK(ath12k_htt_print_tx_selfgen_be_stats_tlv(rec.len), rec.len)
  <2>1. Sizeof["SELFGEN_BE"] \in Nat
    BY SizeofAssumption DEF Structs
  <2>2. QED
    BY <1>1, <2>1, GuardedReads, Zenon DEF ath12k_htt_print_tx_selfgen_be_stats_tlv
<1>37. ReadsOK(ath12k_htt_print_tx_selfgen_ac_err_stats_tlv(rec.len), rec.len)
  <2>1. Sizeof["SELFGEN_AC_ERR"] \in Nat
    BY SizeofAssumption DEF Structs
  <2>2. QED
    BY <1>1, <2>1, GuardedReads, Zenon DEF ath12k_htt_print_tx_selfgen_ac_err_stats_tlv
<1>38. ReadsOK(ath12k_htt_print_tx_selfgen_ax_err_stats_tlv(rec.len), rec.len)
  <2>1. Sizeof["SELFGEN_AX_ERR"] \in Nat
    BY SizeofAssumption DEF Structs
  <2>2. QED
    BY <1>1, <2>1, GuardedReads, Zenon DEF ath12k_htt_print_tx_selfgen_ax_err_stats_tlv
<1>39. ReadsOK(ath12k_htt_print_tx_selfgen_be_err_stats_tlv(rec.len), rec.len)
  <2>1. Sizeof["SELFGEN_BE_ERR"] \in Nat
    BY SizeofAssumption DEF Structs
  <2>2. QED
    BY <1>1, <2>1, GuardedReads, Zenon DEF ath12k_htt_print_tx_selfgen_be_err_stats_tlv
<1>40. ReadsOK(ath12k_htt_print_tx_selfgen_ac_sched_status_stats_tlv(rec.len), rec.len)
  <2>1. Sizeof["SELFGEN_AC_SCHED"] \in Nat
    BY SizeofAssumption DEF Structs
  <2>2. QED
    BY <1>1, <2>1, GuardedReads, Zenon DEF ath12k_htt_print_tx_selfgen_ac_sched_status_stats_tlv
<1>41. ReadsOK(ath12k_htt_print_tx_selfgen_ax_sched_status_stats_tlv(rec.len), rec.len)
  <2>1. Sizeof["SELFGEN_AX_SCHED"] \in Nat
    BY SizeofAssumption DEF Structs
  <2>2. QED
    BY <1>1, <2>1, GuardedReads, Zenon DEF ath12k_htt_print_tx_selfgen_ax_sched_status_stats_tlv
<1>42. ReadsOK(ath12k_htt_print_tx_selfgen_be_sched_status_stats_tlv(rec.len), rec.len)
  <2>1. Sizeof["SELFGEN_BE_SCHED"] \in Nat
    BY SizeofAssumption DEF Structs
  <2>2. QED
    BY <1>1, <2>1, GuardedReads, Zenon DEF ath12k_htt_print_tx_selfgen_be_sched_status_stats_tlv
<1>43. ReadsOK(ath12k_htt_print_stats_string_tlv(rec.len), rec.len)
  BY <1>1 DEF ath12k_htt_print_stats_string_tlv, Fmt, ReadsOK
<1>44. ReadsOK(ath12k_htt_print_sring_stats_tlv(rec.len), rec.len)
  <2>1. Sizeof["SRING"] \in Nat
    BY SizeofAssumption DEF Structs
  <2>2. QED
    BY <1>1, <2>1, GuardedReads, Zenon DEF ath12k_htt_print_sring_stats_tlv
<1>45. ReadsOK(ath12k_htt_print_sfm_cmn_tlv(rec.len), rec.len)
  <2>1. Sizeof["SFM_CMN"] \in Nat
    BY SizeofAssumption DEF Structs
  <2>2. QED
    BY <1>1, <2>1, GuardedReads, Zenon DEF ath12k_htt_print_sfm_cmn_tlv
<1>46. ReadsOK(ath12k_htt_print_sfm_client_tlv(rec.len), rec.len)
  <2>1. Sizeof["SFM_CLIENT"] \in Nat
    BY SizeofAssumption DEF Structs
  <2>2. QED
    BY <1>1, <2>1, GuardedReads, Zenon DEF ath12k_htt_print_sfm_client_tlv
<1>47. ReadsOK(ath12k_htt_print_sfm_client_user_tlv(rec.len), rec.len)
  BY <1>1, ArrFmtReads DEF ath12k_htt_print_sfm_client_user_tlv
<1>48. ReadsOK(ath12k_htt_print_tx_pdev_mu_mimo_sch_stats_tlv(rec.len), rec.len)
  <2>1. Sizeof["MU_MIMO_SCH"] \in Nat
    BY SizeofAssumption DEF Structs
  <2>2. QED
    BY <1>1, <2>1, GuardedReads, Zenon DEF ath12k_htt_print_tx_pdev_mu_mimo_sch_stats_tlv
<1>49. ReadsOK(ath12k_htt_print_tx_pdev_mumimo_grp_stats_tlv(rec.len), rec.len)
  <2>1. Sizeof["MUMIMO_GRP"] \in Nat
    BY SizeofAssumption DEF Structs
  <2>2. QED
    BY <1>1, <2>1, GuardedReads, Zenon DEF ath12k_htt_print_tx_pdev_mumimo_grp_stats_tlv
<1>50. ReadsOK(ath12k_htt_print_tx_pdev_mu_mimo_mpdu_stats_tlv(rec.len, rec.sel), rec.len)
  <2>1. Sizeof["MU_MIMO_MPDU"] \in Nat
    BY SizeofAssumption DEF Structs
  <2>2. QED
    BY <1>1, <2>1, GuardedReads, Zenon DEF ath12k_htt_print_tx_pdev_mu_mimo_mpdu_stats_tlv
<1>51. ReadsOK(ath12k_htt_print_pdev_cca_stats_hist_tlv(rec.len), rec.len)
  <2>1. Sizeof["CCA_HIST"] \in Nat
    BY SizeofAssumption DEF Structs
  <2>2. QED
    BY <1>1, <2>1, GuardedReads, Zenon DEF ath12k_htt_print_pdev_cca_stats_hist_tlv
<1>52. ReadsOK(ath12k_htt_print_pdev_stats_cca_counters_tlv(rec.len), rec.len)
  <2>1. Sizeof["CCA_COUNTERS"] \in Nat
    BY SizeofAssumption DEF Structs
  <2>2. QED
    BY <1>1, <2>1, GuardedReads, Zenon DEF ath12k_htt_print_pdev_stats_cca_counters_tlv
<1>53. ReadsOK(ath12k_htt_print_pdev_obss_pd_stats_tlv(rec.len), rec.len)
  <2>1. Sizeof["OBSS_PD"] \in Nat
    BY SizeofAssumption DEF Structs
  <2>2. QED
    BY <1>1, <2>1, GuardedReads, Zenon DEF ath12k_htt_print_pdev_obss_pd_stats_tlv
<1>54. ReadsOK(ath12k_htt_print_dmac_reset_stats_tlv(rec.len), rec.len)
  <2>1. Sizeof["DMAC_RESET"] \in Nat
    BY SizeofAssumption DEF Structs
  <2>2. QED
    BY <1>1, <2>1, GuardedReads, Zenon DEF ath12k_htt_print_dmac_reset_stats_tlv
<1>55. ReadsOK(ath12k_htt_print_pdev_sched_algo_ofdma_stats_tlv(rec.len), rec.len)
  <2>1. Sizeof["SCHED_ALGO_OFDMA"] \in Nat
    BY SizeofAssumption DEF Structs
  <2>2. QED
    BY <1>1, <2>1, GuardedReads, Zenon DEF ath12k_htt_print_pdev_sched_algo_ofdma_stats_tlv
<1>56. ReadsOK(ath12k_htt_print_tx_pdev_rate_stats_be_ofdma_tlv(rec.len), rec.len)
  <2>1. Sizeof["RATE_BE_OFDMA"] \in Nat
    BY SizeofAssumption DEF Structs
  <2>2. QED
    BY <1>1, <2>1, GuardedReads, Zenon DEF ath12k_htt_print_tx_pdev_rate_stats_be_ofdma_tlv
<1>57. ReadsOK(Skip, rec.len)
  BY <1>1 DEF Skip, Fmt, ReadsOK
<1>58. QED
  BY <1>2, <1>3, <1>4, <1>5, <1>6, <1>7, <1>8, <1>9, <1>10, <1>11, <1>12,
     <1>13, <1>14, <1>15, <1>16, <1>17, <1>18, <1>19, <1>20, <1>21, <1>22,
     <1>23, <1>24, <1>25, <1>26, <1>27, <1>28, <1>29, <1>30, <1>31, <1>32,
     <1>33, <1>34, <1>35, <1>36, <1>37, <1>38, <1>39, <1>40, <1>41, <1>42,
     <1>43, <1>44, <1>45, <1>46, <1>47, <1>48, <1>49, <1>50, <1>51, <1>52,
     <1>53, <1>54, <1>55, <1>56, <1>57, Zenon DEF Dispatch

(* A message holds no CTRL_PATH_TX record.                                *)
NoCtrl(s) == \A i \in 1..Len(s) : s[i].tag # "CTRL_PATH_TX"

(* The invariant behind RecordBounds: the records still to walk hold no   *)
(* ctrl-path record, and no formatter has read past its tag_len so far.  *)
RBInv == TypeInv /\ ~over /\ NoCtrl(msg)

LEMMA TailNoCtrl ==
  ASSUME NEW s \in Seq(TlvRec), s # <<>>, NoCtrl(s)
  PROVE  NoCtrl(Tail(s)) /\ Head(s) \in TlvRec /\ Head(s).tag # "CTRL_PATH_TX"
  BY DEF NoCtrl

LEMMA RBInvInit ==
  ASSUME \A m \in Msgs : NoCtrl(m.recs)
  PROVE  Init => RBInv
<1> SUFFICES ASSUME Init PROVE RBInv
  OBVIOUS
<1>1. TypeInv
  BY InitTypeInv
<1>2. NoCtrl(msg)
  BY DEF Init
<1>3. ~over
  BY DEF Init
<1>4. QED
  BY <1>1, <1>2, <1>3 DEF RBInv

(* The walk step: the record it dispatches is not a ctrl-path record, so  *)
(* its formatter reads at most tag_len bytes (DispatchReads).             *)
LEMMA RBInvTlvNext ==
  ASSUME TypeOK, ~over, NoCtrl(msg), TlvNext
  PROVE  ~over' /\ NoCtrl(msg')
<1>1. msg \in Seq(TlvRec) /\ msg # <<>>
  BY DEF TypeOK, TlvNext
<1>2. NoCtrl(Tail(msg)) /\ Head(msg) \in TlvRec /\ Head(msg).tag # "CTRL_PATH_TX"
  BY <1>1, TailNoCtrl
<1>3. ReadsOK(Dispatch(Head(msg), blen), Head(msg).len)
  BY <1>2, DispatchReads
<1>4. CASE rem < HdrLen \/ Head(msg).len > rem - HdrLen
  BY <1>4 DEF TlvNext
<1>5. CASE ~(rem < HdrLen \/ Head(msg).len > rem - HdrLen)
  <2>1. over' = (over \/ Dispatch(Head(msg), blen).reads > Head(msg).len)
        /\ msg' = Tail(msg)
    BY <1>5 DEF TlvNext
  <2>2. Dispatch(Head(msg), blen).reads \in Nat /\ Head(msg).len \in Nat
        /\ Dispatch(Head(msg), blen).reads <= Head(msg).len
    BY <1>2, <1>3, Zenon DEF ReadsOK, TlvRec
  <2>3. ~(Dispatch(Head(msg), blen).reads > Head(msg).len)
    BY <2>2
  <2>4. QED
    BY <1>2, <2>1, <2>3, Zenon
<1>6. QED
  BY <1>4, <1>5

LEMMA RBInvNext == RBInv /\ [Next]_vars => RBInv'
<1> SUFFICES ASSUME RBInv, [Next]_vars PROVE RBInv'
  OBVIOUS
<1>1. TypeInv'
  BY NextTypeInv DEF RBInv
<1>2. CASE TlvNext
  BY <1>1, <1>2, RBInvTlvNext, Zenon DEF RBInv, TypeInv
<1>3. CASE ~TlvNext
  <2>1. UNCHANGED <<msg, over>>
    BY <1>3 DEF Next, vars, TlvEnd, PutStep, ArrBegin, ArrElem, ArrEnd,
                StrBegin, StrElem, StrEnd, FmtEnd
  <2>2. QED
    BY <1>1, <2>1, Zenon DEF RBInv, NoCtrl
<1>4. QED
  BY <1>1, <1>2, <1>3, Zenon DEF RBInv

(* spec 4.2, RecordBounds: for firmware messages without a CTRL_PATH_TX   *)
(* record, no formatter of ath12k_htt_stats_print_tag reads past the      *)
(* tag_len of its record, whatever the sizes and the record contents.     *)
(* The ctrl-path formatter is the one exception (the ctrl_path_guard run).*)
THEOREM RecordBoundsExceptCtrlPath ==
  ASSUME \A m \in Msgs : NoCtrl(m.recs)
  PROVE  Spec => []RecordBounds
<1>1. Init => RBInv
  BY RBInvInit
<1>2. RBInv /\ [Next]_vars => RBInv'
  BY RBInvNext
<1>3. RBInv => RecordBounds
  BY DEF RBInv, RecordBounds
<1>4. QED
  BY <1>1, <1>2, <1>3, PTL DEF Spec


(* The one step that dispatches a record is the walk's TlvNext.           *)
LEMMA DispatchStep ==
  ASSUME TypeOK, [Next]_vars, pc = "tlv", pc' = "fmt"
  PROVE  /\ msg \in Seq(TlvRec) /\ msg # <<>>
         /\ TlvNext
<1>1. TlvNext
  BY DEF Next, vars, TlvNext, TlvEnd, PutStep, ArrBegin, ArrElem, ArrEnd,
         StrBegin, StrElem, StrEnd, FmtEnd
<1>2. QED
  BY <1>1 DEF TypeOK, TlvNext

(* ReadsWithinRecord for every sizeof table and every message set: every  *)
(* record ath12k_dbg_htt_ext_stats_parse hands to a formatter other than *)
(* the ctrl-path one is read within its tag_len.                          *)
THEOREM ReadsWithinRecordSafe == Spec => ReadsWithinRecord
<1>1. TypeInv /\ [Next]_vars =>
        [(pc = "tlv" /\ pc' = "fmt") =>
            \/ Head(msg).tag = "CTRL_PATH_TX"
            \/ Dispatch(Head(msg), blen).reads <= Head(msg).len]_vars
  <2> SUFFICES ASSUME TypeInv, [Next]_vars, pc = "tlv", pc' = "fmt",
                      Head(msg).tag # "CTRL_PATH_TX"
               PROVE  Dispatch(Head(msg), blen).reads <= Head(msg).len
    BY Zenon
  <2>1. msg \in Seq(TlvRec) /\ msg # <<>>
    BY DispatchStep DEF TypeInv
  <2>2. Head(msg) \in TlvRec
    BY <2>1
  <2>3. ReadsOK(Dispatch(Head(msg), blen), Head(msg).len)
    BY <2>2, DispatchReads
  <2>4. QED
    BY <2>3 DEF ReadsOK
<1>2. QED
  BY <1>1, InitTypeInv, NextTypeInv, PTL DEF Spec, ReadsWithinRecord

=============================================================================
