------------------------------ MODULE HttFormat ------------------------------
(***************************************************************************)
(* The rendering of one extended-stats message into the request's text   *)
(* buffer (drivers/net/wireless/ath/ath12k/debugfs_htt_stats.c): the TLV  *)
(* walk over the message, the dispatch on the tag                         *)
(* (ath12k_dbg_htt_ext_stats_parse), the formatter of each tag, and the  *)
(* bounded accumulator they share: stats_req->buf_len, scnprintf and     *)
(* print_array_to_buf_index.                                              *)
(*                                                                         *)
(* The handler runs all of this in one softirq, so the model is a single  *)
(* sequential machine whose steps are the calls that move the offset.    *)
(* The text a scnprintf produces is abstracted to its length, chosen from *)
(* TextLen; the statistics values are not modelled.  A formatter is       *)
(* modelled by what it reads from the record and by the sequence of its   *)
(* writes to the buffer: Put (one scnprintf), Arr(n) (one                 *)
(* print_array_to_buf of n elements) and Str(n) (the string TLV loop over *)
(* n words).                                                              *)
(***************************************************************************)
EXTENDS Integers, Sequences

CONSTANTS
  BufSize,   \* ATH12K_HTT_STATS_BUF_SIZE
  TextLen,   \* lengths the formatted text of one scnprintf may have
  Bins,      \* the compile-time array sizes and loop bounds of the formatters
  MaxStr,    \* ATH12K_HTT_MAX_STRING_LEN
  Sizeof,    \* structure |-> sizeof the TLV structure a formatter expects
  Msgs       \* the messages the firmware may send: sequences of TLV records

ASSUME BufSizeAssumption == BufSize \in Nat \ {0, 1}
ASSUME TextLenAssumption == TextLen \subseteq Nat \ {0}
ASSUME BinsAssumption == Bins \in 1..255
ASSUME MaxStrAssumption == MaxStr \in Nat \ {0}

(* A TLV record as the walk sees it: its tag, its tag_len (a field of the *)
(* header, so never negative) and the selector of the data-dependent      *)
(* branches of its formatter.                                             *)
TlvRec == [tag : DOMAIN Sizeof, len : Nat, sel : Nat]

(* The TLV structures whose sizeof a formatter compares tag_len with (the *)
(* three CCA histograms share one).                                      *)
Structs ==
  {"TX_PDEV_CMN", "MU_PPDU_DIST", "CTRL_PATH_TX", "TX_SCHED_CMN",
   "SCHED_PER_TXQ", "HW_PDEV_ERRS", "HW_INTR_MISC", "WHAL_TX", "HW_WAR",
   "TX_TQM_CMN", "TX_TQM_ERROR", "TX_TQM_PDEV", "TX_DE_CMN", "TX_DE_EAPOL",
   "TX_DE_CLASSIFY", "TX_DE_CLASSIFY_FAILED", "TX_DE_CLASSIFY_STATUS",
   "TX_DE_ENQUEUE_PACKETS", "TX_DE_ENQUEUE_DISCARD", "TX_DE_COMPL",
   "SELFGEN_CMN", "SELFGEN_AC", "SELFGEN_AX", "SELFGEN_BE",
   "SELFGEN_AC_ERR", "SELFGEN_AX_ERR", "SELFGEN_BE_ERR",
   "SELFGEN_AC_SCHED", "SELFGEN_AX_SCHED", "SELFGEN_BE_SCHED", "SRING",
   "SFM_CMN", "SFM_CLIENT", "MU_MIMO_SCH", "MUMIMO_GRP", "MU_MIMO_MPDU",
   "CCA_HIST", "CCA_COUNTERS", "OBSS_PD", "DMAC_RESET", "SCHED_ALGO_OFDMA",
   "RATE_BE_OFDMA"}

ASSUME SizeofAssumption ==
  /\ Structs \subseteq DOMAIN Sizeof
  /\ \A t \in DOMAIN Sizeof : Sizeof[t] \in Nat
ASSUME MsgsAssumption == Msgs \subseteq [recs : Seq(TlvRec), len : Nat]

U8 == 256    \* the range of a u8 loop counter

(* scnprintf(buf, size, ...) with a text of n characters returns what it  *)
(* wrote: at most size - 1, and 0 when size is 0.  The size argument is a *)
(* size_t: a negative difference wraps to a huge size that bounds nothing.*)
Scn(size, n) ==
  IF size < 0 THEN n
  ELSE IF size = 0 THEN 0
  ELSE IF n < size - 1 THEN n ELSE size - 1

MinU(a, b) == IF a < b THEN a ELSE b

Put == [k |-> "put", n |-> 0]
Arr(n) == [k |-> "arr", n |-> n]
Str(n) == [k |-> "str", n |-> n]
Puts(m) == [i \in 1..m |-> Put]

(* A formatter's effect: the bytes of the record it reads and its writes. *)
Fmt(reads, prog) == [reads |-> reads, prog |-> prog]
Skip == Fmt(0, <<>>)

(* A formatter that forgot its tag_len check.                            *)
GuardedNoCheck(tag, tl, prog) == Fmt(Sizeof[tag], prog)

(* The common guard: a tag_len below the structure size returns at once. *)
Guarded(tag, tl, prog) ==
  IF tl < Sizeof[tag] THEN Skip ELSE Fmt(Sizeof[tag], prog)

(* A print of tag_len >> 2 words clamped to the array size, and the same *)
(* print unclamped.                                                       *)
ClampedArr(tl) == LET n == MinU(tl \div 4, Bins) IN Fmt(4 * n, <<Put, Arr(n)>>)
UnclampedArr(tl) == Fmt(4 * (tl \div 4), <<Put, Arr(tl \div 4)>>)

-----------------------------------------------------------------------------
(***************************************************************************)
(* Formatters, in the order of the source.                                *)
(***************************************************************************)

htt_print_tx_pdev_stats_cmn_tlv(tl) == Guarded("TX_PDEV_CMN", tl, Puts(66))

(* Mutant: the underrun count taken from tag_len without the min_t clamp. *)
UrrnUnclamped(tl) == UnclampedArr(tl)

htt_print_tx_pdev_stats_urrn_tlv(tl) == ClampedArr(tl)

htt_print_tx_pdev_stats_flush_tlv(tl) == ClampedArr(tl)

htt_print_tx_pdev_stats_sifs_tlv(tl) == ClampedArr(tl)

(* hw_mode selects the header; any other mode returns before writing.     *)
(* Each of the Bins rows is four lines (three of them rendered first into *)
(* the local str_buf).                                                    *)
htt_print_tx_pdev_mu_ppdu_dist_stats_tlv(tl, hwModeKnown) ==
  Guarded("MU_PPDU_DIST", tl, IF hwModeKnown THEN Puts(1 + 4 * Bins) ELSE <<>>)

htt_print_tx_pdev_stats_sifs_hist_tlv(tl) == ClampedArr(tl)

(* The guard compares the buffer offset len, not tag_len, with the size  *)
(* of the structure; the array printed is of fixed size.                  *)
htt_print_pdev_ctrl_path_tx_stats_tlv(tl, off) ==
  IF off < Sizeof["CTRL_PATH_TX"] THEN Skip
  ELSE Fmt(Sizeof["CTRL_PATH_TX"], <<Put, Arr(Bins)>>)

ath12k_htt_print_stats_tx_sched_cmn_tlv(tl) == Guarded("TX_SCHED_CMN", tl, Puts(3))

ath12k_htt_print_tx_pdev_stats_sched_per_txq_tlv(tl) ==
  Guarded("SCHED_PER_TXQ", tl, Puts(31))

ath12k_htt_print_sched_txq_cmd_posted_tlv(tl) == UnclampedArr(tl)

ath12k_htt_print_sched_txq_cmd_reaped_tlv(tl) == UnclampedArr(tl)

ath12k_htt_print_sched_txq_sched_order_su_tlv(tl) == ClampedArr(tl)

ath12k_htt_print_sched_txq_sched_ineligibility_tlv(tl) == UnclampedArr(tl)

ath12k_htt_print_sched_txq_supercycle_trigger_tlv(tl) == ClampedArr(tl)

ath12k_htt_print_hw_stats_pdev_errs_tlv(tl) == Guarded("HW_PDEV_ERRS", tl, Puts(53))

(* The remaining formatters of straight-line scnprintf and fixed-size     *)
(* arrays: Arrs(k) is k print_array_to_buf calls over compile-time sizes, *)
(* Rep(k, s) a loop of k iterations over the writes s.                    *)
Arrs(k) == [i \in 1..k |-> Arr(Bins)]
Rep(k, s) == [i \in 1..(k * Len(s)) |-> s[((i - 1) % Len(s)) + 1]]

ath12k_htt_print_hw_stats_intr_misc_tlv(tl) == Guarded("HW_INTR_MISC", tl, Puts(4))

ath12k_htt_print_hw_stats_whal_tx_tlv(tl) == Guarded("WHAL_TX", tl, Puts(13))

(* The hw_wars words after the fixed part: array_len is a u16 and          *)
(* array_words a u8, so the count is (tag_len - sizeof) >> 2 modulo 256.  *)
ath12k_htt_print_hw_war_tlv(tl) ==
  IF tl < Sizeof["HW_WAR"] THEN Skip
  ELSE LET w == ((tl - Sizeof["HW_WAR"]) \div 4) % U8 IN
       Fmt(Sizeof["HW_WAR"] + 4 * w, Puts(2 + w))

ath12k_htt_print_tx_tqm_cmn_stats_tlv(tl) == Guarded("TX_TQM_CMN", tl, Puts(21))

ath12k_htt_print_tx_tqm_error_stats_tlv(tl) == Guarded("TX_TQM_ERROR", tl, Puts(22))

ath12k_htt_print_tx_tqm_gen_mpdu_stats_tlv(tl) == UnclampedArr(tl)

ath12k_htt_print_tx_tqm_list_mpdu_stats_tlv(tl) == ClampedArr(tl)

ath12k_htt_print_tx_tqm_list_mpdu_cnt_tlv(tl) == ClampedArr(tl)

ath12k_htt_print_tx_tqm_pdev_stats_tlv(tl) == Guarded("TX_TQM_PDEV", tl, Puts(32))

ath12k_htt_print_tx_de_cmn_stats_tlv(tl) == Guarded("TX_DE_CMN", tl, Puts(12))

ath12k_htt_print_tx_de_eapol_packets_stats_tlv(tl) == Guarded("TX_DE_EAPOL", tl, Puts(12))

ath12k_htt_print_tx_de_classify_stats_tlv(tl) == Guarded("TX_DE_CLASSIFY", tl, Puts(34))

ath12k_htt_print_tx_de_classify_failed_stats_tlv(tl) ==
  Guarded("TX_DE_CLASSIFY_FAILED", tl, Puts(20))

ath12k_htt_print_tx_de_classify_status_stats_tlv(tl) ==
  Guarded("TX_DE_CLASSIFY_STATUS", tl, Puts(9))

ath12k_htt_print_tx_de_enqueue_packets_stats_tlv(tl) ==
  Guarded("TX_DE_ENQUEUE_PACKETS", tl, Puts(4))

ath12k_htt_print_tx_de_enqueue_discard_stats_tlv(tl) ==
  Guarded("TX_DE_ENQUEUE_DISCARD", tl, Puts(4))

ath12k_htt_print_tx_de_compl_stats_tlv(tl) == Guarded("TX_DE_COMPL", tl, Puts(6))

ath12k_htt_print_tx_selfgen_cmn_stats_tlv(tl) == Guarded("SELFGEN_CMN", tl, Puts(13))

ath12k_htt_print_tx_selfgen_ac_stats_tlv(tl) ==
  Guarded("SELFGEN_AC", tl, Puts(5) \o Arrs(1))

ath12k_htt_print_tx_selfgen_ax_stats_tlv(tl) ==
  Guarded("SELFGEN_AX", tl, Puts(5) \o Arrs(1) \o Puts(5))

ath12k_htt_print_tx_selfgen_be_stats_tlv(tl) ==
  Guarded("SELFGEN_BE", tl, Puts(9) \o Arrs(3) \o Puts(5))

ath12k_htt_print_tx_selfgen_ac_err_stats_tlv(tl) == Guarded("SELFGEN_AC_ERR", tl, Puts(8))

ath12k_htt_print_tx_selfgen_ax_err_stats_tlv(tl) ==
  Guarded("SELFGEN_AX_ERR", tl, Puts(5) \o Arrs(1) \o Puts(5))

ath12k_htt_print_tx_selfgen_be_err_stats_tlv(tl) ==
  Guarded("SELFGEN_BE_ERR", tl, Puts(9) \o Arrs(4) \o Puts(5))

ath12k_htt_print_tx_selfgen_ac_sched_status_stats_tlv(tl) ==
  Guarded("SELFGEN_AC_SCHED", tl, Puts(1) \o Arrs(8))

ath12k_htt_print_tx_selfgen_ax_sched_status_stats_tlv(tl) ==
  Guarded("SELFGEN_AX_SCHED", tl, Puts(1) \o Arrs(14))

ath12k_htt_print_tx_selfgen_be_sched_status_stats_tlv(tl) ==
  Guarded("SELFGEN_BE_SCHED", tl, Puts(1) \o Arrs(14))

(* The string TLV: tag_len >> 2 words copied into the local data[] with a *)
(* u8 counter, then one line.                                             *)
ath12k_htt_print_stats_string_tlv(tl) ==
  Fmt(4 * (tl \div 4), <<Put, Str(tl \div 4), Put>>)

ath12k_htt_print_sring_stats_tlv(tl) == Guarded("SRING", tl, Puts(17))

ath12k_htt_print_sfm_cmn_tlv(tl) == Guarded("SFM_CMN", tl, Puts(6))

ath12k_htt_print_sfm_client_tlv(tl) == Guarded("SFM_CLIENT", tl, Puts(8))

ath12k_htt_print_sfm_client_user_tlv(tl) == UnclampedArr(tl)

(* Header lines, then the per-group and per-user loops, all of them over  *)
(* compile-time bounds: a loop of 1 + 2 (B - 1) lines is the SU line and  *)
(* two lines per group from 1.                                            *)
ath12k_htt_print_tx_pdev_mu_mimo_sch_stats_tlv(tl) ==
  LET grp == Puts(1) \o Rep(Bins - 1, Puts(2))
      nusers == Puts(1) \o Rep(Bins, Puts(2))
  IN Guarded("MU_MIMO_SCH", tl,
       Puts(4) \o grp \o Rep(Bins, Puts(2)) \o grp \o grp
       \o nusers \o nusers \o nusers
       \o Puts(1) \o Rep(Bins, Puts(5))
       \o Puts(1) \o Rep(Bins, Puts(2)))

ath12k_htt_print_tx_pdev_mumimo_grp_stats_tlv(tl) ==
  Guarded("MUMIMO_GRP", tl,
    Puts(1) \o Arrs(3) \o Puts(1) \o Rep(Bins, Puts(1) \o Arrs(1)) \o Arrs(3))

(* tx_sched_mode selects one of three blocks (or none); in it, the header *)
(* is written for user_index 0 and the seven counters for a user_index   *)
(* below the block's bound.  sel 0: user 0, sel 1: another user in range, *)
(* sel 2: an unknown mode or a user out of range.                          *)
ath12k_htt_print_tx_pdev_mu_mimo_mpdu_stats_tlv(tl, sel) ==
  Guarded("MU_MIMO_MPDU", tl,
    CASE sel = 0 -> Puts(8) [] sel = 1 -> Puts(7) [] OTHER -> <<>>)

(* One formatter serves the 1 s, 100 ms and cumulative CCA histograms.    *)
ath12k_htt_print_pdev_cca_stats_hist_tlv(tl) == Guarded("CCA_HIST", tl, Puts(5))

ath12k_htt_print_pdev_stats_cca_counters_tlv(tl) == Guarded("CCA_COUNTERS", tl, Puts(9))

ath12k_htt_print_pdev_obss_pd_stats_tlv(tl) ==
  Guarded("OBSS_PD", tl, Puts(15) \o Rep(Bins, Puts(5)))

ath12k_htt_print_dmac_reset_stats_tlv(tl) == Guarded("DMAC_RESET", tl, Puts(8))

ath12k_htt_print_pdev_sched_algo_ofdma_stats_tlv(tl) ==
  Guarded("SCHED_ALGO_OFDMA", tl, Puts(2) \o Arrs(14))

ath12k_htt_print_tx_pdev_rate_stats_be_ofdma_tlv(tl) ==
  Guarded("RATE_BE_OFDMA", tl,
    Puts(3) \o Arrs(2) \o Puts(1) \o Rep(Bins, Puts(1)) \o Puts(1) \o Arrs(2)
    \o Rep(Bins, Puts(1) \o Arrs(1)) \o Puts(1))

(* ath12k_dbg_htt_ext_stats_parse: the switch on the tag; an unknown tag  *)
(* is skipped.  rec.sel (0, 1 or 2) picks the data-dependent branch of a  *)
(* formatter; for the mu_ppdu hw_mode, 2 is a mode the switch rejects.    *)
Dispatch(rec, off) ==
  LET tl == rec.len
      t == rec.tag
  IN
  CASE t = "TX_PDEV_CMN"       -> htt_print_tx_pdev_stats_cmn_tlv(tl)
    [] t = "TX_PDEV_UNDERRUN"  -> htt_print_tx_pdev_stats_urrn_tlv(tl)
    [] t = "TX_PDEV_SIFS"      -> htt_print_tx_pdev_stats_sifs_tlv(tl)
    [] t = "TX_PDEV_FLUSH"     -> htt_print_tx_pdev_stats_flush_tlv(tl)
    [] t = "TX_PDEV_SIFS_HIST" -> htt_print_tx_pdev_stats_sifs_hist_tlv(tl)
    [] t = "CTRL_PATH_TX"      -> htt_print_pdev_ctrl_path_tx_stats_tlv(tl, off)
    [] t = "MU_PPDU_DIST"      -> htt_print_tx_pdev_mu_ppdu_dist_stats_tlv(tl, rec.sel # 2)
    [] t = "TX_SCHED_CMN"      -> ath12k_htt_print_stats_tx_sched_cmn_tlv(tl)
    [] t = "SCHED_PER_TXQ"     -> ath12k_htt_print_tx_pdev_stats_sched_per_txq_tlv(tl)
    [] t = "CMD_POSTED"        -> ath12k_htt_print_sched_txq_cmd_posted_tlv(tl)
    [] t = "CMD_REAPED"        -> ath12k_htt_print_sched_txq_cmd_reaped_tlv(tl)
    [] t = "SCHED_ORDER_SU"    -> ath12k_htt_print_sched_txq_sched_order_su_tlv(tl)
    [] t = "SCHED_INELIGIBILITY" -> ath12k_htt_print_sched_txq_sched_ineligibility_tlv(tl)
    [] t = "SUPERCYCLE_TRIGGER" -> ath12k_htt_print_sched_txq_supercycle_trigger_tlv(tl)
    [] t = "HW_PDEV_ERRS"      -> ath12k_htt_print_hw_stats_pdev_errs_tlv(tl)
    [] t = "HW_INTR_MISC"      -> ath12k_htt_print_hw_stats_intr_misc_tlv(tl)
    [] t = "WHAL_TX"           -> ath12k_htt_print_hw_stats_whal_tx_tlv(tl)
    [] t = "HW_WAR"            -> ath12k_htt_print_hw_war_tlv(tl)
    [] t = "TX_TQM_CMN"        -> ath12k_htt_print_tx_tqm_cmn_stats_tlv(tl)
    [] t = "TX_TQM_ERROR"      -> ath12k_htt_print_tx_tqm_error_stats_tlv(tl)
    [] t = "TX_TQM_GEN_MPDU"   -> ath12k_htt_print_tx_tqm_gen_mpdu_stats_tlv(tl)
    [] t = "TX_TQM_LIST_MPDU"  -> ath12k_htt_print_tx_tqm_list_mpdu_stats_tlv(tl)
    [] t = "TX_TQM_LIST_MPDU_CNT" -> ath12k_htt_print_tx_tqm_list_mpdu_cnt_tlv(tl)
    [] t = "TX_TQM_PDEV"       -> ath12k_htt_print_tx_tqm_pdev_stats_tlv(tl)
    [] t = "TX_DE_CMN"         -> ath12k_htt_print_tx_de_cmn_stats_tlv(tl)
    [] t = "TX_DE_EAPOL"       -> ath12k_htt_print_tx_de_eapol_packets_stats_tlv(tl)
    [] t = "TX_DE_CLASSIFY"    -> ath12k_htt_print_tx_de_classify_stats_tlv(tl)
    [] t = "TX_DE_CLASSIFY_FAILED" -> ath12k_htt_print_tx_de_classify_failed_stats_tlv(tl)
    [] t = "TX_DE_CLASSIFY_STATUS" -> ath12k_htt_print_tx_de_classify_status_stats_tlv(tl)
    [] t = "TX_DE_ENQUEUE_PACKETS" -> ath12k_htt_print_tx_de_enqueue_packets_stats_tlv(tl)
    [] t = "TX_DE_ENQUEUE_DISCARD" -> ath12k_htt_print_tx_de_enqueue_discard_stats_tlv(tl)
    [] t = "TX_DE_COMPL"       -> ath12k_htt_print_tx_de_compl_stats_tlv(tl)
    [] t = "SELFGEN_CMN"       -> ath12k_htt_print_tx_selfgen_cmn_stats_tlv(tl)
    [] t = "SELFGEN_AC"        -> ath12k_htt_print_tx_selfgen_ac_stats_tlv(tl)
    [] t = "SELFGEN_AX"        -> ath12k_htt_print_tx_selfgen_ax_stats_tlv(tl)
    [] t = "SELFGEN_BE"        -> ath12k_htt_print_tx_selfgen_be_stats_tlv(tl)
    [] t = "SELFGEN_AC_ERR"    -> ath12k_htt_print_tx_selfgen_ac_err_stats_tlv(tl)
    [] t = "SELFGEN_AX_ERR"    -> ath12k_htt_print_tx_selfgen_ax_err_stats_tlv(tl)
    [] t = "SELFGEN_BE_ERR"    -> ath12k_htt_print_tx_selfgen_be_err_stats_tlv(tl)
    [] t = "SELFGEN_AC_SCHED"  -> ath12k_htt_print_tx_selfgen_ac_sched_status_stats_tlv(tl)
    [] t = "SELFGEN_AX_SCHED"  -> ath12k_htt_print_tx_selfgen_ax_sched_status_stats_tlv(tl)
    [] t = "SELFGEN_BE_SCHED"  -> ath12k_htt_print_tx_selfgen_be_sched_status_stats_tlv(tl)
    [] t = "STRING"            -> ath12k_htt_print_stats_string_tlv(tl)
    [] t = "SRING"             -> ath12k_htt_print_sring_stats_tlv(tl)
    [] t = "SFM_CMN"           -> ath12k_htt_print_sfm_cmn_tlv(tl)
    [] t = "SFM_CLIENT"        -> ath12k_htt_print_sfm_client_tlv(tl)
    [] t = "SFM_CLIENT_USER"   -> ath12k_htt_print_sfm_client_user_tlv(tl)
    [] t = "MU_MIMO_SCH"       -> ath12k_htt_print_tx_pdev_mu_mimo_sch_stats_tlv(tl)
    [] t = "MUMIMO_GRP"        -> ath12k_htt_print_tx_pdev_mumimo_grp_stats_tlv(tl)
    [] t = "MU_MIMO_MPDU"      -> ath12k_htt_print_tx_pdev_mu_mimo_mpdu_stats_tlv(tl, rec.sel)
    [] t \in {"CCA_1SEC_HIST", "CCA_100MSEC_HIST", "CCA_STAT_CUMULATIVE"}
                               -> ath12k_htt_print_pdev_cca_stats_hist_tlv(tl)
    [] t = "CCA_COUNTERS"      -> ath12k_htt_print_pdev_stats_cca_counters_tlv(tl)
    [] t = "OBSS_PD"           -> ath12k_htt_print_pdev_obss_pd_stats_tlv(tl)
    [] t = "DMAC_RESET"        -> ath12k_htt_print_dmac_reset_stats_tlv(tl)
    [] t = "SCHED_ALGO_OFDMA"  -> ath12k_htt_print_pdev_sched_algo_ofdma_stats_tlv(tl)
    [] t = "RATE_BE_OFDMA"     -> ath12k_htt_print_tx_pdev_rate_stats_be_ofdma_tlv(tl)
    [] OTHER                   -> Skip

-----------------------------------------------------------------------------
VARIABLES
  msg,    \* TLV records of the message not yet walked
  rem,    \* bytes of the message not yet walked
  blen,   \* stats_req->buf_len
  pc,     \* "tlv" (decoder), "fmt" (formatter), "arr", "str" (their loops), "done"
  prog,   \* the writes the running formatter has still to make
  len,    \* the formatter's local len
  aoff,   \* print_array_to_buf_index: offset
  aidx,   \* print_array_to_buf_index: int index
  ai,     \* print_array_to_buf_index: u8 i
  an,     \* print_array_to_buf_index: array_len
  sidx,   \* string TLV: u16 index into data[]
  si,     \* string TLV: u8 i
  sn,     \* string TLV: tag_len >> 2
  nul,    \* where the last index-- store of a NUL landed
  over    \* some formatter read beyond its record

vars == <<msg, rem, blen, pc, prog, len, aoff, aidx, ai, an, sidx, si, sn, nul, over>>
arrVars == <<aoff, aidx, ai, an>>
strVars == <<sidx, si, sn>>

HdrLen == 4   \* HTT_TLV_HDR_LEN

(* A message of the firmware: its records and its declared length; the   *)
(* buffer may already hold the text of earlier messages of the request.  *)
Init ==
  /\ \E m \in Msgs : msg = m.recs /\ rem = m.len
  /\ blen \in 0..(BufSize - 1)
  /\ pc = "tlv"
  /\ prog = <<>>
  /\ len = 0
  /\ aoff = 0 /\ aidx = 0 /\ ai = 0 /\ an = 0
  /\ sidx = 0 /\ si = 0 /\ sn = 0
  /\ nul = 0
  /\ over = FALSE

(* ath12k_dp_htt_tlv_iter: a record whose header or declared length does *)
(* not fit in what is left stops the walk with -EINVAL; otherwise the    *)
(* record is dispatched and the formatter starts from stats_req->buf_len.*)
TlvNext ==
  /\ pc = "tlv"
  /\ rem > 0 /\ msg # <<>>
  /\ LET r == Head(msg) IN
       IF rem < HdrLen \/ r.len > rem - HdrLen
         THEN /\ pc' = "done"
              /\ UNCHANGED <<msg, rem, prog, len, over>>
         ELSE LET f == Dispatch(r, blen) IN
              /\ prog' = f.prog
              /\ over' = (over \/ f.reads > r.len)
              /\ len' = blen
              /\ msg' = Tail(msg)
              /\ rem' = rem - HdrLen - r.len
              /\ pc' = "fmt"
  /\ UNCHANGED <<blen, arrVars, strVars, nul>>

TlvEnd ==
  /\ pc = "tlv"
  /\ rem = 0 \/ msg = <<>>
  /\ pc' = "done"
  /\ UNCHANGED <<msg, rem, blen, prog, len, arrVars, strVars, nul, over>>

(* Mutant: snprintf in place of scnprintf, which returns the length the   *)
(* text would have had.                                                   *)
PutStepSnprintf ==
  /\ pc = "fmt"
  /\ prog # <<>> /\ Head(prog).k = "put"
  /\ \E n \in TextLen : len' = len + n
  /\ prog' = Tail(prog)
  /\ UNCHANGED <<msg, rem, blen, pc, arrVars, strVars, nul, over>>

(* len += scnprintf(buf + len, buf_len - len, ...)                        *)
PutStep ==
  /\ pc = "fmt"
  /\ prog # <<>> /\ Head(prog).k = "put"
  /\ \E n \in TextLen : len' = len + Scn(BufSize - len, n)
  /\ prog' = Tail(prog)
  /\ UNCHANGED <<msg, rem, blen, pc, arrVars, strVars, nul, over>>

(* print_array_to_buf_index up to its loop: the "%s = " header.           *)
ArrBegin ==
  /\ pc = "fmt"
  /\ prog # <<>> /\ Head(prog).k = "arr"
  /\ \E n \in TextLen : aidx' = Scn(BufSize - len, n)
  /\ aoff' = len
  /\ ai' = 0
  /\ an' = Head(prog).n
  /\ pc' = "arr"
  /\ UNCHANGED <<msg, rem, blen, prog, len, strVars, nul, over>>

(* Mutant: the element's size forgets the offset: BUF_SIZE - index.       *)
ArrElemNoOffset ==
  /\ pc = "arr"
  /\ ai < an
  /\ \E n \in TextLen : aidx' = aidx + Scn(BufSize - aidx, n)
  /\ ai' = (ai + 1) % U8
  /\ UNCHANGED <<msg, rem, blen, pc, prog, len, aoff, an, strVars, nul, over>>

(* One iteration of for (i = 0; i < array_len; i++) with u8 i.            *)
ArrElem ==
  /\ pc = "arr"
  /\ ai < an
  /\ \E n \in TextLen : aidx' = aidx + Scn((BufSize - aoff) - aidx, n)
  /\ ai' = (ai + 1) % U8
  /\ UNCHANGED <<msg, rem, blen, pc, prog, len, aoff, an, strVars, nul, over>>

(* Mutant: no footer after index--, so len += the decremented index.      *)
ArrEndNoFooter ==
  /\ pc = "arr"
  /\ ~(ai < an)
  /\ nul' = aoff + (aidx - 1)
  /\ len' = len + (aidx - 1)
  /\ prog' = Tail(prog)
  /\ pc' = "fmt"
  /\ UNCHANGED <<msg, rem, blen, arrVars, strVars, over>>

(* The loop ends: index-- and the NUL store over the trailing comma, the *)
(* footer, and len += the returned index.                                 *)
ArrEnd ==
  /\ pc = "arr"
  /\ ~(ai < an)
  /\ nul' = aoff + (aidx - 1)
  /\ \E n \in TextLen :
       len' = len + ((aidx - 1) + Scn((BufSize - aoff) - (aidx - 1), n))
  /\ prog' = Tail(prog)
  /\ pc' = "fmt"
  /\ UNCHANGED <<msg, rem, blen, arrVars, strVars, over>>

(* ath12k_htt_print_stats_string_tlv's loop, entered after its header.    *)
StrBegin ==
  /\ pc = "fmt"
  /\ prog # <<>> /\ Head(prog).k = "str"
  /\ sidx' = 0 /\ si' = 0 /\ sn' = Head(prog).n
  /\ pc' = "str"
  /\ UNCHANGED <<msg, rem, blen, prog, len, arrVars, nul, over>>

(* Mutant: the size passed for data[] is one too large.                  *)
StrElemOffByOne ==
  /\ pc = "str"
  /\ si < sn
  /\ \E c \in 0..4 :
       LET nidx == sidx + Scn(MaxStr - sidx + 1, c) IN
       /\ sidx' = nidx
       /\ IF nidx >= MaxStr
            THEN pc' = "fmt" /\ prog' = Tail(prog)
            ELSE UNCHANGED <<pc, prog>>
  /\ si' = (si + 1) % U8
  /\ UNCHANGED <<msg, rem, blen, len, arrVars, sn, nul, over>>

(* index += scnprintf(&data[index], MAX_STRING_LEN - index, "%.*s", 4,   *)
(* &datum): up to four characters, fewer if the word holds a NUL; then   *)
(* break once index >= MAX_STRING_LEN.                                    *)
StrElem ==
  /\ pc = "str"
  /\ si < sn
  /\ \E c \in 0..4 :
       LET nidx == sidx + Scn(MaxStr - sidx, c) IN
       /\ sidx' = nidx
       /\ IF nidx >= MaxStr
            THEN pc' = "fmt" /\ prog' = Tail(prog)
            ELSE UNCHANGED <<pc, prog>>
  /\ si' = (si + 1) % U8
  /\ UNCHANGED <<msg, rem, blen, len, arrVars, sn, nul, over>>

StrEnd ==
  /\ pc = "str"
  /\ ~(si < sn)
  /\ pc' = "fmt"
  /\ prog' = Tail(prog)
  /\ UNCHANGED <<msg, rem, blen, len, arrVars, strVars, nul, over>>

(* stats_req->buf_len = len at the end of the formatter.                  *)
FmtEnd ==
  /\ pc = "fmt"
  /\ prog = <<>>
  /\ blen' = len
  /\ pc' = "tlv"
  /\ UNCHANGED <<msg, rem, prog, len, arrVars, strVars, nul, over>>

Next ==
  \/ TlvNext \/ TlvEnd
  \/ PutStep \/ ArrBegin \/ ArrElem \/ ArrEnd
  \/ StrBegin \/ StrElem \/ StrEnd
  \/ FmtEnd

(* The softirq runs the walk to its end without blocking.                 *)
Spec == Init /\ [][Next]_vars /\ WF_vars(Next)

-----------------------------------------------------------------------------
Emits == [k : {"put", "arr", "str"}, n : Nat]

TypeOK ==
  /\ msg \in Seq(TlvRec)
  /\ pc \in {"tlv", "fmt", "arr", "str", "done"}
  /\ blen \in Nat /\ len \in Nat /\ rem \in Int
  /\ prog \in Seq(Emits)
  /\ ai \in 0..(U8 - 1) /\ si \in 0..(U8 - 1)
  /\ aoff \in Nat /\ aidx \in Int /\ an \in Nat
  /\ sidx \in 0..(MaxStr - 1) /\ sn \in Nat
  /\ nul \in Int /\ over \in BOOLEAN

(* spec 3 and 4.2: the offset of the accumulator never reaches its        *)
(* capacity, so every scnprintf of every formatter of every message gets *)
(* a positive size and nothing is written past ATH12K_HTT_STATS_BUF_SIZE. *)
OffsetBound ==
  /\ blen < BufSize
  /\ pc \in {"fmt", "arr", "str"} => len < BufSize
  /\ pc = "arr" => aoff + aidx < BufSize

(* print_array_to_buf_index overwrites the trailing comma with            *)
(* buf[offset + index - 1] after index--: the store stays inside the      *)
(* buffer whatever the offset and however little was written.             *)
NulInBuffer == nul \in 0..(BufSize - 1)

(* spec 4.2: the accumulated text only grows.  No step moves              *)
(* stats_req->buf_len backwards, although print_array_to_buf_index's      *)
(* index-- makes its return value -1 when the buffer was already full:   *)
(* the "\n" footer every caller passes gets a size of at least 2 after    *)
(* the decrement and brings the index back to at least 0.                 *)
BufLenMonotone == [][blen' >= blen]_vars

(* spec 3: a formatter never reads past the declared length of its TLV.   *)
RecordBounds == ~over

(* spec 3 and 4.1 (every record is length-checked before it is read):    *)
(* each record ath12k_dbg_htt_ext_stats_parse dispatches, other than a   *)
(* CTRL_PATH_TX record, is read within its tag_len by its formatter's    *)
(* tag_len < sizeof guard or min_t clamp.  The ctrl-path formatter       *)
(* guards on the output offset instead (line 425); the ctrl_path_guard   *)
(* run shows it reading past tag_len.                                     *)
ReadsWithinRecord ==
  [][(pc = "tlv" /\ pc' = "fmt") =>
       \/ Head(msg).tag = "CTRL_PATH_TX"
       \/ Dispatch(Head(msg), blen).reads <= Head(msg).len]_vars

(* spec 4.2: formatting never fails and always ends: the walk over a       *)
(* message reaches its end.                                                *)
WalkTerminates == <>(pc = "done")

=============================================================================
