---------------------------- MODULE MC_HttFormat ----------------------------
(***************************************************************************)
(* Small instances of HttFormat.  Every tag of the dispatch gets records  *)
(* shorter than, equal to and longer than its structure, with every     *)
(* outcome of a data-dependent branch, in messages of one and of two      *)
(* records, well formed and with a declared length too short for them;    *)
(* the buffer may already be filled to any offset by earlier messages.    *)
(***************************************************************************)
EXTENDS HttFormat

MCTags ==
  {"TX_PDEV_CMN", "TX_PDEV_UNDERRUN", "TX_PDEV_SIFS", "TX_PDEV_FLUSH",
   "TX_PDEV_SIFS_HIST", "CTRL_PATH_TX", "MU_PPDU_DIST", "TX_SCHED_CMN",
   "SCHED_PER_TXQ", "CMD_POSTED", "CMD_REAPED", "SCHED_ORDER_SU",
   "SCHED_INELIGIBILITY", "SUPERCYCLE_TRIGGER", "HW_PDEV_ERRS",
   "HW_INTR_MISC", "WHAL_TX", "HW_WAR", "TX_TQM_CMN", "TX_TQM_ERROR",
   "TX_TQM_GEN_MPDU", "TX_TQM_LIST_MPDU", "TX_TQM_LIST_MPDU_CNT", "TX_TQM_PDEV",
   "TX_DE_CMN", "TX_DE_EAPOL", "TX_DE_CLASSIFY", "TX_DE_CLASSIFY_FAILED",
   "TX_DE_CLASSIFY_STATUS", "TX_DE_ENQUEUE_PACKETS", "TX_DE_ENQUEUE_DISCARD",
   "TX_DE_COMPL", "SELFGEN_CMN", "SELFGEN_AC", "SELFGEN_AX", "SELFGEN_BE",
   "SELFGEN_AC_ERR", "SELFGEN_AX_ERR", "SELFGEN_BE_ERR", "SELFGEN_AC_SCHED",
   "SELFGEN_AX_SCHED", "SELFGEN_BE_SCHED", "STRING", "SRING", "SFM_CMN",
   "SFM_CLIENT", "SFM_CLIENT_USER", "MU_MIMO_SCH", "MUMIMO_GRP", "MU_MIMO_MPDU",
   "CCA_1SEC_HIST", "CCA_100MSEC_HIST", "CCA_STAT_CUMULATIVE", "CCA_COUNTERS",
   "OBSS_PD", "DMAC_RESET", "SCHED_ALGO_OFDMA", "RATE_BE_OFDMA", "UNKNOWN"}

(* Tags whose word count is taken from tag_len without a clamp.           *)
UnclampedTags ==
  {"CMD_POSTED", "CMD_REAPED", "SCHED_INELIGIBILITY", "TX_TQM_GEN_MPDU",
   "SFM_CLIENT_USER", "STRING"}

(* Tags whose formatter branches on a field of the record.                *)
BranchTags == {"MU_PPDU_DIST", "MU_MIMO_MPDU"}

MCSizeof == [t \in MCTags \cup {"CCA_HIST"} |-> 4]

(* Record lengths: below, at and above the structure size, and 1024      *)
(* bytes, the first length at which tag_len >> 2 exceeds a u8, for the    *)
(* tags that clamp it.                                                    *)
PassLens(t) == IF t \in UnclampedTags THEN {0, 3, 4, 12} ELSE {0, 3, 4, 1024}

Rec(t, l, s) == [tag |-> t, len |-> l, sel |-> s]

Sels(t) == IF t \in BranchTags THEN 0..2 ELSE {0}

PassRecs ==
  UNION {{Rec(t, l, s) : l \in PassLens(t), s \in Sels(t)} : t \in MCTags}

MsgOf(rs, declared) == [recs |-> rs, len |-> declared]

PassMsgs ==
  {MsgOf(<<r>>, HdrLen + r.len) : r \in PassRecs}
  \cup {MsgOf(<<r>>, r.len) : r \in PassRecs}
  \cup {MsgOf(<<r1, r2>>, 2 * HdrLen + r1.len + r2.len) :
          r1 \in {Rec("TX_SCHED_CMN", 4, 0), Rec("TX_PDEV_UNDERRUN", 1024, 0)},
          r2 \in PassRecs}

(* One record of an unclamped tag of 1024 bytes.                          *)
LongMsgs ==
  {MsgOf(<<Rec(t, 1024, 0)>>, HdrLen + 1024) : t \in UnclampedTags}

=============================================================================
