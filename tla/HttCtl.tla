------------------------------- MODULE HttCtl -------------------------------
(***************************************************************************)
(* The control files of the ath12k extended HTT statistics                 *)
(* (drivers/net/wireless/ath/ath12k/debugfs_htt_stats.c):                  *)
(*   - htt_stats_type, whose write stores the stats type and its four     *)
(*     cfg_param words in ar->debug.htt_stats under the wiphy lock;       *)
(*   - htt_stats, whose open reads that configuration and sends the       *)
(*     request built from it (the request's reply path is HttStats);      *)
(*   - htt_stats_reset, whose write sends a reset request naming one      *)
(*     stats type as one bit of a bitmap spread over cfg1..cfg3.          *)
(*                                                                         *)
(* Every caller runs one file operation at a time.  Each step below is a *)
(* whole wiphy-lock critical section (so the lock needs no variable),    *)
(* with one exception: open reads the type before it takes the lock, so *)
(* that read is a step of its own and any write may run between it and   *)
(* the rest of open.  What open does after the send (wait, reply, timeout) is         *)
(* modelled in HttStats; here it matters only whether open returns with  *)
(* the request held or with an error.                                     *)
(***************************************************************************)
EXTENDS Integers, Sequences, FiniteSets

CONSTANTS
  Callers,      \* processes using the three debugfs files
  NULL,         \* the null pointer / no holder
  ResetType,    \* ATH12K_DBG_HTT_EXT_STATS_RESET
  NumExtStats,  \* ATH12K_DBG_HTT_NUM_EXT_STATS
  ResetStart,   \* HTT_STAT_DEFAULT_RESET_START_OFFSET
  WriteInputs,  \* writes to htt_stats_type: byte count and the numbers in them
  ResetInputs   \* numbers written to htt_stats_reset

(* The enum and offset are defined in debugfs_htt_stats.h, which is not   *)
(* part of this tree: they are constants.  Three 32-bit words of reset    *)
(* bitmap cover every type below 96.                                      *)
ASSUME CtlAssumption ==
  /\ NULL \notin Callers
  /\ NumExtStats \in 1..96
  /\ ResetType \in 0..(NumExtStats - 1)
  /\ ResetStart \in Nat
  /\ WriteInputs \subseteq [count : Nat, args : Seq(Nat)]
  /\ ResetInputs \subseteq Nat

(* const int size = 32 in ath12k_write_htt_stats_type.                    *)
WriteSize == 32

CfgZero == <<0, 0, 0, 0>>

VARIABLES
  htype,   \* ar->debug.htt_stats.type
  hcfg,    \* ar->debug.htt_stats.cfg_param[0..3]
  hreset,  \* ar->debug.htt_stats.reset
  held,    \* the caller whose open holds ar->debug.htt_stats.stats_req
  cpc,     \* per caller: "idle", "typed" (open read the type), "opened"
  ctype,   \* per caller: open's local type
  sent,    \* stats requests sent by open: type and cfg params (ghost)
  rsent,   \* the last reset request sent (ghost)
  hist,    \* every type/cfg_param pair the configuration has held (ghost)
  wcount   \* bytes copied by the last write to htt_stats_type (ghost)

vars == <<htype, hcfg, hreset, held, cpc, ctype, sent, rsent, hist, wcount>>

(* No reset request sent yet.                                             *)
NoReset == [req |-> ResetType, cfg0 |-> 0, bits |-> <<{}, {}, {}>>]

(* ar is zero-allocated, so the type starts as 0, the first enum value,   *)
(* and the parameters as zeros.                                           *)
Init ==
  /\ htype = 0
  /\ hcfg = CfgZero
  /\ hreset = 0
  /\ held = NULL
  /\ cpc = [c \in Callers |-> "idle"]
  /\ ctype = [c \in Callers |-> 0]
  /\ sent = {}
  /\ rsent = NoReset
  /\ hist = {[type |-> 0, cfg |-> CfgZero]}
  /\ wcount = 0

-----------------------------------------------------------------------------
(***************************************************************************)
(* htt_stats_type                                                          *)
(***************************************************************************)

(* The cfg_param words sscanf fills: those after the type, zeros for the  *)
(* conversions the input does not have.                                   *)
ParsedCfg(args) == [i \in 1..4 |-> IF i + 1 <= Len(args) THEN args[i + 1] ELSE 0]

(* Bug variant of TypeValid: the upper bound on the type is not checked. *)
TypeValidNoBound(t) == t # ResetType

(* The type check of both writes: not the reset type, below the count.   *)
TypeValid(t) == t # ResetType /\ t < NumExtStats

(* ath12k_write_htt_stats_type: copy_from_user of count bytes into the    *)
(* 32-byte kzalloc'ed buffer, sscanf of up to five numbers, -EINVAL for   *)
(* no number or a bad type, else type and cfg_param stored under the      *)
(* wiphy lock.  The error paths change nothing but the copy.              *)
WriteType(c) ==
  /\ cpc[c] = "idle"
  /\ \E in \in WriteInputs :
       LET num == Len(in.args) IN
       /\ wcount' = in.count
       /\ IF num # 0 /\ num <= 5 /\ TypeValid(in.args[1])
            THEN /\ htype' = in.args[1]
                 /\ hcfg' = ParsedCfg(in.args)
                 /\ hist' = hist \cup {[type |-> in.args[1], cfg |-> ParsedCfg(in.args)]}
            ELSE UNCHANGED <<htype, hcfg, hist>>
  /\ UNCHANGED <<hreset, held, cpc, ctype, sent, rsent>>

-----------------------------------------------------------------------------
(***************************************************************************)
(* htt_stats: open and release                                             *)
(***************************************************************************)

(* Bug variant of OpenReadType: the -EPERM check is missing.             *)
OpenReadTypeNoCheck(c) ==
  /\ cpc[c] = "idle"
  /\ cpc' = [cpc EXCEPT ![c] = "typed"]
  /\ ctype' = [ctype EXCEPT ![c] = htype]
  /\ UNCHANGED <<htype, hcfg, hreset, held, sent, rsent, hist, wcount>>

(* ath12k_open_htt_stats reads ar->debug.htt_stats.type before it takes   *)
(* the wiphy lock, and returns -EPERM if it is the reset type.            *)
OpenReadType(c) ==
  /\ cpc[c] = "idle"
  /\ htype # ResetType
  /\ cpc' = [cpc EXCEPT ![c] = "typed"]
  /\ ctype' = [ctype EXCEPT ![c] = htype]
  /\ UNCHANGED <<htype, hcfg, hreset, held, sent, rsent, hist, wcount>>

(* ath12k_debugfs_htt_stats_req: the request carries stats_req->type and, *)
(* when override_cfg_param is set (some word is nonzero), the copied      *)
(* cfg_param words, else zeros.                                           *)
Request(t, cfg) ==
  [type |-> t, cfg |-> IF \E i \in 1..4 : cfg[i] # 0 THEN cfg ELSE CfgZero]

(* The rest of open, all under the wiphy lock: -ENETDOWN when the hw is   *)
(* not on and -ENOMEM from kzalloc (the environment decides both),        *)
(* -EAGAIN while a request is held; else stats_req gets the type read    *)
(* before the lock and the cfg_param words read now, and the request is   *)
(* sent.  A failed send, or a timeout after the send, frees the request. *)
OpenLocked(c) ==
  /\ cpc[c] = "typed"
  /\ \/ /\ cpc' = [cpc EXCEPT ![c] = "idle"]
        /\ UNCHANGED <<held, sent>>
     \/ /\ held = NULL
        /\ sent' = sent \cup {Request(ctype[c], hcfg)}
        /\ \/ /\ cpc' = [cpc EXCEPT ![c] = "idle"]
              /\ UNCHANGED held
           \/ /\ cpc' = [cpc EXCEPT ![c] = "opened"]
              /\ held' = c
  /\ UNCHANGED <<htype, hcfg, hreset, ctype, rsent, hist, wcount>>

(* ath12k_release_htt_stats: frees the request and clears stats_req.      *)
Release(c) ==
  /\ cpc[c] = "opened"
  /\ cpc' = [cpc EXCEPT ![c] = "idle"]
  /\ held' = NULL
  /\ UNCHANGED <<htype, hcfg, hreset, ctype, sent, rsent, hist, wcount>>

-----------------------------------------------------------------------------
(***************************************************************************)
(* htt_stats_reset                                                         *)
(***************************************************************************)

(* The bits `1 << k` can set in a 32-bit int.  A count outside 0..31 is   *)
(* undefined: x86 masks it to its low five bits, and the compiler may as  *)
(* well drop the store; both outcomes are allowed.                        *)
ShlOut(k) == IF k \in 0..31 THEN {{k}} ELSE {{k % 32}, {}}

(* Bug variant of ResetParamPos: the + 1 is missing.                      *)
ResetParamPosNoInc(t) == (t \div 32) % 256

(* u8 param_pos = (type >> 5) + 1.                                        *)
ResetParamPos(t) == ((t \div 32) + 1) % 256

(* The cfg1..cfg3 bitmaps the switch on param_pos can build for type t,   *)
(* with cfg0 = HTT_STAT_DEFAULT_RESET_START_OFFSET: case w of 1..3 (the   *)
(* 32-, 64- and 128-byte cases) sets word w to 1 << (cfg0 + type), less   *)
(* 32 or 64 in the BITMAP32/BITMAP64 macros; any other position sets no   *)
(* bit.                                                                    *)
ResetBits(t) ==
  LET w == ResetParamPos(t) IN
  IF w \in 1..3
    THEN {<<IF w = 1 THEN b ELSE {}, IF w = 2 THEN b ELSE {}, IF w = 3 THEN b ELSE {}>> :
            b \in ShlOut(ResetStart + t - 32 * (w - 1))}
    ELSE {<<{}, {}, {}>>}

(* ath12k_write_htt_stats_reset: kstrtou32 of the input, -E2BIG for a bad *)
(* type, then under the wiphy lock the reset request is sent (cookie 0)   *)
(* and ar->debug.htt_stats.reset records the type.  A parse error or a    *)
(* failed send changes nothing.                                           *)
WriteReset(c) ==
  /\ cpc[c] = "idle"
  /\ \E t \in ResetInputs :
       /\ TypeValid(t)
       /\ \E bits \in ResetBits(t) :
            rsent' = [req |-> t, cfg0 |-> ResetStart, bits |-> bits]
       /\ hreset' = t
  /\ UNCHANGED <<htype, hcfg, held, cpc, ctype, sent, hist, wcount>>

-----------------------------------------------------------------------------
Next ==
  \E c \in Callers :
    \/ WriteType(c) \/ OpenReadType(c) \/ OpenLocked(c) \/ Release(c)
    \/ WriteReset(c)

Spec == Init /\ [][Next]_vars

-----------------------------------------------------------------------------
(***************************************************************************)
(* Invariants                                                              *)
(***************************************************************************)

Cfg == [1..4 -> Nat]

Word == SUBSET (0..31)

TypeOK ==
  /\ htype \in 0..(NumExtStats - 1) /\ hcfg \in Cfg
  /\ hreset \in 0..(NumExtStats - 1)
  /\ held \in Callers \cup {NULL}
  /\ cpc \in [Callers -> {"idle", "typed", "opened"}]
  /\ ctype \in [Callers -> Nat]
  /\ sent \subseteq [type : Nat, cfg : Cfg]
  /\ rsent \in [req : Nat, cfg0 : Nat, bits : Word \X Word \X Word]
  /\ hist \subseteq [type : Nat, cfg : Cfg]
  /\ wcount \in Nat

(* The stats type the firmware is asked for is always one the driver     *)
(* knows and never the reset type: the -EINVAL checks of the type write,  *)
(* the zeroed initial type and open's -EPERM check on the type it read    *)
(* together keep every request sent by open valid.                        *)
RequestTypeValid == \A r \in sent : TypeValid(r.type)

(* A reset request names the type written to htt_stats_reset by exactly  *)
(* one bit: bit cfg0 + (type mod 32) of word (type div 32) + 1 of the     *)
(* cfg1..cfg3 bitmap, with a shift count a 32-bit int allows.             *)
ResetNamesOneType ==
  LET m == rsent
      set == UNION {{<<w, b>> : b \in m.bits[w]} : w \in 1..3}
  IN rsent # NoReset =>
       /\ ResetStart + (m.req % 32) < 32
       /\ set = {<<(m.req \div 32) + 1, ResetStart + (m.req % 32)>>}

(* Open sends the configuration a write to htt_stats_type stored: the     *)
(* type and cfg_param words of every request were stored together by one *)
(* write (or are the initial zeros).                                      *)
SnapshotConsistent ==
  \A r \in sent : \E h \in hist : Request(h.type, h.cfg) = r

(* The bytes written to htt_stats_type fit in its 32-byte buffer with the *)
(* NUL that sscanf needs to stop at.                                      *)
CopyFitsBuffer == wcount < WriteSize

=============================================================================
