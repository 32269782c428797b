---------------------------- MODULE HttCtl_proofs ----------------------------
(***************************************************************************)
(* Proofs about HttCtl for every enum size, reset type, input set and     *)
(* number of callers: every request open sends names a valid stats type,  *)
(* and, when the reset start offset is 0, every reset request names its   *)
(* type by exactly one bit reached by a defined shift.                    *)
(***************************************************************************)
EXTENDS HttCtl, TLAPS

(* RequestTypeValid strengthened: the stored type is below the enum       *)
(* count, the type an open read before the lock is valid (it passed the   *)
(* -EPERM check), and the last reset request is one of the bitmaps the    *)
(* reset write can build for a valid type.                                *)
CtlInv ==
  /\ TypeOK
  /\ \A c \in Callers : cpc[c] = "typed" => TypeValid(ctype[c])
  /\ \A r \in sent : TypeValid(r.type)
  /\ rsent # NoReset => /\ TypeValid(rsent.req) /\ rsent.cfg0 = ResetStart
                        /\ rsent.bits \in ResetBits(rsent.req)

LEMMA InitCtlInv == Init => CtlInv
<1> SUFFICES ASSUME Init PROVE CtlInv
  OBVIOUS
<1>1. htype \in 0..(NumExtStats - 1) /\ hreset \in 0..(NumExtStats - 1)
  BY CtlAssumption DEF Init
<1>2. hcfg \in Cfg /\ hist \subseteq [type : Nat, cfg : Cfg]
  BY DEF Init, CfgZero, Cfg
<1>3. rsent \in [req : Nat, cfg0 : Nat, bits : Word \X Word \X Word]
  BY CtlAssumption DEF Init, NoReset, Word
<1>4. QED
  BY <1>1, <1>2, <1>3, CtlAssumption DEF Init, CtlInv, TypeOK

(* Every bitmap the reset write can build is three words of bits 0..31.   *)
LEMMA ResetBitsType ==
  ASSUME NEW t \in Nat
  PROVE  ResetBits(t) \subseteq Word \X Word \X Word
<1>1. \A k \in Int : ShlOut(k) \subseteq Word
  BY DEF ShlOut, Word
<1>2. SUFFICES ASSUME NEW x \in ResetBits(t) PROVE x \in Word \X Word \X Word
  OBVIOUS
<1> DEFINE w == ResetParamPos(t)
           k == ResetStart + t - 32 * (w - 1)
<1>3. k \in Int
  BY CtlAssumption DEF ResetParamPos
<1>4. CASE w \in 1..3
  <2>1. PICK b \in ShlOut(k) :
          x = <<IF w = 1 THEN b ELSE {}, IF w = 2 THEN b ELSE {}, IF w = 3 THEN b ELSE {}>>
    BY <1>4, Zenon DEF ResetBits
  <2>2. b \in Word
    BY <1>1, <1>3, <2>1
  <2>3. QED
    BY <2>1, <2>2 DEF Word
<1>5. CASE w \notin 1..3
  <2>1. x = <<{}, {}, {}>>
    BY <1>5, Zenon DEF ResetBits
  <2>2. QED
    BY <2>1 DEF Word
<1>6. QED
  BY <1>4, <1>5

LEMMA NextCtlInv == CtlInv /\ [Next]_vars => CtlInv'
<1> SUFFICES ASSUME CtlInv, [Next]_vars PROVE CtlInv'
  OBVIOUS
<1> USE CtlAssumption
<1>1. ASSUME NEW c \in Callers, WriteType(c) PROVE CtlInv'
  <2>1. PICK in \in WriteInputs :
          /\ wcount' = in.count
          /\ IF Len(in.args) # 0 /\ Len(in.args) <= 5 /\ TypeValid(in.args[1])
               THEN /\ htype' = in.args[1]
                    /\ hcfg' = ParsedCfg(in.args)
                    /\ hist' = hist \cup {[type |-> in.args[1], cfg |-> ParsedCfg(in.args)]}
               ELSE UNCHANGED <<htype, hcfg, hist>>
    BY <1>1 DEF WriteType
  <2>2. in.count \in Nat /\ in.args \in Seq(Nat)
    OBVIOUS
  <2>3. CASE Len(in.args) # 0 /\ Len(in.args) <= 5 /\ TypeValid(in.args[1])
    <3>1. in.args[1] \in Nat /\ ParsedCfg(in.args) \in Cfg
      BY <2>2, <2>3 DEF ParsedCfg, Cfg
    <3>2. htype' \in 0..(NumExtStats - 1)
      BY <2>1, <2>3, <3>1 DEF TypeValid
    <3>3. hcfg' \in Cfg /\ hist' \subseteq [type : Nat, cfg : Cfg]
      BY <2>1, <2>3, <3>1 DEF CtlInv, TypeOK
    <3>4. QED
      BY <1>1, <2>1, <2>2, <3>2, <3>3 DEF WriteType, CtlInv, TypeOK
  <2>4. CASE ~(Len(in.args) # 0 /\ Len(in.args) <= 5 /\ TypeValid(in.args[1]))
    BY <1>1, <2>1, <2>2, <2>4 DEF WriteType, CtlInv, TypeOK
  <2>5. QED
    BY <2>3, <2>4
<1>2. ASSUME NEW c \in Callers, OpenReadType(c) PROVE CtlInv'
  <2>1. TypeValid(htype)
    BY <1>2 DEF OpenReadType, CtlInv, TypeOK, TypeValid
  <2>2. QED
    BY <1>2, <2>1 DEF OpenReadType, CtlInv, TypeOK
<1>3. ASSUME NEW c \in Callers, OpenLocked(c) PROVE CtlInv'
  <2>1. TypeValid(ctype[c]) /\ ctype[c] \in Nat
    BY <1>3 DEF OpenLocked, CtlInv, TypeOK
  <2>2. Request(ctype[c], hcfg) \in [type : Nat, cfg : Cfg]
        /\ Request(ctype[c], hcfg).type = ctype[c]
    BY <2>1 DEF Request, CtlInv, TypeOK, CfgZero, Cfg
  <2>3. sent' \subseteq sent \cup {Request(ctype[c], hcfg)}
    BY <1>3 DEF OpenLocked
  <2>4. /\ \A r \in sent' : TypeValid(r.type)
        /\ sent' \subseteq [type : Nat, cfg : Cfg]
    BY <2>1, <2>2, <2>3 DEF CtlInv, TypeOK
  <2>5. cpc' \in [Callers -> {"idle", "typed", "opened"}]
        /\ \A d \in Callers : cpc'[d] = "typed" => d # c /\ cpc'[d] = cpc[d]
        /\ held' \in Callers \cup {NULL}
    BY <1>3 DEF OpenLocked, CtlInv, TypeOK
  <2>6. QED
    BY <1>3, <2>4, <2>5 DEF OpenLocked, CtlInv, TypeOK
<1>4. ASSUME NEW c \in Callers, Release(c) PROVE CtlInv'
  BY <1>4 DEF Release, CtlInv, TypeOK
<1>5. ASSUME NEW c \in Callers, WriteReset(c) PROVE CtlInv'
  <2>1. PICK t \in ResetInputs :
          /\ TypeValid(t)
          /\ \E bits \in ResetBits(t) :
               rsent' = [req |-> t, cfg0 |-> ResetStart, bits |-> bits]
          /\ hreset' = t
    BY <1>5 DEF WriteReset
  <2>2. PICK bits \in ResetBits(t) :
          rsent' = [req |-> t, cfg0 |-> ResetStart, bits |-> bits]
    BY <2>1
  <2>3. t \in 0..(NumExtStats - 1) /\ bits \in Word \X Word \X Word
    BY <2>1, <2>2, ResetBitsType DEF TypeValid
  <2>4. rsent' \in [req : Nat, cfg0 : Nat, bits : Word \X Word \X Word]
        /\ rsent'.req = t /\ rsent'.cfg0 = ResetStart /\ rsent'.bits = bits
    BY <2>2, <2>3
  <2>5. QED
    BY <1>5, <2>1, <2>2, <2>3, <2>4 DEF WriteReset, CtlInv, TypeOK
<1>6. CASE UNCHANGED vars
  BY <1>6 DEF vars, CtlInv, TypeOK
<1>7. QED
  BY <1>1, <1>2, <1>3, <1>4, <1>5, <1>6 DEF Next

(* The stats type in every request ath12k_open_htt_stats sends is valid:  *)
(* the write's -EINVAL checks, the zeroed initial type and open's -EPERM  *)
(* check on the type it read before the lock (RequestTypeValid, checked   *)
(* by the ctl_core run).                                                  *)
THEOREM RequestTypeSafe == Spec => []RequestTypeValid
<1>1. Init => CtlInv
  BY InitCtlInv
<1>2. CtlInv /\ [Next]_vars => CtlInv'
  BY NextCtlInv
<1>3. CtlInv => RequestTypeValid
  BY DEF CtlInv, RequestTypeValid
<1>4. QED
  BY <1>1, <1>2, <1>3, PTL DEF Spec

(* The configuration stays well formed (TypeOK, checked by the ctl_core   *)
(* run): the stored type and the recorded reset type stay below           *)
(* ATH12K_DBG_HTT_NUM_EXT_STATS, which the write's -EINVAL and the reset  *)
(* write's -E2BIG checks guarantee, and every reset bitmap is three       *)
(* 32-bit words.                                                          *)
THEOREM TypeCorrect == Spec => []TypeOK
<1>1. Init => CtlInv
  BY InitCtlInv
<1>2. CtlInv /\ [Next]_vars => CtlInv'
  BY NextCtlInv
<1>3. CtlInv => TypeOK
  BY DEF CtlInv
<1>4. QED
  BY <1>1, <1>2, <1>3, PTL DEF Spec

(* With a start offset of 0, the bitmap built for a type below 96 has     *)
(* exactly bit type mod 32 of word (type >> 5) + 1 set.                    *)
LEMMA ResetBitsAtZero ==
  ASSUME ResetStart = 0, NEW t \in 0..95, NEW x \in ResetBits(t)
  PROVE  UNION {{<<i, b>> : b \in x[i]} : i \in 1..3} = {<<(t \div 32) + 1, t % 32>>}
<1> DEFINE w == ResetParamPos(t)
           k == t % 32
<1>1. w = (t \div 32) + 1 /\ w \in 1..3
  BY DEF ResetParamPos
<1>2. ResetStart + t - 32 * (w - 1) = k /\ k \in 0..31
  BY <1>1
<1>3. ShlOut(ResetStart + t - 32 * (w - 1)) = {{k}}
  BY <1>2 DEF ShlOut
<1>4. x = <<IF w = 1 THEN {k} ELSE {}, IF w = 2 THEN {k} ELSE {},
            IF w = 3 THEN {k} ELSE {}>>
  BY <1>1, <1>3, Zenon DEF ResetBits
<1>5. \A i \in 1..3 : x[i] = IF i = w THEN {k} ELSE {}
  <2> SUFFICES ASSUME NEW i \in 1..3 PROVE x[i] = IF i = w THEN {k} ELSE {}
    OBVIOUS
  <2>1. CASE i = 1
    BY <1>4, <2>1
  <2>2. CASE i = 2
    BY <1>4, <2>2
  <2>3. CASE i = 3
    BY <1>4, <2>3
  <2>4. QED
    BY <2>1, <2>2, <2>3
<1>6. QED
  BY <1>1, <1>5

(* With HTT_STAT_DEFAULT_RESET_START_OFFSET = 0, ath12k_write_htt_stats_  *)
(* reset names the written type by exactly one bit, at position type mod *)
(* 32 of word (type >> 5) + 1, and never shifts by 32 or more, for every *)
(* enum of at most 96 types (ResetNamesOneType, checked by ctl_core; with *)
(* offset 1, TLC finds type 31 shifting by 32).                           *)
THEOREM ResetBitSafe ==
  ASSUME ResetStart = 0
  PROVE  Spec => []ResetNamesOneType
<1>1. Init => CtlInv
  BY InitCtlInv
<1>2. CtlInv /\ [Next]_vars => CtlInv'
  BY NextCtlInv
<1>3. CtlInv => ResetNamesOneType
  <2> SUFFICES ASSUME CtlInv, rsent # NoReset
               PROVE  LET set == UNION {{<<i, b>> : b \in rsent.bits[i]} : i \in 1..3}
                      IN /\ ResetStart + (rsent.req % 32) < 32
                         /\ set = {<<(rsent.req \div 32) + 1, ResetStart + (rsent.req % 32)>>}
    BY DEF ResetNamesOneType
  <2>1. TypeValid(rsent.req) /\ rsent.bits \in ResetBits(rsent.req)
    BY DEF CtlInv
  <2>2. rsent.req \in Nat
    BY DEF CtlInv, TypeOK
  <2>3. rsent.req \in 0..95
    <3>1. NumExtStats \in 1..96
      BY CtlAssumption
    <3>2. QED
      BY <2>1, <2>2, <3>1 DEF TypeValid
  <2>4. UNION {{<<i, b>> : b \in rsent.bits[i]} : i \in 1..3}
          = {<<(rsent.req \div 32) + 1, rsent.req % 32>>}
    BY <2>1, <2>3, ResetBitsAtZero
  <2>5. ResetStart + (rsent.req % 32) = rsent.req % 32 /\ rsent.req % 32 < 32
    BY <2>3
  <2>6. QED
    BY <2>4, <2>5
<1>4. QED
  BY <1>1, <1>2, <1>3, PTL DEF Spec

=============================================================================
