--------------------------- MODULE HttStats_proofs ---------------------------
(***************************************************************************)
(* Proofs about HttStats for every value of the constants: type           *)
(* correctness, and that the request-ownership invariant of the           *)
(* open / release / timeout paths holds in every reachable state.         *)
(***************************************************************************)
EXTENDS HttStats, TLAPS

(* TypeOK strengthened with what the actions dereference: a caller        *)
(* inside open or holding the file has an object, and a busy handler has  *)
(* loaded an object and a message.                                        *)
TypeInv ==
  /\ TypeOK
  /\ \A c \in Callers : cpc[c] # "idle" => cobj[c] \in Objs
  /\ hpc # "idle" => hptr \in Objs /\ hmsg \in Frag

LEMMA ReplyType ==
  ASSUME NEW o \in Objs, NEW bad \in 0..NumFrags
  PROVE  Reply(o, bad) \in Seq(Frag)
  BY NumFragsAssumption DEF Reply, Frag

LEMMA InitTypeInv == Init => TypeInv
<1> SUFFICES ASSUME Init PROVE TypeInv
  OBVIOUS
<1>1. buf \in [Objs -> Seq(Frag)]
  BY DEF Init
<1>2. cpc \in [Callers -> CallerStates] /\ \A c \in Callers : cpc[c] = "idle"
  BY DEF Init, CallerStates
<1>3. cobj \in [Callers -> ObjOrNull] /\ wlock \in Callers \cup {NULL}
        /\ slot \in ObjOrNull
  BY DEF Init, ObjOrNull
<1>4. done \in [Objs -> BOOLEAN] /\ compl \in [Objs -> Nat]
  BY DEF Init
<1>5. hpc = "idle" /\ hpc \in HandlerStates /\ hptr \in ObjOrNull
        /\ hmsg \in Frag \cup {NULL} /\ hsend \in BOOLEAN
  BY DEF Init, HandlerStates, ObjOrNull
<1>6. fwq \in Seq(Objs) /\ chan \in Seq(Frag) /\ live \subseteq used
        /\ used \subseteq Objs
  BY DEF Init
<1>7. QED
  BY <1>1, <1>2, <1>3, <1>4, <1>5, <1>6 DEF TypeInv, TypeOK


LEMMA NextTypeInv == TypeInv /\ [Next]_vars => TypeInv'
<1> SUFFICES ASSUME TypeInv, [Next]_vars PROVE TypeInv'
  OBVIOUS
<1> USE DEF TypeInv, TypeOK
<1>1. ASSUME NEW c \in Callers, OpenAlloc(c) PROVE TypeInv'
  <2>1. CASE slot = NULL /\ used # Objs
    <3>1. PICK o \in Objs \ used :
            /\ wlock' = c
            /\ used' = used \cup {o}
            /\ live' = live \cup {o}
            /\ slot' = o
            /\ cobj' = [cobj EXCEPT ![c] = o]
            /\ done' = [done EXCEPT ![o] = FALSE]
            /\ compl' = [compl EXCEPT ![o] = 0]
            /\ buf' = [buf EXCEPT ![o] = <<>>]
            /\ cpc' = [cpc EXCEPT ![c] = "alloced"]
      BY <1>1, <2>1 DEF OpenAlloc
    <3>2. UNCHANGED <<hpc, hptr, hmsg, hsend, fwq, chan>>
      BY <1>1 DEF OpenAlloc, handlerVars
    <3>3. buf' \in [Objs -> Seq(Frag)]
      BY <3>1
    <3>4. cpc' \in [Callers -> CallerStates] /\ cobj' \in [Callers -> ObjOrNull]
      BY <3>1 DEF CallerStates, ObjOrNull
    <3>5. \A d \in Callers : cpc'[d] # "idle" => cobj'[d] \in Objs
      BY <3>1
    <3>6. done' \in [Objs -> BOOLEAN] /\ compl' \in [Objs -> Nat]
      BY <3>1
    <3>7. wlock' \in Callers \cup {NULL} /\ slot' \in ObjOrNull
            /\ live' \subseteq used' /\ used' \subseteq Objs
      BY <3>1 DEF ObjOrNull
    <3>8. QED
      BY <3>2, <3>3, <3>4, <3>5, <3>6, <3>7
  <2>2. CASE ~(slot = NULL /\ used # Objs)
    BY <1>1, <2>2 DEF OpenAlloc, callerVars, reqVars, handlerVars
  <2>3. QED
    BY <2>1, <2>2
<1>2. ASSUME NEW c \in Callers, OpenSend(c) PROVE TypeInv'
  <2>1. cobj[c] \in Objs /\ cpc[c] = "alloced"
    BY <1>2 DEF OpenSend, Goto
  <2>2. compl' \in [Objs -> Nat] /\ done' \in [Objs -> BOOLEAN]
    BY <1>2 DEF OpenSend
  <2>3. cpc' \in [Callers -> CallerStates]
        /\ \A d \in Callers : cpc'[d] # "idle" => cobj'[d] \in Objs
    BY <1>2, <2>1 DEF OpenSend, Goto, CallerStates
  <2>4. fwq' \in Seq(Objs)
    <3>1. CASE Goto(c, "alloced", "waiting") /\ fwq' = Append(fwq, cobj[c])
      BY <2>1, <3>1
    <3>2. CASE Goto(c, "alloced", "free") /\ UNCHANGED fwq
      BY <3>2
    <3>3. QED
      BY <1>2, <3>1, <3>2 DEF OpenSend
  <2>5. UNCHANGED <<wlock, slot, live, used, cobj, buf, hpc, hptr, hmsg, hsend, chan>>
    BY <1>2 DEF OpenSend, handlerVars
  <2>6. QED
    BY <2>2, <2>3, <2>4, <2>5
<1>3. ASSUME NEW c \in Callers, WaitDone(c) PROVE TypeInv'
  <2>1. cobj[c] \in Objs /\ compl[cobj[c]] > 0
    BY <1>3 DEF WaitDone, Goto
  <2>2. compl' \in [Objs -> Nat]
    BY <1>3, <2>1 DEF WaitDone
  <2>3. cpc' \in [Callers -> CallerStates]
        /\ \A d \in Callers : cpc'[d] # "idle" => cobj'[d] \in Objs
    BY <1>3 DEF WaitDone, Goto, CallerStates
  <2>4. UNCHANGED <<slot, live, used, cobj, done, buf, hpc, hptr, hmsg, hsend, fwq, chan>>
        /\ wlock' = NULL
    BY <1>3 DEF WaitDone, handlerVars
  <2>5. QED
    BY <2>2, <2>3, <2>4
<1>4. ASSUME NEW c \in Callers, WaitTimeout(c) PROVE TypeInv'
  <2>1. cobj[c] \in Objs
    BY <1>4 DEF WaitTimeout
  <2>2. done' \in [Objs -> BOOLEAN] /\ wlock' \in Callers \cup {NULL}
    BY <1>4, <2>1 DEF WaitTimeout
  <2>3. cpc' \in [Callers -> CallerStates]
        /\ \A d \in Callers : cpc'[d] # "idle" => cobj'[d] \in Objs
    BY <1>4 DEF WaitTimeout, CallerStates
  <2>4. UNCHANGED <<slot, live, used, cobj, compl, buf, hpc, hptr, hmsg, hsend, fwq, chan>>
    BY <1>4 DEF WaitTimeout, handlerVars
  <2>5. QED
    BY <2>2, <2>3, <2>4
<1>5. ASSUME NEW c \in Callers, OpenFree(c) PROVE TypeInv'
  <2>1. cpc' \in [Callers -> CallerStates]
        /\ \A d \in Callers : cpc'[d] # "idle" => cobj'[d] \in Objs
    BY <1>5 DEF OpenFree, Goto, CallerStates
  <2>2. UNCHANGED <<wlock, slot, used, cobj, done, compl, buf, hpc, hptr, hmsg, hsend, fwq, chan>>
        /\ live' \subseteq live
    BY <1>5 DEF OpenFree, reqVars, handlerVars
  <2>3. QED
    BY <2>1, <2>2
<1>6. ASSUME NEW c \in Callers, Release(c) PROVE TypeInv'
  <2>1. cpc' \in [Callers -> CallerStates]
        /\ \A d \in Callers : cpc'[d] # "idle" => cobj'[d] \in Objs
    BY <1>6 DEF Release, Goto, CallerStates
  <2>2. UNCHANGED <<slot, used, cobj, done, compl, buf, hpc, hptr, hmsg, hsend, fwq, chan>>
        /\ live' \subseteq live /\ wlock' = c
    BY <1>6 DEF Release, reqVars, handlerVars
  <2>3. QED
    BY <2>1, <2>2
<1>7. ASSUME NEW c \in Callers, ClearSlot(c) PROVE TypeInv'
  <2>1. cpc' \in [Callers -> CallerStates] /\ cobj' \in [Callers -> ObjOrNull]
        /\ \A d \in Callers : cpc'[d] # "idle" => cobj'[d] \in Objs
    BY <1>7 DEF ClearSlot, Goto, CallerStates, ObjOrNull
  <2>2. UNCHANGED <<live, used, done, compl, buf, hpc, hptr, hmsg, hsend, fwq, chan>>
        /\ slot' = NULL /\ wlock' = NULL
    BY <1>7 DEF ClearSlot, reqVars, handlerVars
  <2>3. QED
    BY <2>1, <2>2 DEF ObjOrNull
<1>8. CASE HandlerLoad
  <2>1. chan # <<>> /\ chan' = Tail(chan) /\ chan' \in Seq(Frag)
    BY <1>8 DEF HandlerLoad
  <2>2. Head(chan) \in Frag
    BY <2>1
  <2>3. hpc' \in HandlerStates /\ (hpc' # "idle" => hptr' \in Objs /\ hmsg' \in Frag)
        /\ hptr' \in ObjOrNull /\ hmsg' \in Frag \cup {NULL}
    BY <1>8, <2>2 DEF HandlerLoad, HandlerStates, ObjOrNull
  <2>4. UNCHANGED <<wlock, slot, live, used, cpc, cobj, done, compl, buf, hsend, fwq>>
    BY <1>8 DEF HandlerLoad, callerVars, reqVars
  <2>5. QED
    BY <2>1, <2>3, <2>4
<1>9. CASE HandlerSetDone
  <2>1. hptr \in Objs /\ hmsg \in Frag
    BY <1>9 DEF HandlerSetDone
  <2>2. done' \in [Objs -> BOOLEAN] /\ hsend' \in BOOLEAN
    BY <1>9, <2>1 DEF HandlerSetDone, Frag
  <2>3. hpc' \in HandlerStates /\ hpc' # "idle"
    BY <1>9 DEF HandlerSetDone, HandlerStates
  <2>4. UNCHANGED <<wlock, slot, live, used, cpc, cobj, compl, buf, hptr, hmsg, fwq, chan>>
    BY <1>9 DEF HandlerSetDone, callerVars
  <2>5. QED
    BY <2>1, <2>2, <2>3, <2>4
<1>10. CASE HandlerParse
  <2>1. hptr \in Objs /\ hmsg \in Frag
    BY <1>10 DEF HandlerParse
  <2>2. buf' \in [Objs -> Seq(Frag)]
    <3>1. CASE hmsg.lenOk
      <4>1. buf' = [buf EXCEPT ![hptr] = Append(@, hmsg)]
        BY <1>10, <3>1 DEF HandlerParse
      <4>2. Append(buf[hptr], hmsg) \in Seq(Frag)
        BY <2>1
      <4>3. QED
        BY <2>1, <4>1, <4>2
    <3>2. CASE ~hmsg.lenOk
      BY <1>10, <3>2 DEF HandlerParse
    <3>3. QED
      BY <3>1, <3>2
  <2>3. hpc' \in HandlerStates
    BY <1>10 DEF HandlerParse, HandlerStates
  <2>4. UNCHANGED <<wlock, slot, live, used, cpc, cobj, done, compl, hptr, hmsg, hsend, fwq, chan>>
    BY <1>10 DEF HandlerParse, callerVars
  <2>5. QED
    BY <2>1, <2>2, <2>3, <2>4
<1>11. CASE HandlerComplete
  <2>1. hptr \in Objs
    BY <1>11 DEF HandlerComplete
  <2>2. compl' \in [Objs -> Nat] /\ hpc' \in HandlerStates
    BY <1>11, <2>1 DEF HandlerComplete, HandlerStates
  <2>3. UNCHANGED <<wlock, slot, live, used, cpc, cobj, done, buf, hptr, hmsg, hsend, fwq, chan>>
    BY <1>11 DEF HandlerComplete, callerVars
  <2>4. QED
    BY <1>11, <2>2, <2>3 DEF HandlerComplete
<1>12. CASE FwReply
  <2>1. PICK bad \in 0..NumFrags : chan' = chan \o Reply(Head(fwq), bad)
    BY <1>12 DEF FwReply
  <2>2. fwq # <<>> /\ Head(fwq) \in Objs /\ fwq' = Tail(fwq) /\ fwq' \in Seq(Objs)
    BY <1>12 DEF FwReply
  <2>3. chan' \in Seq(Frag)
    BY <2>1, <2>2, ReplyType
  <2>4. UNCHANGED <<wlock, slot, live, used, cpc, cobj, done, compl, buf, hpc, hptr, hmsg, hsend>>
    BY <1>12 DEF FwReply, callerVars, reqVars, handlerVars
  <2>5. QED
    BY <2>2, <2>3, <2>4
<1>13. CASE FwIgnore
  <2>1. fwq' \in Seq(Objs)
    BY <1>13 DEF FwIgnore
  <2>2. UNCHANGED <<wlock, slot, live, used, cpc, cobj, done, compl, buf, hpc, hptr, hmsg, hsend, chan>>
    BY <1>13 DEF FwIgnore, callerVars, reqVars, handlerVars
  <2>3. QED
    BY <2>1, <2>2
<1>14. CASE UNCHANGED vars
  BY <1>14 DEF vars, callerVars, reqVars, handlerVars
<1>15. QED
  BY <1>1, <1>2, <1>3, <1>4, <1>5, <1>6, <1>7, <1>8, <1>9, <1>10, <1>11,
     <1>12, <1>13, <1>14 DEF Next, Caller, Handler, Firmware

(* Every reachable state is well typed.                                   *)
THEOREM TypeCorrect == Spec => []TypeOK
<1>1. Init => TypeInv
  BY InitTypeInv
<1>2. TypeInv /\ [Next]_vars => TypeInv'
  BY NextTypeInv
<1>3. TypeInv => TypeOK
  BY DEF TypeInv
<1>4. QED
  BY <1>1, <1>2, <1>3, PTL DEF Spec

-----------------------------------------------------------------------------
(***************************************************************************)
(* Request ownership.  The -EAGAIN check alone keeps a second open out:  *)
(* while any caller is between OpenAlloc and ClearSlot, stats_req names  *)
(* that caller's request, so it is non-NULL and every other caller fails *)
(* with -EAGAIN.  The wiphy lock is not needed for this.                  *)
(***************************************************************************)
Busy(c) == cpc[c] # "idle"
Owns(c) == cpc[c] \in {"alloced", "waiting", "opened", "free"}

OwnInv ==
  /\ TypeInv
  /\ \A c \in Callers : ~Busy(c) => cobj[c] = NULL
  /\ \A c, d \in Callers : Busy(c) /\ Busy(d) => c = d
  /\ \A c \in Callers : Busy(c) => slot = cobj[c]
  /\ (\A c \in Callers : ~Busy(c)) => slot = NULL
  /\ \A c \in Callers : Owns(c) => cobj[c] \in live
  /\ \A c \in Callers : cpc[c] = "clear" => cobj[c] \notin live
  /\ live \subseteq {slot}

LEMMA InitOwnInv == Init => OwnInv
<1> SUFFICES ASSUME Init PROVE OwnInv
  OBVIOUS
<1>1. TypeInv
  BY InitTypeInv
<1>2. \A c \in Callers : ~Busy(c) /\ cobj[c] = NULL
  BY DEF Init, Busy
<1>3. QED
  BY <1>1, <1>2 DEF Init, OwnInv, Owns, Busy

(* The steps that leave cpc, cobj, slot and live alone keep OwnInv.       *)
LEMMA OwnInvFrame ==
  ASSUME OwnInv, TypeInv', UNCHANGED <<cpc, cobj, slot, live>>
  PROVE  OwnInv'
  BY DEF OwnInv, Busy, Owns

LEMMA NextOwnInv == OwnInv /\ [Next]_vars => OwnInv'
<1> SUFFICES ASSUME OwnInv, [Next]_vars PROVE OwnInv'
  OBVIOUS
<1>0. TypeInv /\ TypeInv'
  BY NextTypeInv DEF OwnInv
<1> USE DEF OwnInv, Busy, Owns
<1>1. ASSUME NEW c \in Callers, OpenAlloc(c) PROVE OwnInv'
  <2>1. CASE slot = NULL /\ used # Objs
    <3>1. PICK o \in Objs \ used :
            /\ live' = live \cup {o}
            /\ slot' = o
            /\ cobj' = [cobj EXCEPT ![c] = o]
            /\ cpc' = [cpc EXCEPT ![c] = "alloced"]
      BY <1>1, <2>1 DEF OpenAlloc
    <3>2. \A d \in Callers : ~Busy(d)
      BY <1>0, <2>1, ObjsAssumption DEF TypeInv
    <3>3. live = {}
      BY <1>0, <2>1, ObjsAssumption DEF TypeInv, TypeOK
    <3>4. cpc[c] = "idle"
      BY <1>1 DEF OpenAlloc
    <3>5. QED
      BY <1>0, <3>1, <3>2, <3>3, <3>4 DEF TypeInv, TypeOK
  <2>2. CASE ~(slot = NULL /\ used # Objs)
    BY <1>0, <1>1, <2>2, OwnInvFrame DEF OpenAlloc, callerVars, reqVars
  <2>3. QED
    BY <2>1, <2>2
<1>2. ASSUME NEW c \in Callers, OpenSend(c) PROVE OwnInv'
  <2>1. cpc[c] = "alloced" /\ cpc'[c] \in {"waiting", "free"}
        /\ \A d \in Callers \ {c} : cpc'[d] = cpc[d]
    BY <1>0, <1>2 DEF OpenSend, Goto, TypeInv, TypeOK
  <2>2. UNCHANGED <<cobj, slot, live>>
    BY <1>2 DEF OpenSend
  <2>3. QED
    BY <1>0, <2>1, <2>2 DEF TypeInv, TypeOK
<1>3. ASSUME NEW c \in Callers, WaitDone(c) PROVE OwnInv'
  <2>1. cpc[c] = "waiting" /\ cpc'[c] = "opened"
        /\ \A d \in Callers \ {c} : cpc'[d] = cpc[d]
    BY <1>0, <1>3 DEF WaitDone, Goto, TypeInv, TypeOK
  <2>2. UNCHANGED <<cobj, slot, live>>
    BY <1>3 DEF WaitDone
  <2>3. QED
    BY <1>0, <2>1, <2>2 DEF TypeInv, TypeOK
<1>4. ASSUME NEW c \in Callers, WaitTimeout(c) PROVE OwnInv'
  <2>1. cpc[c] = "waiting" /\ cpc'[c] \in {"opened", "free"}
        /\ \A d \in Callers \ {c} : cpc'[d] = cpc[d]
    BY <1>0, <1>4 DEF WaitTimeout, TypeInv, TypeOK
  <2>2. UNCHANGED <<cobj, slot, live>>
    BY <1>4 DEF WaitTimeout
  <2>3. QED
    BY <1>0, <2>1, <2>2 DEF TypeInv, TypeOK
<1>5. ASSUME NEW c \in Callers, OpenFree(c) PROVE OwnInv'
  <2>1. cpc[c] = "free" /\ cpc'[c] = "clear"
        /\ \A d \in Callers \ {c} : cpc'[d] = cpc[d]
    BY <1>0, <1>5 DEF OpenFree, Goto, TypeInv, TypeOK
  <2>2. UNCHANGED <<cobj, slot>> /\ live' = live \ {cobj[c]}
    BY <1>5 DEF OpenFree
  <2>3. QED
    BY <1>0, <2>1, <2>2 DEF TypeInv, TypeOK
<1>6. ASSUME NEW c \in Callers, Release(c) PROVE OwnInv'
  <2>1. cpc[c] = "opened" /\ cpc'[c] = "clear"
        /\ \A d \in Callers \ {c} : cpc'[d] = cpc[d]
    BY <1>0, <1>6 DEF Release, Goto, TypeInv, TypeOK
  <2>2. UNCHANGED <<cobj, slot>> /\ live' = live \ {cobj[c]}
    BY <1>6 DEF Release
  <2>3. QED
    BY <1>0, <2>1, <2>2 DEF TypeInv, TypeOK
<1>7. ASSUME NEW c \in Callers, ClearSlot(c) PROVE OwnInv'
  <2>1. cpc[c] = "clear" /\ cpc'[c] = "idle"
        /\ \A d \in Callers \ {c} : cpc'[d] = cpc[d]
    BY <1>0, <1>7 DEF ClearSlot, Goto, TypeInv, TypeOK
  <2>2. slot' = NULL /\ cobj' = [cobj EXCEPT ![c] = NULL] /\ UNCHANGED live
    BY <1>7 DEF ClearSlot
  <2>3. live = {}
    BY <2>1
  <2>4. QED
    BY <1>0, <2>1, <2>2, <2>3 DEF TypeInv, TypeOK
<1>8. CASE Handler \/ Firmware \/ UNCHANGED vars
  <2>1. UNCHANGED <<cpc, cobj, slot, live>>
    BY <1>8 DEF Handler, Firmware, HandlerLoad, HandlerSetDone, HandlerParse,
                HandlerComplete, FwReply, FwIgnore, vars, callerVars
  <2>2. QED
    BY <1>0, <2>1, OwnInvFrame
<1>9. QED
  BY <1>1, <1>2, <1>3, <1>4, <1>5, <1>6, <1>7, <1>8 DEF Next, Caller

(* ath12k_open_htt_stats and ath12k_release_htt_stats keep a single      *)
(* stats_req per radio, owned by the caller that allocated it: for every *)
(* number of callers and objects, RequestOwnership holds in every state. *)
THEOREM OwnershipSafe == Spec => []RequestOwnership
<1>1. Init => OwnInv
  BY InitOwnInv
<1>2. OwnInv /\ [Next]_vars => OwnInv'
  BY NextOwnInv
<1>3. OwnInv => RequestOwnership
  <2> SUFFICES ASSUME OwnInv PROVE RequestOwnership
    OBVIOUS
  <2>1. \A x, y \in live : x = y
    BY DEF OwnInv
  <2>2. ASSUME NEW x \in live PROVE x \in Held
    <3>1. x = slot /\ slot \in Objs
      BY <2>2 DEF OwnInv, TypeInv, TypeOK
    <3>2. PICK c \in Callers : Busy(c)
      BY <3>1, ObjsAssumption DEF OwnInv
    <3>3. QED
      BY <3>1, <3>2, ObjsAssumption DEF OwnInv, Held
  <2>3. slot # NULL => slot \in Held
    <3>1. SUFFICES ASSUME slot # NULL PROVE slot \in Held
      OBVIOUS
    <3>2. PICK c \in Callers : Busy(c)
      BY <3>1 DEF OwnInv
    <3>3. slot = cobj[c] /\ cobj[c] \in Objs
      BY <3>2 DEF OwnInv, TypeInv, Busy
    <3>4. QED
      BY <3>3, ObjsAssumption DEF Held
  <2>4. QED
    BY <2>1, <2>2, <2>3 DEF RequestOwnership
<1>4. QED
  BY <1>1, <1>2, <1>3, PTL DEF Spec

-----------------------------------------------------------------------------
(***************************************************************************)
(* Refinement of HttSession.  OwnInv makes the mapping well defined: the  *)
(* session owner is the one busy caller, whose request stats_req names,   *)
(* and nobody when every caller is idle.                                  *)
(***************************************************************************)

LEMMA OwnerFromInv ==
  ASSUME NEW cp \in [Callers -> CallerStates], NEW cb \in [Callers -> ObjOrNull],
         NEW sl,
         \A d \in Callers : cp[d] = "idle" => cb[d] = NULL,
         \A d, e \in Callers : cp[d] # "idle" /\ cp[e] # "idle" => d = e,
         \A d \in Callers : cp[d] # "idle" => sl = cb[d] /\ cb[d] \in Objs,
         (\A d \in Callers : cp[d] = "idle") => sl = NULL
  PROVE  /\ \A c \in Callers : cp[c] # "idle" => OwnerOf(cb, sl) = c
         /\ (\A c \in Callers : cp[c] = "idle") => OwnerOf(cb, sl) = NULL
<1>1. ASSUME NEW c \in Callers, cp[c] # "idle" PROVE OwnerOf(cb, sl) = c
  <2>1. sl = cb[c] /\ sl \in Objs /\ sl # NULL
    BY <1>1, ObjsAssumption
  <2>2. \A d \in Callers : cb[d] = sl => d = c
    BY <1>1, <2>1
  <2>3. (CHOOSE d \in Callers : cb[d] = sl) = c
    BY <2>1, <2>2
  <2>4. QED
    BY <2>1, <2>3 DEF OwnerOf
<1>2. (\A c \in Callers : cp[c] = "idle") => OwnerOf(cb, sl) = NULL
  BY DEF OwnerOf
<1>3. QED
  BY <1>1, <1>2

(* The owner of the session before and after a step, from OwnInv.         *)
LEMMA OwnerFacts ==
  ASSUME OwnInv
  PROVE  /\ \A c \in Callers : cpc[c] # "idle" => SlotOwner = c
         /\ (\A c \in Callers : cpc[c] = "idle") => SlotOwner = NULL
<1>1. /\ cpc \in [Callers -> CallerStates] /\ cobj \in [Callers -> ObjOrNull]
      /\ \A d \in Callers : cpc[d] = "idle" => cobj[d] = NULL
      /\ \A d, e \in Callers : cpc[d] # "idle" /\ cpc[e] # "idle" => d = e
      /\ \A d \in Callers : cpc[d] # "idle" => slot = cobj[d] /\ cobj[d] \in Objs
      /\ (\A d \in Callers : cpc[d] = "idle") => slot = NULL
  BY DEF OwnInv, TypeInv, TypeOK, Busy
<1>2. QED
  BY <1>1, OwnerFromInv DEF SlotOwner

LEMMA InitRefines == Init => Session!Init
BY DEF Init, Session!Init, SlotOwner, OwnerOf, SessionState

(* A step of one caller changes that caller's session state only.        *)
LEMMA SessionStep ==
  ASSUME NEW c \in Callers, NEW x \in CallerStates,
         cpc \in [Callers -> CallerStates], cpc' = [cpc EXCEPT ![c] = x]
  PROVE  SessionState' = [SessionState EXCEPT ![c] = SessionState'[c]]
BY DEF SessionState

(* Every step of the driver is a step of the session contract or leaves   *)
(* the owner and every caller's session state alone.                      *)
LEMMA NextRefines == OwnInv /\ [Next]_vars => [Session!Next]_Session!vars
<1> SUFFICES ASSUME OwnInv, [Next]_vars PROVE [Session!Next]_Session!vars
  OBVIOUS
<1>0. /\ OwnInv'
      /\ cpc \in [Callers -> CallerStates] /\ cpc' \in [Callers -> CallerStates]
  BY NextOwnInv DEF OwnInv, TypeInv, TypeOK
<1>a. /\ \A c \in Callers : cpc[c] # "idle" => SlotOwner = c
      /\ (\A c \in Callers : cpc[c] = "idle") => SlotOwner = NULL
  BY OwnerFacts
<1>b. /\ \A c \in Callers : cpc'[c] # "idle" => SlotOwner' = c
      /\ (\A c \in Callers : cpc'[c] = "idle") => SlotOwner' = NULL
  <2>1. /\ cobj' \in [Callers -> ObjOrNull]
        /\ \A d \in Callers : cpc'[d] = "idle" => cobj'[d] = NULL
        /\ \A d, e \in Callers : cpc'[d] # "idle" /\ cpc'[e] # "idle" => d = e
        /\ \A d \in Callers : cpc'[d] # "idle" => slot' = cobj'[d] /\ cobj'[d] \in Objs
        /\ (\A d \in Callers : cpc'[d] = "idle") => slot' = NULL
    BY <1>0 DEF OwnInv, TypeInv, TypeOK, Busy
  <2>2. QED
    BY <1>0, <2>1, OwnerFromInv DEF SlotOwner
<1>u. ASSUME UNCHANGED <<cpc, cobj, slot>> PROVE UNCHANGED Session!vars
  BY <1>u DEF Session!vars, SessionState, SlotOwner
(* A caller's step between two states of one session phase.               *)
<1>p. ASSUME NEW c \in Callers, NEW x \in CallerStates,
             cpc' = [cpc EXCEPT ![c] = x], UNCHANGED <<cobj, slot>>,
             SessionState'[c] = SessionState[c]
      PROVE  UNCHANGED Session!vars
  <2>1. SessionState' = SessionState
    BY <1>0, <1>p, SessionStep DEF SessionState
  <2>2. QED
    BY <1>p, <2>1 DEF Session!vars, SlotOwner
<1>1. ASSUME NEW c \in Callers, OpenAlloc(c) PROVE [Session!Next]_Session!vars
  <2>1. CASE slot = NULL /\ used # Objs
    <3>1. cpc[c] = "idle" /\ cpc' = [cpc EXCEPT ![c] = "alloced"]
      BY <1>1, <2>1 DEF OpenAlloc
    <3>2. \A d \in Callers : cpc[d] = "idle"
      BY <2>1, ObjsAssumption DEF OwnInv, TypeInv, Busy
    <3>3. SlotOwner = NULL /\ SlotOwner' = c
      BY <1>0, <1>a, <1>b, <3>1, <3>2
    <3>4. SessionState[c] = "idle" /\ SessionState'[c] = "opening"
      BY <1>0, <3>1 DEF SessionState
    <3>5. SessionState' = [SessionState EXCEPT ![c] = "opening"]
      BY <1>0, <3>1, <3>4, SessionStep
    <3>6. Session!Acquire(c)
      BY <3>3, <3>4, <3>5 DEF Session!Acquire, Session!Step
    <3>7. QED
      BY <3>6 DEF Session!Next
  <2>2. CASE ~(slot = NULL /\ used # Objs)
    BY <1>1, <2>2, <1>u DEF OpenAlloc, callerVars
  <2>3. QED
    BY <2>1, <2>2
(* A caller's step from phase a to phase b of the session contract.     *)
<1>q. ASSUME NEW c \in Callers, NEW x \in CallerStates,
             cpc' = [cpc EXCEPT ![c] = x], UNCHANGED <<cobj, slot>>
      PROVE  /\ SessionState' = [SessionState EXCEPT ![c] = SessionState'[c]]
             /\ UNCHANGED SlotOwner
  BY <1>0, <1>q, SessionStep DEF SlotOwner
<1>2. ASSUME NEW c \in Callers, OpenSend(c) PROVE [Session!Next]_Session!vars
  <2>1. UNCHANGED <<cobj, slot>> /\ cpc[c] = "alloced"
    BY <1>2 DEF OpenSend, Goto
  <2>2. CASE cpc' = [cpc EXCEPT ![c] = "waiting"]
    <3>1. SessionState'[c] = SessionState[c]
      BY <1>0, <2>1, <2>2 DEF SessionState
    <3>2. QED
      BY <2>1, <2>2, <3>1, <1>p DEF CallerStates
  <2>3. CASE cpc' = [cpc EXCEPT ![c] = "free"]
    <3>1. SessionState[c] = "opening" /\ SessionState'[c] = "closing"
      BY <1>0, <2>1, <2>3 DEF SessionState
    <3>2. Session!Abort(c)
      BY <2>1, <2>3, <3>1, <1>q DEF Session!Abort, Session!Step, CallerStates
    <3>3. QED
      BY <3>2 DEF Session!Next
  <2>4. QED
    BY <1>2, <2>2, <2>3 DEF OpenSend, Goto
<1>3. ASSUME NEW c \in Callers, WaitDone(c) PROVE [Session!Next]_Session!vars
  <2>1. UNCHANGED <<cobj, slot>> /\ cpc[c] = "waiting"
        /\ cpc' = [cpc EXCEPT ![c] = "opened"]
    BY <1>3 DEF WaitDone, Goto
  <2>2. SessionState[c] = "opening" /\ SessionState'[c] = "open"
    BY <1>0, <2>1 DEF SessionState
  <2>3. Session!Succeed(c)
    BY <2>1, <2>2, <1>q DEF Session!Succeed, Session!Step, CallerStates
  <2>4. QED
    BY <2>3 DEF Session!Next
<1>4. ASSUME NEW c \in Callers, WaitTimeout(c) PROVE [Session!Next]_Session!vars
  <2>1. UNCHANGED <<cobj, slot>> /\ cpc[c] = "waiting"
    BY <1>4 DEF WaitTimeout
  <2>2. CASE done[cobj[c]]
    <3>1. cpc' = [cpc EXCEPT ![c] = "opened"]
      BY <1>4, <2>2 DEF WaitTimeout
    <3>2. SessionState[c] = "opening" /\ SessionState'[c] = "open"
      BY <1>0, <2>1, <3>1 DEF SessionState
    <3>3. Session!Succeed(c)
      BY <2>1, <3>1, <3>2, <1>q DEF Session!Succeed, Session!Step, CallerStates
    <3>4. QED
      BY <3>3 DEF Session!Next
  <2>3. CASE ~done[cobj[c]]
    <3>1. cpc' = [cpc EXCEPT ![c] = "free"]
      BY <1>4, <2>3 DEF WaitTimeout
    <3>2. SessionState[c] = "opening" /\ SessionState'[c] = "closing"
      BY <1>0, <2>1, <3>1 DEF SessionState
    <3>3. Session!Abort(c)
      BY <2>1, <3>1, <3>2, <1>q DEF Session!Abort, Session!Step, CallerStates
    <3>4. QED
      BY <3>3 DEF Session!Next
  <2>4. QED
    BY <2>2, <2>3
<1>5. ASSUME NEW c \in Callers, OpenFree(c) PROVE [Session!Next]_Session!vars
  <2>1. UNCHANGED <<cobj, slot>> /\ cpc[c] = "free"
        /\ cpc' = [cpc EXCEPT ![c] = "clear"]
    BY <1>5 DEF OpenFree, Goto
  <2>2. SessionState'[c] = SessionState[c]
    BY <1>0, <2>1 DEF SessionState
  <2>3. QED
    BY <2>1, <2>2, <1>p DEF CallerStates
<1>6. ASSUME NEW c \in Callers, Release(c) PROVE [Session!Next]_Session!vars
  <2>1. UNCHANGED <<cobj, slot>> /\ cpc[c] = "opened"
        /\ cpc' = [cpc EXCEPT ![c] = "clear"]
    BY <1>6 DEF Release, Goto
  <2>2. SessionState[c] = "open" /\ SessionState'[c] = "closing"
    BY <1>0, <2>1 DEF SessionState
  <2>3. Session!Close(c)
    BY <2>1, <2>2, <1>q DEF Session!Close, Session!Step, CallerStates
  <2>4. QED
    BY <2>3 DEF Session!Next
<1>7. ASSUME NEW c \in Callers, ClearSlot(c) PROVE [Session!Next]_Session!vars
  <2>1. cpc[c] = "clear" /\ cpc' = [cpc EXCEPT ![c] = "idle"]
    BY <1>7 DEF ClearSlot, Goto
  <2>2. \A d \in Callers : cpc'[d] = "idle"
    BY <1>0, <2>1 DEF OwnInv, Busy
  <2>3. SlotOwner = c /\ SlotOwner' = NULL
    BY <1>a, <1>b, <2>1, <2>2
  <2>4. SessionState[c] = "closing" /\ SessionState'[c] = "idle"
    BY <1>0, <2>1 DEF SessionState
  <2>5. SessionState' = [SessionState EXCEPT ![c] = "idle"]
    BY <1>0, <2>1, <2>4, SessionStep DEF CallerStates
  <2>6. Session!Finish(c)
    BY <2>3, <2>4, <2>5 DEF Session!Finish, Session!Step
  <2>7. QED
    BY <2>6 DEF Session!Next
<1>8. CASE Handler \/ Firmware \/ UNCHANGED vars
  BY <1>8, <1>u DEF Handler, HandlerLoad, HandlerSetDone, HandlerParse,
     HandlerComplete, Firmware, FwReply, FwIgnore, vars, callerVars
<1>9. QED
  BY <1>1, <1>2, <1>3, <1>4, <1>5, <1>6, <1>7, <1>8 DEF Next, Caller

(* The open / release / timeout paths of ath12k_open_htt_stats and        *)
(* ath12k_release_htt_stats implement the safety part of the session      *)
(* contract (the safety half of SessionSpec, checked with its fairness by *)
(* the session run): the -EAGAIN check admits an open only on a free      *)
(* session, and every step is a contract step or leaves it alone.         *)
THEOREM SessionRefinement == Spec => Session!SafeSpec
<1>1. Init => Session!Init
  BY InitRefines
<1>2. Init => OwnInv
  BY InitOwnInv
<1>3. OwnInv /\ [Next]_vars => OwnInv'
  BY NextOwnInv
<1>4. OwnInv /\ [Next]_vars => [Session!Next]_Session!vars
  BY NextRefines
<1>5. QED
  BY <1>1, <1>2, <1>3, <1>4, PTL DEF Spec, Session!SafeSpec

=============================================================================
