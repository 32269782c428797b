------------------------------ MODULE HttStats ------------------------------
(***************************************************************************)
(* The extended HTT statistics request of the ath12k driver               *)
(* (drivers/net/wireless/ath/ath12k/debugfs_htt_stats.c): the lifecycle   *)
(* of the per-radio request (open / release of the htt_stats debugfs      *)
(* file), the request sent to firmware with a cookie that carries only    *)
(* the pdev id, the completion-with-timeout the opener blocks on, and the *)
(* softirq handler that matches firmware replies to the request through   *)
(* the shared pointer ar->debug.htt_stats.stats_req.                      *)
(*                                                                         *)
(* Two actors run concurrently.  The caller thread executes open and     *)
(* release under the wiphy lock; the handler runs in softirq context and *)
(* takes no lock but the data_lock around the done flag.  Each step below *)
(* is one atomic block of the code; the handler may run between any two  *)
(* steps of the caller and vice versa.                                    *)
(*                                                                         *)
(* Each kzalloc returns a fresh object of Objs (an allocator that never   *)
(* hands out the same address twice), so a freed object stays           *)
(* recognisable; when Objs is used up kzalloc fails with -ENOMEM.        *)
(* The firmware is the environment: it answers a request with NumFrags   *)
(* reply fragments (the last one carrying the DONE bit), may declare a    *)
(* bad length in one of them, or may never answer.  Replies are          *)
(* delivered in order.                                                    *)
(***************************************************************************)
EXTENDS Naturals, Sequences, FiniteSets

CONSTANTS
  Callers,   \* processes that open, read and release the htt_stats file
  Objs,      \* the addresses kzalloc can return for a stats request
  NULL,      \* the null pointer
  NumFrags   \* number of T2H messages in a firmware reply

ASSUME ObjsAssumption ==
  /\ IsFiniteSet(Objs)
  /\ NULL \notin Objs \cup Callers
ASSUME NumFragsAssumption == NumFrags \in Nat \ {0}

VARIABLES
  wlock,  \* holder of the wiphy lock
  slot,   \* ar->debug.htt_stats.stats_req
  live,   \* allocated and not yet freed requests
  used,   \* every object kzalloc has returned so far
  done,   \* stats_req->done, per object
  compl,  \* stats_req->htt_stats_rcvd: the completion's done count
  buf,    \* stats_req->buf: the reply fragments parsed into it, in order
  cpc,    \* per caller: where it is in open/release
  cobj,   \* per caller: its stats_req (open's local, then private_data)
  hpc,    \* handler: where it is in ath12k_debugfs_htt_ext_stats_handler
  hptr,   \* handler: the stats_req pointer it loaded
  hmsg,   \* handler: the message it is processing
  hsend,  \* handler: send_completion
  fwq,    \* requests sent to firmware and not yet answered
  chan    \* T2H messages delivered by firmware, not yet handled

callerVars == <<wlock, slot, live, used, cpc, cobj>>
handlerVars == <<hpc, hptr, hmsg, hsend>>
reqVars == <<done, compl, buf>>
vars == <<callerVars, reqVars, handlerVars, fwq, chan>>

ObjOrNull == Objs \cup {NULL}

(* A T2H extended-stats message: the request its cookie was sent for     *)
(* (ghost: the cookie itself only names the pdev), the DONE bit of info1 *)
(* and whether its declared LENGTH fits in the skb.                      *)
Frag == [owner : Objs, final : BOOLEAN, lenOk : BOOLEAN]

(* The firmware reply to request o; fragment bad (0 = none) declares a   *)
(* length larger than the message.                                      *)
Reply(o, bad) ==
  [i \in 1..NumFrags |-> [owner |-> o, final |-> i = NumFrags, lenOk |-> i # bad]]

Init ==
  /\ wlock = NULL
  /\ slot = NULL
  /\ live = {}
  /\ used = {}
  /\ done = [o \in Objs |-> FALSE]
  /\ compl = [o \in Objs |-> 0]
  /\ buf = [o \in Objs |-> <<>>]
  /\ cpc = [c \in Callers |-> "idle"]
  /\ cobj = [c \in Callers |-> NULL]
  /\ hpc = "idle"
  /\ hptr = NULL
  /\ hmsg = NULL
  /\ hsend = FALSE
  /\ fwq = <<>>
  /\ chan = <<>>

Goto(c, from, to) ==
  /\ cpc[c] = from
  /\ cpc' = [cpc EXCEPT ![c] = to]

-----------------------------------------------------------------------------
(***************************************************************************)
(* Caller threads.  Open holds the wiphy lock from its start to its       *)
(* return, across the wait; release holds it around kfree and the clear.  *)
(***************************************************************************)

(* Bug variant of OpenAlloc: the -EAGAIN check on stats_req is missing.  *)
OpenAllocNoBusyCheck(c) ==
  /\ cpc[c] = "idle"
  /\ wlock = NULL
  /\ IF used # Objs
       THEN \E o \in Objs \ used :
              /\ wlock' = c
              /\ used' = used \cup {o}
              /\ live' = live \cup {o}
              /\ slot' = o
              /\ cobj' = [cobj EXCEPT ![c] = o]
              /\ done' = [done EXCEPT ![o] = FALSE]
              /\ compl' = [compl EXCEPT ![o] = 0]
              /\ buf' = [buf EXCEPT ![o] = <<>>]
              /\ cpc' = [cpc EXCEPT ![c] = "alloced"]
       ELSE UNCHANGED <<callerVars, reqVars>>
  /\ UNCHANGED <<handlerVars, fwq, chan>>

(* ath12k_open_htt_stats up to the call of ath12k_debugfs_htt_stats_req:  *)
(* under the wiphy lock, -EAGAIN if a request is open, else a zeroed      *)
(* request is allocated and published in ar->debug.htt_stats.stats_req.   *)
(* kzalloc fails with -ENOMEM once Objs is used up.                       *)
OpenAlloc(c) ==
  /\ cpc[c] = "idle"
  /\ wlock = NULL
  /\ IF slot = NULL /\ used # Objs
       THEN \E o \in Objs \ used :
              /\ wlock' = c
              /\ used' = used \cup {o}
              /\ live' = live \cup {o}
              /\ slot' = o
              /\ cobj' = [cobj EXCEPT ![c] = o]
              /\ done' = [done EXCEPT ![o] = FALSE]
              /\ compl' = [compl EXCEPT ![o] = 0]
              /\ buf' = [buf EXCEPT ![o] = <<>>]
              /\ cpc' = [cpc EXCEPT ![c] = "alloced"]
       ELSE UNCHANGED <<callerVars, reqVars>>
  /\ UNCHANGED <<handlerVars, fwq, chan>>

(* ath12k_debugfs_htt_stats_req up to the wait: the completion is         *)
(* re-initialised, done cleared and the request sent with the cookie.     *)
(* A failed send returns the error and open takes its out: path.          *)
OpenSend(c) ==
  /\ compl' = [compl EXCEPT ![cobj[c]] = 0]
  /\ done' = [done EXCEPT ![cobj[c]] = FALSE]
  /\ \/ /\ Goto(c, "alloced", "waiting")
        /\ fwq' = Append(fwq, cobj[c])
     \/ /\ Goto(c, "alloced", "free")
        /\ UNCHANGED fwq
  /\ UNCHANGED <<wlock, slot, live, used, cobj, buf, handlerVars, chan>>

(* Bug variant of WaitDone: the completion is consumed without checking   *)
(* that one was posted.                                                    *)
WaitDoneUnposted(c) ==
  /\ Goto(c, "waiting", "opened")
  /\ compl' = [compl EXCEPT ![cobj[c]] = @ - 1]
  /\ wlock' = NULL
  /\ UNCHANGED <<slot, live, used, cobj, done, buf, handlerVars, fwq, chan>>

(* wait_for_completion_timeout returns because complete() was called;     *)
(* open returns 0 and drops the wiphy lock.                               *)
WaitDone(c) ==
  /\ Goto(c, "waiting", "opened")
  /\ compl[cobj[c]] > 0
  /\ compl' = [compl EXCEPT ![cobj[c]] = @ - 1]
  /\ wlock' = NULL
  /\ UNCHANGED <<slot, live, used, cobj, done, buf, handlerVars, fwq, chan>>

(* Bug variant of WaitTimeout: on expiry the caller waits again until     *)
(* done is set instead of giving up.                                       *)
WaitTimeoutRetry(c) ==
  /\ cpc[c] = "waiting"
  /\ compl[cobj[c]] = 0
  /\ IF done[cobj[c]]
       THEN /\ cpc' = [cpc EXCEPT ![c] = "opened"]
            /\ wlock' = NULL
            /\ UNCHANGED <<slot, live, used, cobj, reqVars, handlerVars, fwq, chan>>
       ELSE UNCHANGED vars

(* The 3 s timeout expires with no complete(); under data_lock the caller *)
(* marks the request done and fails with -ETIMEDOUT, unless the handler   *)
(* already set done, in which case open returns 0.                        *)
WaitTimeout(c) ==
  /\ cpc[c] = "waiting"
  /\ compl[cobj[c]] = 0
  /\ IF done[cobj[c]]
       THEN /\ cpc' = [cpc EXCEPT ![c] = "opened"]
            /\ wlock' = NULL
            /\ UNCHANGED done
       ELSE /\ done' = [done EXCEPT ![cobj[c]] = TRUE]
            /\ cpc' = [cpc EXCEPT ![c] = "free"]
            /\ UNCHANGED wlock
  /\ UNCHANGED <<slot, live, used, cobj, compl, buf, handlerVars, fwq, chan>>

(* The out: path of open: kfree(stats_req).                               *)
OpenFree(c) ==
  /\ Goto(c, "free", "clear")
  /\ live' = live \ {cobj[c]}
  /\ UNCHANGED <<wlock, slot, used, cobj, reqVars, handlerVars, fwq, chan>>

(* ath12k_release_htt_stats: under the wiphy lock,                        *)
(* kfree(file->private_data).                                             *)
Release(c) ==
  /\ Goto(c, "opened", "clear")
  /\ wlock = NULL
  /\ wlock' = c
  /\ live' = live \ {cobj[c]}
  /\ UNCHANGED <<slot, used, cobj, reqVars, handlerVars, fwq, chan>>

(* Both paths then clear ar->debug.htt_stats.stats_req and drop the       *)
(* wiphy lock.                                                            *)
ClearSlot(c) ==
  /\ Goto(c, "clear", "idle")
  /\ slot' = NULL
  /\ cobj' = [cobj EXCEPT ![c] = NULL]
  /\ wlock' = NULL
  /\ UNCHANGED <<live, used, reqVars, handlerVars, fwq, chan>>

-----------------------------------------------------------------------------
(***************************************************************************)
(* Softirq handler ath12k_debugfs_htt_ext_stats_handler.                   *)
(***************************************************************************)

(* The cookie's magic matches and names this pdev; the handler loads      *)
(* ar->debug.htt_stats.stats_req without a lock and drops the message if  *)
(* no request is open.                                                    *)
HandlerLoad ==
  /\ hpc = "idle"
  /\ chan # <<>>
  /\ chan' = Tail(chan)
  /\ IF slot = NULL
       THEN UNCHANGED <<hpc, hptr, hmsg>>
       ELSE /\ hptr' = slot
            /\ hmsg' = Head(chan)
            /\ hpc' = "setdone"
  /\ UNCHANGED <<callerVars, reqVars, hsend, fwq>>

(* Under data_lock: done := the DONE bit of the message.                  *)
HandlerSetDone ==
  /\ hpc = "setdone"
  /\ done' = [done EXCEPT ![hptr] = hmsg.final]
  /\ hsend' = hmsg.final
  /\ hpc' = "parse"
  /\ UNCHANGED <<callerVars, compl, buf, hptr, hmsg, fwq, chan>>

(* A declared length larger than the skb ends the handler (after done was *)
(* set, and without complete()); otherwise the TLVs are parsed into       *)
(* stats_req->buf.                                                        *)
HandlerParse ==
  /\ hpc = "parse"
  /\ IF hmsg.lenOk
       THEN /\ buf' = [buf EXCEPT ![hptr] = Append(@, hmsg)]
            /\ hpc' = IF hsend THEN "complete" ELSE "idle"
       ELSE /\ hpc' = "idle"
            /\ UNCHANGED buf
  /\ UNCHANGED <<callerVars, done, compl, hptr, hmsg, hsend, fwq, chan>>

(* complete(&stats_req->htt_stats_rcvd).                                  *)
HandlerComplete ==
  /\ hpc = "complete"
  /\ compl' = [compl EXCEPT ![hptr] = @ + 1]
  /\ hpc' = "idle"
  /\ UNCHANGED <<callerVars, done, buf, hptr, hmsg, hsend, fwq, chan>>

-----------------------------------------------------------------------------
(***************************************************************************)
(* Firmware (environment): answers the oldest request, or never does.     *)
(***************************************************************************)

FwReply ==
  /\ fwq # <<>>
  /\ \E bad \in 0..NumFrags : chan' = chan \o Reply(Head(fwq), bad)
  /\ fwq' = Tail(fwq)
  /\ UNCHANGED <<callerVars, reqVars, handlerVars>>

FwIgnore ==
  /\ fwq # <<>>
  /\ fwq' = Tail(fwq)
  /\ UNCHANGED <<callerVars, reqVars, handlerVars, chan>>

-----------------------------------------------------------------------------
Caller(c) ==
  \/ OpenAlloc(c) \/ OpenSend(c) \/ WaitDone(c) \/ WaitTimeout(c)
  \/ OpenFree(c) \/ Release(c) \/ ClearSlot(c)

Handler == HandlerLoad \/ HandlerSetDone \/ HandlerParse \/ HandlerComplete

Firmware == FwReply \/ FwIgnore

Next == (\E c \in Callers : Caller(c)) \/ Handler \/ Firmware

(* A caller inside open runs it to its end: the wait always returns (the  *)
(* timer fires) and the steps after it block on nothing.  The softirq     *)
(* handler runs whenever a message is pending.  Firmware and users (who   *)
(* may never open or release the file) get no fairness.                  *)
Fairness ==
  /\ \A c \in Callers :
       /\ WF_vars(OpenSend(c))
       /\ WF_vars(WaitDone(c) \/ WaitTimeout(c))
       /\ WF_vars(OpenFree(c))
       /\ WF_vars(ClearSlot(c))
  /\ WF_vars(Handler)

Spec == Init /\ [][Next]_vars /\ Fairness

-----------------------------------------------------------------------------
(***************************************************************************)
(* Invariants and properties.                                              *)
(***************************************************************************)

CallerStates == {"idle", "alloced", "waiting", "opened", "free", "clear"}
HandlerStates == {"idle", "setdone", "parse", "complete"}

TypeOK ==
  /\ wlock \in Callers \cup {NULL}
  /\ slot \in ObjOrNull
  /\ live \subseteq used
  /\ used \subseteq Objs
  /\ done \in [Objs -> BOOLEAN]
  /\ compl \in [Objs -> Nat]
  /\ buf \in [Objs -> Seq(Frag)]
  /\ cpc \in [Callers -> CallerStates]
  /\ cobj \in [Callers -> ObjOrNull]
  /\ hpc \in HandlerStates
  /\ hptr \in ObjOrNull
  /\ hmsg \in Frag \cup {NULL}
  /\ hsend \in BOOLEAN
  /\ fwq \in Seq(Objs)
  /\ chan \in Seq(Frag)

(* The requests held by callers: open's local variable or a file's       *)
(* private_data.                                                          *)
Held == {cobj[c] : c \in Callers} \ {NULL}

(* Open, the -EAGAIN check, the error paths and release together keep    *)
(* one request per radio, owned by exactly one caller: at most one       *)
(* request is allocated, every allocated request is held by a caller (no *)
(* leak on the -ETIMEDOUT or send-failure path) and stats_req names a    *)
(* held request once open or release has returned.                       *)
RequestOwnership ==
  /\ \A x, y \in live : x = y
  /\ live \subseteq Held
  /\ slot \in Held \cup {NULL}

(* An open that has sent its request always returns, with 0 or with an   *)
(* error, whether or not the firmware ever answers (the bounded wait).   *)
OpenTerminates ==
  \A c \in Callers :
    cpc[c] \in {"alloced", "waiting"} ~> cpc[c] \in {"idle", "opened"}

(* The handler dereferences the stats_req it loaded when it sets done,   *)
(* parses into its buffer and calls complete(): the object must not have *)
(* been freed by a timed-out open or by release in the meantime.         *)
HandlerDerefs ==
  \/ hpc \in {"setdone", "complete"}
  \/ hpc = "parse" /\ hmsg.lenOk

NoUseAfterFree == HandlerDerefs => hptr \in live

(* Spec 4.4: a reply never corrupts the accumulator of an unrelated or   *)
(* future request: every fragment parsed into a live request's buffer    *)
(* was sent by the firmware for that request.                            *)
RepliesReachTheirRequest ==
  \A o \in live : \A i \in DOMAIN buf[o] : buf[o][i].owner = o

(* Spec 4.6 and 8: once open has returned 0 the accumulated text is      *)
(* immutable, so repeated reads of the file return the same bytes.       *)
BufferStableWhileOpen ==
  [][\A c \in Callers :
       (cpc[c] = "opened" /\ cpc'[c] = "opened") => buf'[cobj[c]] = buf[cobj[c]]]_vars

(* Spec 4.4 and 4.5: a message whose declared length is rejected is       *)
(* dropped, and only a final message fed to the decoder completes the    *)
(* request; so once open has returned 0, and the handler is not still    *)
(* working on that request, its buffer holds a final fragment.           *)
ReplyCompleteWhenOpened ==
  \A c \in Callers :
    (cpc[c] = "opened" /\ (hpc = "idle" \/ hptr # cobj[c]))
      => \E i \in DOMAIN buf[cobj[c]] : buf[cobj[c]][i].final

-----------------------------------------------------------------------------
(***************************************************************************)
(* Refinement of the session contract HttSession.  The session is owned  *)
(* by the caller whose request ar->debug.htt_stats.stats_req names; a    *)
(* caller is opening while it allocates, sends and waits, closing on the *)
(* out: path and between release's kfree and the clear of stats_req.     *)
(***************************************************************************)
SessionState ==
  [c \in Callers |->
     CASE cpc[c] = "idle" -> "idle"
       [] cpc[c] \in {"alloced", "waiting"} -> "opening"
       [] cpc[c] = "opened" -> "open"
       [] OTHER -> "closing"]

OwnerOf(cb, sl) == IF sl = NULL THEN NULL ELSE CHOOSE c \in Callers : cb[c] = sl

SlotOwner == OwnerOf(cobj, slot)

Session == INSTANCE HttSession WITH owner <- SlotOwner, st <- SessionState

(* The open and release paths implement the session contract: a caller   *)
(* opens only a free session (the -EAGAIN check), every open returns with *)
(* the file open or the session given back (the bounded wait), and every *)
(* failed open and every release frees it.                                *)
SessionSpec == Session!Spec

=============================================================================
