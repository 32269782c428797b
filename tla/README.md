# TLA+ verification of the ath12k extended HTT statistics path

The code modelled here is
`src/linux-6.13.1/drivers/net/wireless/ath/ath12k/debugfs_htt_stats.c`.
It is the debugfs interface through which user space asks the WLAN firmware
for statistics. The firmware sends back a TLV (tag-length-value) stream.
The driver renders that stream as text into a per-request buffer.
The other files under `src/` are static tables and device bring-up code.
`spec.md` places them out of scope (see "Not modelled").

## The system

| Part (spec.md) | Code | State | Operations |
|---|---|---|---|
| Request lifecycle manager (4.6) | `ath12k_open_htt_stats`, `ath12k_release_htt_stats` | `ar->debug.htt_stats.stats_req`, the kzalloc'ed `debug_htt_stats_req`, `file->private_data`, the wiphy lock | open (-EPERM, -ENETDOWN, -EAGAIN, -ENOMEM, send, wait, out: kfree), release (kfree, clear) |
| Completion and timeout gate (4.5) | `ath12k_debugfs_htt_stats_req` | `stats_req->done` (under `data_lock`), `stats_req->htt_stats_rcvd` | init, send, wait up to 3 s, check-and-set `done` on expiry |
| Correlator (4.4) | `ath12k_debugfs_htt_ext_stats_handler` (softirq) | cookie = magic \| pdev_id | lock-free load of `stats_req`, `done := DONE bit`, length check, parse, `complete()` |
| TLV decoder (4.1) | `ath12k_dp_htt_tlv_iter` (dp_htt.c, not in this repository) | | walk (tag, len) records |
| Dispatch (4.3) | `ath12k_dbg_htt_ext_stats_parse` | | switch on tag |
| Formatters (4.2) and accumulator | `htt_print_*`, `print_array_to_buf_index`, `scnprintf` | `stats_req->buf`, `stats_req->buf_len` | one formatter per tag |
| Type and reset control | `ath12k_write_htt_stats_type`, `ath12k_write_htt_stats_reset` | `ar->debug.htt_stats.type`, `cfg_param` | parse the user's input, send a reset |

The caller thread and the softirq handler run concurrently.
They share one request.
The caller holds the wiphy lock from the start of open to its return, across the wait.
The handler takes no lock to read `stats_req`.
It takes only `data_lock`, and only around its store to `done`.

The hard behaviours are these:
- a firmware reply that arrives after the open timed out;
- a reply that never arrives;
- a reply with a bad length field;
- the handler running between any two steps of open or release;
- a second open racing the first.

## Modules

`HttStats.tla` models the request lifecycle, the gate and the handler together.
They share the request object, so they are one module.

State:
- `slot` is `ar->debug.htt_stats.stats_req`.
- `live` holds the requests that are allocated and not yet freed.
- `used` holds every object kzalloc has returned.
- `done`, `compl` (the completion count) and `buf` (the parsed messages) are kept per object.
- `cpc` and `cobj` are each caller's program counter and its request pointer.
- `hpc`, `hptr`, `hmsg` and `hsend` are the handler's program counter, the pointer it loaded, the message it is processing and `send_completion`.
- `fwq` holds the requests sent to firmware.
- `chan` holds the messages the firmware has delivered.

Objects are model values, and each kzalloc returns a fresh one.
So a freed object stays recognisable, and a later use of it shows up in the state.
Each action is one atomic block of the code:
- `OpenAlloc` covers lines 3058-3098.
- `OpenSend` covers init_completion, `done = false` and the send (3012-3043).
- `WaitDone` and `WaitTimeout` cover the wait and the locked check-and-set (3044-3056, 3099-3107).
- `OpenFree` is the `out:` kfree.
- `Release` is release's kfree.
- `ClearSlot` clears `stats_req` and unlocks.
- `HandlerLoad`, `HandlerSetDone`, `HandlerParse` and `HandlerComplete` are the four steps of the handler.

The firmware is the environment.
`FwReply` answers the oldest request with `NumFrags` messages, the last one with the DONE bit.
One message of the reply may carry a length larger than its skb.
`FwIgnore` never answers.
The message's `owner` field is ghost state.
The cookie itself carries only the pdev id, so the handler never reads `owner`.

`MC_HttStats.tla` instantiates the model with two callers, three objects and `NumFrags = 2`.

`HttStats_proofs.tla` holds the TLAPS proofs.

## Runs

| Run | Expect | Checks | Shows |
|---|---|---|---|
| `core` (`HttStats_core.cfg`) | pass | `TypeOK`, `RequestOwnership`, `OpenTerminates` | One request per radio, owned by one caller and never leaked, on every path. Every open returns. 1.46 M states, depth 40. |
| `use_after_free` | violation | `NoUseAfterFree` | The handler writes `done`, the buffer and the completion of a request that a timed-out open (or release) has freed. |
| `stale_reply` | violation | `RepliesReachTheirRequest` | A late reply to a timed-out request is parsed into the next request's buffer, because the cookie is the same for both. |
| `buffer_after_open` | violation | `BufferStableWhileOpen` | The timeout sees `done` (set before the parse), so open returns 0 while the handler still appends to the buffer. |
| `reply_incomplete` | violation | `ReplyCompleteWhenOpened` | A final message whose declared length is too large still sets `done` (2923, before the length check at 2930). The handler drops it without `complete()`, and the timeout sees `done`: open returns 0 with a reply that lacks its final fragment. `OpenTerminates` only shows that the open returns; this property is about what it returns. |

The four violations are findings against spec.md 4.4, 4.5 and 4.6 (see PROJECT.json).

Every property of `core` has a mutant:
- `OpenAllocNoBusyCheck` drops the -EAGAIN check.
- `WaitDoneUnposted` consumes a completion that was never posted.
- `WaitTimeoutRetry` waits again instead of failing.
TLC finds each of them.

### Bounds

Two callers are the fewest that can race an open.
Three objects allow a timed-out request, its successor and one more open after a release.
Two messages per reply separate "the DONE bit was set" from "the reply was fully parsed".
They also allow a bad length in a non-final message or in the final one.

### Fairness

- Weak fairness on a caller's steps after it has allocated a request. They block on nothing, and the wait always returns, because the timer fires.
- Weak fairness on the handler. A softirq runs while a message is pending.
- No fairness for the firmware, or for a user who may never open or release.

## Proofs (checked by tlapm)

### HttStats_proofs.tla

- `TypeCorrect`: `Spec => []TypeOK`.
  The inductive invariant `TypeInv` adds two facts to TypeOK:
  - a caller past `idle` holds an object;
  - a busy handler holds an object and a message.
  The caller, handler and firmware actions dereference these.
  The lemma `ReplyType` shows that a firmware reply is a sequence of messages.
- `OwnershipSafe`: `Spec => []RequestOwnership`, for every number of callers and objects.
  The inductive invariant `OwnInv` says:
  - at most one caller is past `idle`;
  - while a caller is, `stats_req` equals its object;
  - when none is, `stats_req` is NULL;
  - an allocated-and-not-freed request belongs to a caller in alloced, waiting, opened or free;
  - a caller in `clear` has already freed its object;
  - `live \subseteq {slot}`.
  The proof shows that the -EAGAIN check alone excludes a second open.
  The wiphy lock is not needed for this property.

The assumptions are `ObjsAssumption` (a finite set not containing NULL) and `NumFragsAssumption` (a positive number of messages).

### HttFormat_proofs.tla

- `OffsetSafe`: `Spec => []OffsetBound`.
- `NulSafe`: `Spec => []NulInBuffer`.

Both hold for every buffer size of at least 2, every set of positive text lengths and every message.
They rest on one inductive invariant, `OffInv`:
- `buf_len` is below the buffer size;
- inside a formatter, `len` is below the buffer size;
- inside `print_array_to_buf_index`, the offset is the formatter's `len` and `offset + index` lies in `1 .. BUF_SIZE - 1`;
- the last NUL store lies inside the buffer.

The lower bound of 1 is the strengthening that `OffsetBound` lacks.
The header writes at least one character unless the buffer is already full, and a full buffer has a positive offset.
So `index--` never takes the store below byte 0.
The argument uses only `scnprintf`'s clamp, `Scn(size, n) <= size - 1`.
It never looks at what a formatter writes, so it covers all 57 formatters at once: the proof does not expand `Dispatch`.
`TlvNext` is handled by a case split on the walk's length check.

- `TypeCorrect`: `Spec => []TypeOK`. Its inductive invariant `TypeInv` adds `OffInv` and one fact to TypeOK: inside an array or string print the program is not empty, so `Tail(prog)` is a sequence. The lemmas `FormattersType`, `HwWarType` and `DispatchType` show that every one of the 57 formatters yields a well-typed program; `ScnRange` bounds `scnprintf`, which keeps the string index below `MAX_STRING_LEN`.
- `BufLenMonotoneSafe`: `Spec => [][blen' >= blen]_vars`, for every buffer size and message. The invariant `MonoInv` adds to `OffInv` that a formatter's `len` never falls below the `buf_len` it started from. `ArrEnd` is the only step that moves `len` back (`index--`), and the footer's `scnprintf` writes at least one character whenever `index--` took one, because `offset + index` is at least 1 (`OffInv`).
- `ReadsWithinRecordSafe`: `Spec => ReadsWithinRecord`, for every sizeof table and every message set. The lemma `DispatchReads` shows that every formatter except the ctrl-path one reads at most `tag_len` bytes: each guards on `tag_len < sizeof` or clamps its count to `tag_len >> 2`. `DispatchStep` shows that the only step that dispatches a record is `TlvNext`, on a non-empty sequence of records. The rest follows from `TypeInv`.
- `RecordBoundsExceptCtrlPath`: for every message set without a CTRL_PATH_TX record, `Spec => []RecordBounds`. Its invariant `RBInv` is `TypeInv`, no over-read so far, and no ctrl-path record left in the message. The hypothesis cannot be dropped: the `ctrl_path_guard` run shows the ctrl-path formatter reading past `tag_len`.

The assumptions are:
- `BufSizeAssumption`;
- `SizeofAssumption`: every structure in `Structs` (the 42 structures a formatter takes the size of) has a natural-number size;
- `MsgsAssumption`: a message is a sequence of records with a natural length.

Liveness (`OpenTerminates`, `WalkTerminates`) is checked only by TLC. TLAPS cannot prove liveness under fairness, and ENABLED is out of its reach.
`RecordBounds` over all messages is false (the finding), so only the restricted theorem is proved.

## The formatter and accumulator model (HttFormat.tla)

`HttFormat.tla` models what the handler's parse step does with one message:
- the TLV walk (`ath12k_dp_htt_tlv_iter`);
- the dispatch switch (`ath12k_dbg_htt_ext_stats_parse`);
- the formatters;
- the accumulator they share (`stats_req->buf_len`, `scnprintf`, `print_array_to_buf_index`).

It all runs in one softirq, so the module is a sequential machine.
Its steps are the calls that move the offset.
`HttStats` abstracts this whole machine to one `HandlerParse` step.

How the data is abstracted:
- The text of one `scnprintf` is abstracted to its length, drawn from `TextLen`.
- `Scn(size, n)` is what `scnprintf` returns:
  - `min(n, size - 1)`;
  - 0 for size 0;
  - `n` when the size argument is a negative difference, which wraps as a `size_t` and bounds nothing.
- A formatter is its length guard, its element-count clamp, and its program of writes:
  - `Put` is one scnprintf;
  - `Arr(n)` is one `print_array_to_buf` of n elements;
  - `Str(n)` is the string-TLV loop over n words.
- `Fmt(reads, prog)` also records how many bytes of the record the formatter reads.

Actions:
- `TlvNext` and `TlvEnd` are the walk. They are spec-modelled, because dp_htt.c is not in this repository. A record whose length does not fit stops the walk.
- `PutStep` is one `len += scnprintf(buf + len, buf_len - len, ...)`.
- `ArrBegin`, `ArrElem` and `ArrEnd` are `print_array_to_buf_index`:
  - the header;
  - one iteration, with its `u8 i` counting modulo 256;
  - `index--`, the NUL store and the footer.
- `StrBegin`, `StrElem` and `StrEnd` are the loop of `ath12k_htt_print_stats_string_tlv`, with its u8 counter and its `data[]` index.
- `FmtEnd` is `stats_req->buf_len = len`.

All 57 formatters are modelled. Every compile-time array size and loop bound is abstracted to the constant `Bins`. Branches on a field of the record (the mu_ppdu hw_mode; the mpdu sched mode and user index) are chosen by the record's `sel`.

`MC_HttFormat.tla` instantiates the model:
- every tag of the switch, plus an unknown tag;
- record lengths below, at and above the structure size;
- 1024 bytes for the clamped tags (the first length at which `tag_len >> 2` exceeds a u8) and 12 bytes for the unclamped ones;
- messages of one and of two records, well formed or with a declared length too short for them;
- any starting offset in a buffer of 8 bytes.

| Run | Expect | Checks | Shows |
|---|---|---|---|
| `format_core` (`HttFormat_core.cfg`) | pass | `TypeOK`, `OffsetBound`, `NulInBuffer`, `WalkTerminates`, `BufLenMonotone`, `ReadsWithinRecord` | The offset stays below the buffer size across every formatter of a message, from any start. `print_array_to_buf_index`'s NUL store lands inside the buffer, even when nothing was written. The string loop's index stays inside `data[]`. The walk ends when counts are clamped. No step lowers `stats_req->buf_len`: the footer after `index--` always restores the character that `index--` took back. Every record other than a CTRL_PATH_TX one is read within its `tag_len`. 77 k states. |
| `ctrl_path_guard` | violation | `RecordBounds` | `htt_print_pdev_ctrl_path_tx_stats_tlv` guards on `len` (the offset) instead of `tag_len` (line 425), so it reads a short record in full. |
| `u8_loop` | violation | `WalkTerminates` | An unclamped count of 256 or more (lines 557, 575, 615, 1043 and 2116, and the string TLV at 1970) wraps the u8 loop counter, and the softirq never ends. |

Mutants of `format_core`:
- `StrElemOffByOne` passes a size one too large for `data[]`;
- `PutStepSnprintf` uses snprintf's return value;
- `ArrElemNoOffset` leaves the offset out of the element's size;
- `UrrnUnclamped` drops the underrun formatter's `min_t`;
- `GuardedNoCheck` drops the common `tag_len < sizeof` guard, so a short record is read in full (`ReadsWithinRecord`);
- `ArrEndNoFooter` leaves out the footer after `index--` (a caller passing an empty footer), which lowers `buf_len` (`BufLenMonotone`).

Bounds:
- A buffer of 8 bytes with texts of 1 or 2 characters fills the buffer within one formatter. The clamp and the `index--` at a full buffer are therefore reached from every starting offset.
- `Bins = 2` keeps array loops short.
- The u8 wrap needs 256 iterations. It is reached with the 1024-byte records, which the pass run gives only to clamped tags.

Fairness: weak fairness on the whole machine, since a softirq runs to its end without blocking.

## The control files (HttCtl.tla)

`HttCtl.tla` models the three debugfs files that set up a request:
- `htt_stats_type` (`ath12k_write_htt_stats_type`);
- the type and cfg_param reads of `htt_stats`'s open (`ath12k_open_htt_stats`, `ath12k_debugfs_htt_stats_req`);
- `htt_stats_reset` (`ath12k_write_htt_stats_reset`).

The reply path of a request is `HttStats`'s business. Here open only sends the request, then returns either holding it or with an error.

State:
- `htype`, `hcfg` and `hreset` are `ar->debug.htt_stats.type`, `cfg_param[0..3]` and `reset`.
- `held` is the caller whose open holds `stats_req`.
- `cpc` and `ctype` are each caller's program counter and open's local `type`.
- `sent`, `rsent`, `hist` and `wcount` are ghost state:
  - the requests open sent;
  - the last reset request;
  - every type/cfg pair the configuration has held;
  - the byte count of the last type write.

Each action is one wiphy-lock critical section, so the lock has no variable. The exception is the read of `type` in open (line 3063), which happens before the lock. So open is two steps:
- `OpenReadType` is the unlocked read and the -EPERM check.
- `OpenLocked` is the rest. It either fails, or sends `Request(type, cfg_param)` and then returns with an error or holding the request.

The other actions:
- `WriteType` is the copy, the sscanf of up to five numbers, the -EINVAL checks and the locked store.
- `Release` clears the held request.
- `WriteReset` is the kstrtou32, the -E2BIG check, and the bitmap built by the switch on `param_pos = (type >> 5) + 1`.

Data abstractions:
- A bitmap word is the set of its bit positions.
- `1 << k` with `k` outside 0..31 is undefined. It is modelled as a choice between the x86 result (bit `k % 32`) and no bit.
- `ATH12K_DBG_HTT_NUM_EXT_STATS`, `ATH12K_DBG_HTT_EXT_STATS_RESET` and `HTT_STAT_DEFAULT_RESET_START_OFFSET` come from `debugfs_htt_stats.h`, which is not in this tree. They are the constants `NumExtStats` (at most 96, three bitmap words), `ResetType` and `ResetStart`.

| Run | Expect | Checks | Shows |
|---|---|---|---|
| `ctl_core` (`HttCtl_core.cfg`) | pass | `TypeOK`, `RequestTypeValid`, `ResetNamesOneType` | Every request open sends names a known, non-reset type, even though the type is read before the lock. With the start offset 0, a reset names its type by exactly one bit of the right word, for every type up to 95 (the inputs cover both sides of each word boundary). 136 k states. |
| `ctl_stale_type` | violation | `SnapshotConsistent` | Open reads `type` before the lock and `cfg_param` after it. A type write in between makes open send the old type with the new parameters, a pair no write ever stored. |
| `ctl_write_overflow` | violation | `CopyFitsBuffer` | `copy_from_user(buf, user_buf, count)` at line 2979 does not bound `count` by the 32-byte buffer. |

Mutants of `ctl_core`:
- `TypeValidNoBound` drops the `< ATH12K_DBG_HTT_NUM_EXT_STATS` check;
- `OpenReadTypeNoCheck` drops open's -EPERM check;
- `ResetParamPosNoInc` drops the `+ 1` of `param_pos`.

Bounds:
- Three callers let a type write fall between another caller's two open steps while a third holds the request.
- The type-write inputs cover no number, a bad type, one to five numbers, zero and nonzero parameters (which switch `override_cfg_param`), and a count over 32.
- The reset inputs are 0, 1, 31, 32, 63, 64, 95 and 96: both sides of each bitmap word boundary and the first invalid type.
- The callers are symmetric.

`ResetNamesOneType` depends on the start offset. With `ResetStart = 1`, TLC finds that type 31 shifts by 32 (undefined) and the bit falls into the wrong place or vanishes. The header is not in this tree, so the offset is a constant and the run uses 0. Because the offset is fixed at build time outside this tree, the nonzero case is not listed as a hazard of this code; the run documents what the bitmap computes at 0.

Proofs (`HttCtl_proofs.tla`), for every value of the constants allowed by `CtlAssumption`:
- `RequestTypeSafe`: `Spec => []RequestTypeValid`. The inductive invariant `CtlInv` strengthens `TypeOK` with two facts: the type a caller read and passed -EPERM with is valid, and the last reset request is one `ResetBits` allows for a valid type. The first fact is what carries the unlocked read across a concurrent write. A write only stores valid types, so the configuration is always valid.
- `TypeCorrect`: `Spec => []TypeOK`, from `CtlInv`.
- `ResetBitSafe`: under `ResetStart = 0`, `Spec => []ResetNamesOneType`. It rests on `CtlInv` and the lemma `ResetBitsAtZero`, which computes the bitmap of every type in 0..95.

## The abstract session (HttSession.tla) and the refinement

`HttSession.tla` states what the `htt_stats` file promises its callers.
- The radio has one stats session, owned by at most one caller.
- An open that takes the session either completes or gives it back with an error.
- Release gives an open file's session back.
- Weak fairness makes every open return and every give-back finish.

`HttStats.tla` implements it under the mapping `Session`:
- `owner <- SlotOwner`: the caller whose `cobj` is `stats_req`, or NULL.
- `st <- SessionState`: idle is idle; alloced and waiting are opening; opened is open; the free and clear steps are closing.

The handler, firmware and buffer steps map to stutters.

- The run `session` (`HttStats_session.cfg`) checks `SessionSpec == Session!Spec`, with fairness, on the core instance. Its mutant `OpenAllocNoBusyCheck` lets a second open take the session, which the abstract spec forbids.
- `SessionRefinement` in `HttStats_proofs.tla` proves `Spec => Session!SafeSpec` for every number of callers and objects:
  - `InitRefines` maps the initial state to `Session!Init`;
  - `NextRefines` maps every step to a session step or a stutter.

  The proof uses `OwnInv` (the invariant of `OwnershipSafe`), which makes `SlotOwner` well defined: only the one caller past idle has `cobj = stats_req`. The fairness half of the refinement is checked only by TLC.

## Not modelled yet, and the plan

1. Composing the TLV walk with `HttStats`, so that a message is parsed record by record between the handler's other steps.
2. Composing `HttCtl` with `HttStats`: the two share open. Here the unlocked type read is a step of its own, while `HttStats`'s `OpenAlloc` takes the type as given.
3. `ath12k_read_htt_stats` (`simple_read_from_buffer` of the finished buffer) and `ath12k_read_htt_stats_type`. Both are stateless reads with no concurrency hazard of their own; the buffer they read is what `BufferStableWhileOpen` is about.

Out of scope: the clock, PHY, hwmon, battery, bcachefs, GPU, s390 and selftest fragments. They are data tables and bring-up code with no concurrency or protocol.
