# TLA+ verification of pfFingerprint

This directory holds TLA+ models of the page-fault side-channel toolkit under
`src/pfFingerprint`. It also holds the TLC configurations that check the models
and the TLAPS proofs about them.

## The system

`spec.md` section 2 names the parts. Data flows one way:

1. **Live capture automaton** (`cmd/pfOSSHAttackEdDSA/attack.go`,
   `recordAttackTrace`). It runs while a trigger goroutine makes the victim
   guest sign once over SSH (`trigger/ssh.go`).
   - It busy-polls the hypervisor for fault events
     (`event_helpers.go`, `WaitForEventBlocking`).
   - On every fault it runs a print/save step: a CT/FE fault is appended to
     `attackEvents`, with a one-page memory snapshot when the position is a
     save point.
   - It then runs a re-track step: an in-sequence fault re-arms exec tracking
     of the next element of the current fault sequence and advances
     `sequenceIDX`.
   - Finally it acks the event.
   - Four alternating CT/FE faults are ignored first. Then the 22-element
     attack sequence repeats once per victim loop iteration.
   - Between attack indices 1 and 2 of cycle 0, every page is access tracked.
     The data faults collected in that window go to the stack-buffer locator.
2. **Stack-buffer locator** (`extractStackPage`). Among the last 10 faults of
   the burst it looks for three zero-retired writes followed by one
   zero-retired non-write.
3. **ECDH capture** (`cmd/pfOSSLAttackECDH`). This is a similar two-page toggle
   loop with one access-tracking cycle. `cmd/pfToggle`, the page-selection
   tool it was built from, runs the same loop without snapshots and logs
   every fault to `pf-log.txt`.
4. **Offline pipeline.** It starts from a recorded trace:
   - trace parsing and run segmentation (`buildAllowList`);
   - the offset scanner (`getUpdatedOffsets`);
   - EdDSA digit recovery, conversion and repacking (`keyRecovery.go`);
   - the secret extractor and forger;
   - ECDH swap-bit recovery.
5. **Tools outside the core.** These are the trace generators, the page
   selection tools and the CLI plumbing.

## Modules

| Module | Models |
|---|---|
| `StackLocator` | `extractStackPage` as pure operators |
| `CaptureEdDSA` | `recordAttackTrace` together with its environment |
| `MCCaptureEdDSA` | the model-checking instance |
| `CaptureEdDSAProofs` | the TLAPS proofs |
| `CaptureECDH` | `enterFaultHandlingLoop`, `processEvent` and the start-up of `main` in `cmd/pfOSSLAttackECDH`, with its environment |
| `ToggleRecorder` | the abstract capture: the victim's toggles logged in lockstep with it |
| `PfToggle` | `main` of `cmd/pfToggle`, with the same environment |
| `MCCaptureECDH` | the model-checking instance of both tools and their properties |
| `CaptureECDHProofs`, `PfToggleProofs` | the TLAPS proofs for the two tools |
| `ScalarCodec` | `sc25519Window3`, `signedBToUnsigned`, `unsignedBToMessageDigestReduced` (`keyRecovery.go`) |
| `OffsetScan` | `getUpdatedOffsets`, `getStackBufCandidates` (`scAnalysis.go`), `aesBLockAlignedOffsetsWithChange` (ECDH recovery) |
| `EdDSARecovery` | `recoverSignedBFromSC` and the recovery and forging loops of `pfOSSHRecoverEdDSAKey/main.go` |
| `ECDHRecovery` | the scan, swap-sequence recovery and compare loops of `pfOSSLRecoverECDHKey/main.go`, `parseSecretFromOpensslLog2`, `recoverScalarFromX25519Swaps`, `x25519KeyToScalar` |
| `AllowList` | `ParseInputFileWithRuns`, `runSets` and `intersectRunSets` of `cmd/buildAllowList` |
| `ToggleSequences` | `printToggleSequences` of `cmd/pfOSSHAttackEdDSA/analysis.go` |
| `OffsetScanProofs` | the TLAPS proofs for the scanners |
| `ECDHRecoveryProofs` | the TLAPS proofs for the ECDH recovery |
| `MCRecoveryOperators` | TLC instance for `ScalarCodec` and `OffsetScan` |
| `MCEdDSARecovery`, `MCECDHRecovery` | TLC instances for the two recovery tools |
| `MCTraceAnalysis` | TLC instance for `AllowList` and `ToggleSequences` |

**StackLocator.**
- `LocatorStep` is one pass of the `switch state`.
- `InnerScan` is the inner `j` loop.
- `ExtractStackPage` is the outer `i` loop, which stops at the first hit.
- `LocatorPanics` holds when `offset < 0`.

The loops are written as recursive functions, not RECURSIVE operators, so the
module stays usable from a module with proofs.

**CaptureEdDSA.** The automaton's variables are `status`, `seqIdx`
(`sequenceIDX`), `cycle` (`sequenceCycleCount`), `finishedIgnore`, `writeTrack`,
`burst` (`accessTrackEvents`), `stackBuf` (`stackBufferGPA`) and `trace`
(`attackEvents`).

The data are abstracted:
- A page is a model value.
- A fault is `[page, write, rz]`, where `rz` means zero retired instructions.
- A recorded event carries a `snap` flag (its `MonitorGPA` is set) and a ghost
  `tog`, the victim's toggle count when it was recorded.

One loop iteration is one atomic action: poll, the print/save step, the
re-track step and the ack. This is sound because only the main goroutine
touches automaton state, and the faulting vCPU stays blocked until the ack.

| Action | Code |
|---|---|
| `Start` | initial `CmdTrackPage` and the trigger goroutine start |
| `StartFails` | the `CmdTrackPage` error path at lines 37-39 |
| `HandleSpurious` | an out-of-sequence fault (lines 105-123, 191-199) |
| `HandleInSequence` | the expected fault, including the window start (lines 128-140, 176-199) |
| `StopLocates` | the window stop: untrack, `extractStackPage` finds the buffer, the snapshot attached to the last event (lines 141-174) |
| `StopNotFound` | the same stop, but the locator returns `(nil, false)` |
| `StopPanics` | the same stop with a negative offset |
| `IoctlFails` | any failing ioctl: read memory, track all, untrack all, track page, ack |
| `PollFails` | a `CmdPollEvent` error |
| `ReturnOnCancel` | `ctx.Done()` |
| `PollsEmpty` | a poll that returns nothing |

The environment is modelled from `spec.md` sections 4.2 and 6, because the
victim is not in this repository:
- The victim executes CT and FE alternately, `4 + 22*Cycles` toggles in all.
- A tracked page faults once and clears its tracking (`ToggleFaults`).
- An untracked toggle completes (`ToggleCompletes`).
- Between toggles the victim may touch an access-tracked data page
  (`DataAccess`).
- After the ack the vCPU re-executes the faulting toggle (`vretry`).
- The trigger either returns when the victim is done (`TriggerDone`) or fails
  early (`TriggerFails`). Either way its deferred `cancel()` cancels `ctx`.

## Runs

| Run | Expect | What it shows |
|---|---|---|
| `capture_safety` (`MCCaptureEdDSA.cfg`) | pass | `TypeOK`, `InStep`, `StepInv`, `SnapshotLayout`, `AdvancesWithVictim` all hold |
| `capture_liveness` (`MCCaptureEdDSALive.cfg`) | pass | `CaptureTerminates` holds |
| `poll_error_returns_success` | violation | `ReturnOnlyOnCancel` fails |
| `locator_panics_on_short_burst` | violation | `LocatorNeverPanics` fails |
| `ecdh_capture` (`MCCaptureECDH.cfg`) | pass | `TraceLayout`, `WriteGPAIsWindowAccess`, `ToggleLogIsVictimToggles`, `ToggleWriteGPAIsWindowAccess` hold; the capture refines `ToggleRecorder` (`RecorderRefinement`) |
| `ecdh_capture_panics_on_empty_window` | violation | `NoPanicAtWindowEnd` fails |
| `recovery_operators` (`MCRecoveryOperators.cfg`) | pass | `SignedDigitsOfDigest`, `RoundTrip`, `AesScanExact`, `StackBufCandidatesSound` hold |
| `offset_scan_misses_last_block` | violation | `StackBufCandidatesComplete` fails |
| `eddsa_recovery` (`MCEdDSARecovery.cfg`) | pass | `TypeOK`, `NoInvalidForgery`, `KeyRecoveredWhenObservable` hold |
| `eddsa_first_digit_zero_lost` | violation | `KeyRecoveredWhenConvertible` fails |
| `ecdh_recovery` (`MCECDHRecovery.cfg`) | pass | `TypeOK`, `KeyFoundWhenTraceComplete`, `CorrectOnlyTrueKey` hold |
| `trace_analysis` (`MCTraceAnalysis.cfg`) | pass | `RunsAreDelimited`, `AllowListIsCommonPages`, `ToggleCountsAreRealRuns` hold |

**capture_safety.**
- `InStep`: the element the automaton waits for is the victim's next toggle,
  or one ahead while the victim re-executes a toggle that was already handled.
- `StepInv`: the inductive form of `InStep`.
- `SnapshotLayout`: the i-th snapshot lies in victim iteration
  `(i-1) div 10` and, from iteration 1 on, at save point `(i-1) mod 10`. This
  is what `pfOSSHRecoverEdDSAKey` assumes when it indexes the snapshots.
- `AdvancesWithVictim` is an action property. In every step the automaton's
  position (`AutPos`, its place counted in victim toggles) stays, or moves
  from the toggle the victim is blocked on to the next one. A refault of the
  re-executed toggle (line 129) never advances it. The wraparound of
  `sequenceIDX` (lines 176-190) neither skips nor repeats a position. Its
  mutant counts the wrap out of the ignore sequence as a cycle. `InStep`
  catches a capture that falls behind; this property catches a jump of the
  position at the step where it happens.

**capture_liveness.** `CaptureTerminates`: `recordAttackTrace` always returns.

**poll_error_returns_success.** A `CmdPollEvent` error ends the loop, and line
202 returns the partial trace with a nil error. Spec 4.2 and 5 say only
cancellation is a clean end.

**locator_panics_on_short_burst.** A burst of fewer than `elemsFromBack`
faults makes `extractStackPage` index `events[offset]` with `offset < 0`. Spec
4.3 says the locator returns failure instead.

**Bounds.** `Cycles = 2` covers:
- the ignore-to-attack swap;
- the window in cycle 0;
- a cycle wrap;
- snapshots in iteration 1, which checks the save-point rank.

`ElemsFromBack` is 4 instead of 10. The window holds at most a handful of
data faults, and 4 is enough for the locator to panic, find nothing, or find
the pattern. `DataPages` has five model values with symmetry in the safety
run. The liveness run uses four pages without symmetry.

**Fairness.**
- `WF` on the automaton: the loop busy-polls, so a delivered event or a
  cancelled `ctx` is acted on.
- `WF` on the victim's toggles: the vCPU runs while it is not blocked.
- `WF` on `TriggerDone`: `Execute` returns after the victim's last toggle.

Data accesses, failures and an early trigger error are never forced.

**Mutants.** Each property of a passing run is broken by a plausible bug in
the mapped code:
- `RecordedAll` records data faults too, which breaks `TypeOK`.
- `ArmCurrent` re-tracks the current element instead of the next one, which
  breaks `InStep` and `StepInv`.
- `TakesSnapshotEarly` ignores `stackBufferGPA != 0`, which breaks
  `SnapshotLayout`.
- `ReturnOnCancelAfterEvent` looks at `ctx` only after an event, which breaks
  `CaptureTerminates`.

## Proofs

`CaptureEdDSAProofs` proves the following for every number of iterations and
every set of data pages. The assumptions are `PagesAssumption`,
`CyclesAssumption` and `NoEventAssumption`.

- `TypeCorrect`: `Spec => []TypeOK`. The proof has one step per action and per
  changed variable, with lemmas for `Recorded`, `Collected`, the attached
  snapshot and `Advance` (wraparounds included).
- `StepInvariant`: `Spec => []StepInv`.
- `InStepHolds`: `Spec => []InStep`.
- `AdvancesWithVictimHolds`: `Spec => AdvancesWithVictim`. It follows from
  `StepInv` and `AdvanceStep`. By `ExpectedFaultIsBlocked`, an expected fault
  comes from the toggle the victim is blocked on (`AutPos = vt`), and
  `Advance` adds exactly one. No other action touches the position.

`InStep` alone is not inductive, because it does not say which pages are
armed. `StepInv` strengthens it with three situations while the capture runs:
- **About to toggle.** The expected element is armed and the other toggle page
  is not, so the next toggle cannot slip through.
- **Blocked.** The victim is blocked on the fault of the expected element.
- **Retrying.** The automaton has advanced and armed the next element, and
  the victim re-executes the toggle just handled.

It also adds the bounds of the ignore phase (`IgnoreBounds`) and the initial
state (`NotStarted`).

The key lemmas are:
- `ToggleParity` and `ExpectedIsNextToggle`: the element `sequenceIDX` points
  at is toggle `AutPos + 1` of the victim.
- `AdvanceStep`: `Advance` moves `AutPos` by exactly one, across both
  wraparounds. The page re-armed from the sequence before the swap is the new
  expected element.

There is one lemma per action, and `StepStep` combines them.

`CaptureECDHProofs` proves the ECDH capture's two trace properties, and its
refinement of `ToggleRecorder`, for every
`IgnoreCycles` and `Iterations` (assumption `ECDHCaptureAssumption`). Every
theorem has the hypothesis `~RetrackedPageRefaults`: the hypervisor does not
make a page it has just re-tracked fault again on the same vCPU before the
victim executes the instruction once. This is not an assumption taken on
trust. With `RetrackedPageRefaults = TRUE`, TLC finds the refault counted as
the next cycle, which is the listed interleaving hazard. The runs check the
`FALSE` behaviour, which is what the code relies on.
- `ECDHInvariant`: `Spec => []ECDHInv`.
- `TraceLayoutInvariant`: `Spec => []TraceLayout`.
- `WriteGPAInvariant`: `Spec => []WriteGPAIsWindowAccess`.
- `CaptureImplementsRecorder`: `Spec => RecorderRefinement`, that is,
  `Spec => Recorder!Spec`.
  - Each step maps to an abstract step or a stutter:
    - the print steps `HandleGpa1`/`HandleGpa2` are `Observe`;
    - `WindowEndPanics` is `Stop` with a logged toggle;
    - the error returns are `Stop`;
    - `ToggleCompletes` is `Execute`;
    - everything else leaves the mapped state unchanged.
  - `ECDHInv` supplies the facts this needs. A pending toggle fault is
    `Toggle(vt + 1)` with `Len(trace) = vt`. A victim that completes a toggle
    has had it handled, so `Len(trace) = vt + 1`.
  - One more invariant, `RetryBound` (a retried toggle is one of the
    victim's `TotalToggles`), gives `Observe` its bound.

Neither property is inductive alone. `TraceLayout` says nothing about which
pages are armed, and `WriteGPAIsWindowAccess` says nothing about the window's
log before it closes. `ECDHInv` adds two invariants:
- `VictimInv` ties the victim's position `vt` to the trace. The trace has `vt`
  entries, or `vt + 1` once the pending toggle is handled. A pending toggle
  fault is `Toggle(vt + 1)` and is unarmed. While the victim runs, its next
  toggle is armed.
- `LoopInv` ties the loop counters to the trace length. `gpa1Count` is half the
  trace, rounded up. `haveWriteGPA` is set exactly when the trace has passed
  the window. `inCycle` holds exactly in cycle `IgnoreCycles + 1`. Inside the
  window, the last entry of `cycleLog` is the last data page the victim
  accessed (`winLast`).

TLC checked `ECDHInv` as an invariant of `MCCaptureECDH` before it was
proved, at `IgnoreCycles`/`Iterations` = 1/4 and 2/5. There is one step lemma
per action. `HandleGpa1Step` splits on whether the step closes the window.

`PfToggleProofs` does the same for `pfToggle`, with `ToggleInv`, which is the
same invariant without the trace.
- `ToggleWriteGPAInvariant`: every Write GPA line is the window's last data
  page.
- Its hypotheses are `~RetrackedPageRefaults` and `ToggleConstants`. The
  latter says the two toggle pages differ, are not data pages and are not
  `NoEvent`, and that the bounds are naturals.
- `MCCaptureECDH` asserts `ToggleConstants` with an `ASSUME`, so TLC checks it
  on every run of the ECDH model.

`OffsetScanProofs` proves the scanners for every page size, alignment and
block size that `ScanAssumption` allows, and for any two snapshots:
- `AesScanIsExact`: the AES scan returns exactly the differing blocks. Its
  lemma `AlignedBlockFits` shows that looping to `len(a)` reads no byte past
  the page.
- `UpdatedOffsetsSound`: every offset `getUpdatedOffsets` returns is a changed
  window inside the page.
- `StackBufCandidatesInCycle`: every candidate comes from two consecutive
  snapshots of one main-loop cycle.

These are the operator-level forms of `AesScanExact` and
`StackBufCandidatesSound`. The run states those properties in
`MCRecoveryOperators`, which reaches RECURSIVE operators, so the theorems
cannot live there.

`ECDHRecoveryProofs` proves `CorrectOnlyTrueKeyInvariant` and
`TypeCorrect`: `CorrectOnlyTrueKey` and `TypeOK` hold for every number of
ladder iterations (a multiple of 8, at least 8), every set of blocks, every
noise and every marker log that `ECDHAssumption` allows.
- The core is `ParsedScalarIsKey`. Suppose the ground truth parses and has
  `Iterations + 1` bits. Then `correctScalar` is the victim's scalar. The
  scanner loop `MarkerScan` may end in any state, but a "short" last marker
  gives `8 * (NKeyBytes - 1)` bits, so the last marker must be "key". Bit `i`
  of `secretAsBits` is then bit `i % 8` of byte `i \div 8 + 1`
  (`SecretBitAt`), as in `KeyBits`. No induction over the log is needed,
  because the proof never asks which marker the loop ended on, only what
  the bytes of either one give.
- Neither property is inductive alone. `RecoveryInv` adds the facts below.
  TLC checked it on `MCECDHRecovery` before it was proved.
  - In the scan nothing is recovered and nothing is left to compare, so
    `Scan` may replace the candidates.
  - Nothing is judged before the compare loop.
  - The compare loop runs only with every candidate recovered and a parsed
    log.
  - A judged pair was compared against a ground truth of the right length.
- `RecoveryInvStep` has one step per action. `Compare` uses
  `ParsedScalarIsKey`, and the others change nothing that the judged pairs
  depend on.
- `RecoverSwaps` writes the map update of line 210 as an explicit function
  on the old domain plus the new offset. The provers cannot expand the TLC
  module's `@@` and `:>`.

**Only model-checked:**
- `SnapshotLayout` and `ToggleLogIsVictimToggles`. Both are stated with
  `SelectSeq`, a recursive function on sequences. Relating it to `Append` for
  every sequence needs induction over data, which the provers cannot
  instantiate.
- The liveness property `CaptureTerminates`, since TLAPS does not reach
  liveness or ENABLED.
- Everything that depends on what `ExtractStackPage` computes, since induction
  over the recursive functions is out of the provers' reach.
- The completeness properties of the scanners, `NoPanicAtWindowEnd`, and the
  offline tools' other properties. `AllowList` and the decoders reach
  RECURSIVE operators through `SequencesExt`/`Folds`, or compute by
  iteration, which the provers cannot unfold for all inputs.
  `NoPanicAtWindowEnd` is a violation run.
- `KeyFoundWhenTraceComplete`. It needs the swap recovery
  `recoverScalarFromX25519Swaps`, a recursive function from bit 254 down, to
  undo the ladder's XOR swaps at every position. That is an induction over
  the bit positions through a recursive function, which is out of the
  provers' reach.

## ECDH capture (`CaptureECDH`)

The ECDH tool toggles exec tracking between `gpa1` (the x25519 base page)
and `gpa2` (the fe64 page). On the `IgnoreCycles`-th `gpa1` fault it access
tracks every page and opens a window. While the window is open, data faults
are appended to `cycleLog`. The next `gpa1` fault closes the window and takes
the last logged page as `writeGPA`. From then on every printed event carries
a snapshot of `writeGPA`.

The variables are `status`, `gpa1Count` (`gpa1CycleCount`), `inCycle`,
`cycleLog`, `haveWriteGPA`, `writeGPA` and `trace` (the printed events, each a
page and the page its snapshot came from). As in the EdDSA model, one loop
iteration is one action:

| Action | Code |
|---|---|
| `HandleGpa1` | print step, then lines 96-114: close the window, track `gpa2`, open the window |
| `WindowEndPanics` | line 98 on an empty `cycleLog` |
| `HandleGpa2` | print step, then lines 115-119 |
| `HandleData` | lines 120-124 |
| `IoctlFails` | any failing read, encode, write, track or ack |
| `PollFails`, `ReturnOnCancel` | lines 130-140 |
| `Start`, `StartFails`, `TriggerDone`, `TriggerFails` | `main`, lines 237-261 |

The victim and the hypervisor come from the spec, as for EdDSA. One thing is
not stated anywhere: whether tracking that the handler sets on the page whose
fault is pending survives the vCPU's resume. The constant
`RetrackedPageRefaults` chooses. With `TRUE`, `CmdTrackAllPages` makes `gpa1`
refault at once. That refault is counted as the next cycle, so the window
closes empty and line 98 panics. The runs take `FALSE`, the only reading under
which the tool can work.

- `TraceLayout`: the k-th printed event is the victim's k-th toggle, and
  exactly the events after the one that closes the window carry a snapshot of
  `writeGPA`. `pfOSSLRecoverECDHKey` indexes the trace this way.
- `WriteGPAIsWindowAccess`: `writeGPA` is the last data page the victim
  touched in its window cycle. This is a ghost variable of the environment
  compared with the capture's state.
- `RecorderRefinement`: the capture implements `ToggleRecorder`, the abstract
  capture. There, a toggle is appended to the log (`Observe`) before the
  victim executes it (`Execute`), and the capture may `Stop`, possibly after
  logging the toggle it was handling.
  - The mapping `Recorder` takes the pages of `trace` as the log, `vt` as the
    victim's count, and `status \in {"init", "running"}` as "still open".
  - `TraceLayout` does not imply this property. If the re-track step tracks
    the wrong page (the mutant `TrackedAfterGpa1Same`), the victim runs its
    next toggles unobserved. The trace keeps a correct alternation but lags
    the victim; the refinement fails and `TraceLayout` still holds.
- **ecdh_capture_panics_on_empty_window.** If the victim touches no data page
  in the window, line 98 indexes an empty slice. The code does not return
  "did not find write gpa".

**pfToggle** (`PfToggle`, checked in the same run). `tool` is chosen in
`Init`; a behaviour runs either the ECDH tool or `pfToggle`, and the other
tool's variables keep their initial values. `pfToggle` writes every fault,
data faults included, to `outLog`, which is what `pf-log.txt` holds once the
deferred `Flush` has run. `WriteStep` models the `bufio.Writer` (line 42):
- A failed `WriteString` is only logged and the loop goes on.
- The writer keeps its error. Every later write fails too.
- Lines still in the buffer never reach the file. At the failure, `outLog`
  becomes one of its prefixes (`Flushed`).
- The ghost `writeLost` records the failure.
- An error from the deferred `Flush` itself is discarded by the code and is
  not modelled separately; it truncates the log in the same way.
`-writeTrackInbetween` is `wti`, chosen in `Init`; with it the window works as
in the ECDH tool, except that the write GPA is only logged (`writeLog`) and
`cycleLog` is emptied. SIGINT and a failed poll both end the loop
(`WaitFails`). The flag checks and the start-up failures are `StartReturns`
and `StartDies`.
- `ToggleLogIsVictimToggles`: the `gpa1`/`gpa2` entries of `pf-log.txt` are
  always the victim's first toggles in order, none missed or doubled, up to
  the toggle in progress. While no write has failed, they are all of them.
  - A failed write truncates the log silently. The tool keeps toggling and
    exits normally, but the log never has a gap.
  - A writer that dropped one line and went on would leave a gap, which
    `printToggleSequences` would read as a page executed twice. That is the
    mutant `WriteStepNotSticky`, and TLC finds it.
- `ToggleWriteGPAIsWindowAccess`: the logged write GPA is the window cycle's
  last data access.

**Bounds.** There are three data pages, with symmetry. `IgnoreCycles = 1`
puts one cycle before the window. `Iterations = 4` leaves cycles after it
whose events carry snapshots. There is no fairness and no liveness property
here. `Terminated` stutters once `enterFaultHandlingLoop` has returned.

## Offline recovery

These tools are pure functions of a recorded trace. Their operators are
checked against reference definitions on every input of a small instance. The
MC modules choose the input once in `Init` and never change it.

**ScalarCodec.** It keeps the int8 and byte arithmetic of the Go code: `& 7`,
`>>` as floor division, shifts into a byte taken mod 256, and `|` as `Or8`.
`NGroups = 1` runs each loop body once and each tail once.
- `SignedDigitsOfDigest`: the signed digits have the digest's radix-8 value,
  decided by a borrow chain with no big integers.
- `RoundTrip`: unsigning and repacking give the digest back bit for bit.

**OffsetScan.** The page has 6 bytes, with alignment 2, block 4 and AES block
2. There are two cycles of two snapshots.
- `AesScanExact`: the 16-byte scanner is exact.
- `StackBufCandidatesSound`: every EdDSA candidate is a block that changed
  within one cycle.
- `offset_scan_misses_last_block`: the loop bound at `scAnalysis.go:46` skips
  the last block.

**EdDSARecovery.** This is `recoverSignedBFromSC` per offset, followed by both
loops of `main` over Go maps, visited in any order.
- Each cycle's digit is read from which of its five snapshot pairs changed.
- The curve is abstracted by what it decides. `R` matches iff the digits have
  the victim's value. The forgery verifies iff the repacked digest is the
  victim's.
- The candidate offsets are the stack buffer and one noisy block, whose noise
  includes patterns that read as digits or are ambiguous.

Properties:
- `NoInvalidForgery`: the "should not happen" log line is unreachable.
- `KeyRecoveredWhenObservable`: the key is found whenever the victim's first
  digit is one of the candidates and its digits can be unsigned.
- `eddsa_first_digit_zero_lost`: a first digit of 0 is never tried
  (`main.go:209`), so the key is lost for those nonces.

**ECDHRecovery.** The key has one byte, so the scalar has 8 bits
(`Iterations = 7`). Clamping is modelled. The key bytes take every value of
the free bits 3-5, with the clamped bits set or clear. A noisy block may show
any change sequence.
- The ground truth is parsed from the log as `parseSecretFromOpensslLog2`
  does. Each `secretFromOpenSSL` line is one of "key", "short" (truncated by
  one byte), "empty", "badhex" or "badtokens". Every log of up to two such
  lines is tried. The last marker wins, a bad token count anywhere is an
  error, and the bytes become bits least significant first.
- The victim's ladder swaps are `bit(p) XOR bit(p+1)`. This is modelled from
  spec 4.7, since OpenSSL is not in the repository.
- Whether the trace is complete and what the secret line holds are chosen in
  `Init`. An incomplete trace ends in `log.Fatalf`.
- `KeyFoundWhenTraceComplete`: with a complete trace and a log whose last
  marker holds the whole key (and no marker with a bad token count), `main`
  reports the scalar found.
- `CorrectOnlyTrueKey`: every block and guess printed "correct? = true"
  gives the victim's real scalar. The comparison is against the log, so a
  misread log would let a noisy block pass: the wrong bit order, or a last
  marker one byte short. Every modelled marker holds the victim's key, whole
  or truncated. A marker of another key is not modelled, so this property
  does not cover a stale key.

**AllowList and ToggleSequences** (`MCTraceAnalysis`). The allow-list input is
every log of up to 5 lines over two GPAs, with both `-excludeKernel` settings.
The toggle input is every trace of 3 to 8 faults over three pages. Shorter
traces make `events[1:3]` slice past the end.
- `RunsAreDelimited`: a well-formed log splits into its Start/Stop segments,
  and an undecodable line inside a run is the error.
- `AllowListIsCommonPages`: the output is the set of GPAs in every run.
- `ToggleCountsAreRealRuns`: every recorded toggle count is a run that
  occurs.

**Mutants** of these runs:
- a carry dropped in `Sign`;
- the borrow dropped in `Unsign`;
- the scanners' loop bound and block width;
- the digit negation applied after -4;
- the forging loop over all offsets;
- `swapSequence[254]` left unset;
- the compare loop over every block;
- the key bytes expanded most significant bit first;
- `pfToggle` re-tracking `gpa1` after a `gpa1` fault;
- `pfToggle`'s window opened a cycle early;
- the print step after the re-track step;
- the window opened a cycle early;
- a run not reset at Stop;
- the second run skipped in the intersection;
- the run length not reset in the histogram.

**Found while modelling, kept as hazards rather than runs.** A project holds
at most twelve runs, so these four have no run of their own. Each one was
shown by TLC on a property that has since been removed.
- `signedBToUnsigned` panics on digits with no negative one.
- The ECDH compare loop indexes a nil scalar after a wrong-length secret in
  the log (`main.go:233`, `255`).
- `printToggleSequences` never records the run that reaches the end of the
  trace. Its second pass also counts a same-page pair against an overlapping
  window.

## Not modelled

- The trace generators and the other page-selection tools
  (`pfTraceGenerator`, `pfBatchTraceGenerator`, `detectExecPages` and the
  others). They are exploratory capture loops outside the core.
- `generateAttackConfig`, the RIP/GPA filters, `jsonToPlain` and all file and
  flag handling.
- The progress-logging goroutine (read only).
- The `sigMsg` decoding.
- The deferred untrack, and tracking after return.
- The curve arithmetic behind `RecoverBigRFromB` and the forger, and OpenSSL's
  ladder. They are abstracted by what they decide.
