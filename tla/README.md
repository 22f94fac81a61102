# TLA+ models of the smart lock firmware

This directory holds TLA+ specifications of the firmware in `src/`, TLC
configurations that check them on small instances, and TLAPS proofs of their safety
properties for every value of the constants. `PROJECT.json` is the index:
components, runs, the source lines behind each definition, findings, hazards and
theorems.

Run `tlc -config X.cfg M` for a run and `tlapm M.tla` for a proof module.

## 1. The system

An ESP32 talks to a phone over NFC (a PN532 controller on I2C), authenticates it
with a three-message handshake, and drives a bolt. Two FreeRTOS tasks share the
state:

* the **comm task** (`comm_task_fn`) runs one NFC session after another;
* the **Application task** (`app_task`) executes commands, moves the bolt, stores
  keys and persists intents.

```
 phone ~~NFC~~ pn532 -- lli -- transport -- session --(dispatch callback)--+
                                   comm task                              |
                                                                 mailbox, notifications
                              Application task                            |
   key_store, intent_log -- NVS   <--  app_module / app_dispatch  <-------+
   aai -- motor backend           <--  actuation_tick
```

| Component (under `src/components/`) | State | Operations | What is hard |
|---|---|---|---|
| `storage/key_store` | `s_keys`, `s_count`, NVS `k00..k63` | init, add, revoke, get, contains | several HAL writes per operation, power loss and failures between them; lock-free reader on the other task |
| `storage/intent_log` | cached and persisted target | init, write, read | written before and after each motion; a result nobody looks at |
| `storage/storage_hal` | NVS handles | write, read, erase | `set` refused, `commit` failing after the change |
| `transport` | `state`, `session_just_ended` | one handler per state | a dozen error paths, each of which must erase; handshake deadline |
| `session` | `stage`, four sets of secrets, provisioning window, cached M3 | M1, M3, payload, erase, arm, verify identity | the window is shared between the tasks |
| `comm_module` | mailbox, event slot, `g_session_active`, `g_stop_requested`, retry count | dispatch with a bounded wait, poll, complete, callbacks, stop | no lock, one notification for commands and events, timeout against late answer |
| `app_module`, `app_dispatch` | pending actuation, last error, caches | wake loop, dispatch, actuation tick, boot recovery | reply before the motion, jam, reboot in mid-motion |
| `provision_mgr`, `provision_button` | secret, window, what the display shows; edge time, press time, confirmed level | arm, is_active, handle_cmd, abort; ISR, look once per loop | the window is kept twice, on two tasks; an ISR between any two accesses, debounce at loop cadence |
| `storage`, lock identity | identity blob, sentinel, copies in RAM | load, or generate and wipe | four kinds of HAL calls in a row on the first boot, called from two places |
| `actuator` (AAI, stub) | bolt state, target, deadline | open, close, stop, status | time, jam, position unknown after a reboot |
| `lli`, `pn532` | bus and device handle, bus mutex, recovery count, interrupt semaphore; configuration in the chip | init, activate, receive, send, link status; command/ACK/response exchange, frames, write with recovery ladder, wait, read | an interrupt, failures at every rung, a semaphore that remembers, partial initialisation, damaged and extended frames, a chip that resets silently |
| `main` | mode and backends of the build | start of the peers, the comm stack and the Application | every step may fail |
| `display`, `integrity` | – | the QR code; a periodic check | two writers of one error code |

What makes each part correct: the **key store** never loses a granted key, never
revives a revoked one, keeps NVS and RAM equal, and never lets the resolver accept
a key that was not stored; the **mailbox** executes each command once, answers it
with its own reply and loses no wake-up; **transport and session** agree on where
the handshake is, keep key material only as long as its stage, end every
handshake, and never serve a phone with another phone's keys; **actuation**
persists an intent before the bolt moves and never loses an acknowledged command
silently; the **PN532 driver** returns from every exchange, never hands over an older
command's response, and survives a recovery that fails half-way; its **commands** arrive
as meant and deliver what the chip sent; **provisioning** takes one key per arming, that of
the phone that used the window and knows the secret; a **boot** that fails leaves nothing
behind, and one that succeeds runs with the identity of the last one. `PROJECT.json` "hazards" lists, line by line, where this can go wrong.

## 2. Modules

| Module | Models | Shape |
|---|---|---|
| `KeySet` | what `key_store.h` promises | abstract specification: one persistent set, one key at a time |
| `KeyStore` | `key_store.c` over `storage_hal.c` | each HAL call, each slot of the `memmove`, count and slot publication are separate steps; power may go at any of them |
| `KeyResolver` | the candidate loop of `session_handle_m3` over `key_store_get`, on the comm task | EXTENDS `KeyStore`; the range test and the copy are separate steps |
| `Mailbox` | `comm_module.c` hand-over and the `app_task` loop | each access to the mailbox or a notification is a step of one of two tasks |
| `Session` | `session.c` | actions on the session's variables, with a result, called by `Transport`; cryptography is a verdict |
| `Transport` | `transport.c` and the loop of `comm_task_fn` over the results of `lli.c` | EXTENDS `Session`; `pc` is the place in the state handler |
| `ProvisionButton` | `provision_button.c` | actions on the button's variables, called by `Actuation` |
| `Actuation` | the loop of `app_task` without the mailbox: integrity check, `actuation_tick`, button, `start_actuation`; `boot_recovery`, gate of `app_dispatch.c`, `intent_log.c`, `aai_backend_stub.c` | EXTENDS `ProvisionButton`; one step per HAL call or backend call |
| `Provisioning` | `provision_mgr.c`, `app_dispatch.c` with its context, the window and the cached M3 of `session.c`, the sessions of the comm task | two tasks; each store of an arming and of an M3's cache is a step; the key store is the set of `KeySet` |
| `Pn532I2c` | `pn532_i2c.c`: write with its recovery ladder, wait_ready, read_frame, ISR | each bus call and each access to the interrupt line or semaphore is a step |
| `Pn532` | `pn532.c`: command, ACK, response, resync, NACK, as `pn532_cmd.c` and `lli.c` call them | EXTENDS `Pn532I2c`; `at` is the stage of the exchange |
| `Pn532Frame` | frames of `pn532.c`: build, find the start, match, parse | operators on sequences of bytes |
| `Pn532Cmd` | `pn532_cmd.c` and `lli.c` over whole frames | EXTENDS `Pn532Frame`; a call is a script of commands, each one exchange |
| `Identity` | `key_store_identity_init` | one step per HAL call; called by `Startup` |
| `Startup` | `app_main` and what it calls until the tasks run, with the clean-up paths; the builds | EXTENDS `Identity` |
| `MCKeyStore`, `MCKeyResolver`, `MCProvisioning`, `MCPn532Cmd` | – | instances for TLC: constants, symmetry, payloads |
| `KeyStoreProofs`, `MailboxProofs`, `TransportProofs`, `ActuationProofs`, `ProvisioningProofs`, `Pn532Proofs`, `Pn532CmdProofs`, `StartupProofs` | – | theorems; `KeyStoreProofs` has those of the resolver as well |

Names follow the source: `s_keys`, `command_valid`, `session_handle_m3`,
`actuation_tick` mean what they mean there. Operators with a suffix such as
`AddStart_OffByOne` stand before the definition they resemble; each is that
definition with a plausible slip in it, used only to see that a property notices
(`PROJECT.json` "mutants").

### KeyStore and KeyResolver
`s_keys`, `s_count` and `nvs` are the two copies of the store; `pc`, `key`, `idx`,
`i` are the locals of the running operation. `Store` is one HAL call: it takes
effect, is refused (`"set"`), or fails in `nvs_commit` with the change made
(`"commit"`). `TornRevoke` says whether a failure or a power loss may fall into
the compaction of a revoke (after the erase of the revoked slot, before the erase
of the last). `granted` and `revoked` are history variables. A boot that fails
is a lock that stays off. In `KeyResolver`, the slot that is being written may be
read as a mixture of two keys, which verifies nothing; `held` is the history of
what was in the store during the resolution. `missable` records what excuses a missed
signer: it was not in the store when the resolution began, it is being revoked, or a step of the
`memmove` took it from the slot to be read next to the one before it. `Abstract` maps the key store to `KeySet`:
the honoured keys are the RAM slots below the count, and without power the NVS slots that the
next boot loads.

### Mailbox
A command is its number and the reply to it carries the number. `Torn` is the
result of a copy that overlaps a write, `Empty` the reply after a timeout.
`late` records that a bounded wait has ended without an answer. A lifecycle callback is
three steps (flag, event, notification); `comm_on_terminated` runs twice, as in
`session_on_erase`. Notification counts are flags, because every take clears them. `overtaken` records
that an event was written between the read and the clear of `comm_module_poll_event`.

### Session and Transport
`secrets` says which key material is not zeroized. `window_open` says that the
provisioning deadline lies ahead; `deferrals` counts the M3s let through
unverified since the last arming. `left` is the handshake deadline in ticks. Every
call into `lli.c` may return each error `lli.c` can return at that place. Link
status and phones are free. `run_idle` only finds a reader when a phone is near.

### Actuation
Both numberings of the bolt's state are kept as numbers, since the code compares
one with the other (`TargetReached`). `due` says that the stub's deadline has
passed; `s_sim_jam` is the build option, chosen in `Init`. A command that is
refused, or that is no UNLOCK or LOCK, is `CommandOther`. The branches of
`boot_recovery` that ask for a backend which is not LOCKED at boot
(`app_module.c:166-209`) cannot be reached with the stub, so `Boot` goes to the
clear of the intent; after it (and after any clear) the loop starts again with
`TickIdle`, a step without effect. `s_sim_tamper` is the other build option: the check at
the head of the loop then writes TAMPER over whatever `s_last_error` held. A look at the button
is three steps, the read of the pin, the test of the debounce age and the commit, which forgets an
edge stamped since the test. The button's ISR and time run between any two steps of the task. A timestamp is kept as its age, which
stops growing where the code can no longer tell the difference. What a complete hold does
is in `Provisioning`.

### Provisioning
A phone is its key, a transcript the number of its handshake, a signature the pair of
both, a secret the number of the arming that drew it. `session_arm_provisioning_window` is
five stores and an M3 in the window three, in any order between the two tasks; `raced`
records that they overlapped. `cmd.verified` is history: whether the resolver had found the
sender's key. `window_open` and `s_open` are the two deadlines, of `session.c` and of
`provision_mgr.c`; the former is drawn first and passes first. A phone may present any
key and any secret shown so far. The races of the mailbox are left to `Mailbox`, those of
the resolver to `KeyResolver`.

### Pn532I2c and Pn532
An operation of the transport starts when `pc` is set to its first place and ends
in `written`, `waited` or `received` with its result in `err`. `bus` and `dev` are
live or NULL handles; a call on a live handle may succeed, time out or report
INVALID_STATE, and an error may come after the chip has the whole frame, or after a read has
taken the chip's. `chip`
is the PN532: idle, working on an ACK or a response, or holding one with IRQ low.
It is assumed to drop what it was doing for a new command, and to be reset by the
reset line. `irq_mode` is the wiring (the firmware wires IRQ and reset;
`smart_lock_firmware.c:92`), chosen in `Init`. A frame is an ACK, a response or
garbled; which command it is makes no difference. Only the comm task uses the
driver, so a mutex that is taken when an operation starts was left behind by an
earlier one; `LockIsFree` excludes it. `fresh` (the command of this exchange was written) and
`recoveries` (since the last successful write) are history variables.

### Pn532Frame and Pn532Cmd
Here bytes are numbers, since lengths and checksums are what matters. Every response the
chip can give is built as a frame, over-read to the size of the driver's buffer with
different trailing bytes, damaged in at most one byte and parsed by the code's parser.
Error frames, the answer to another command and every error of the transport may come
instead. `ChipReads` reads a command frame by the layout in the PN532's manual, not by the
driver's. `chip` is the configuration in force in the chip, which a silent reset clears.
`History` are the general bytes of an activation, at most 47 (`pn532_cmd.c:26`).
After a checksum error the driver resynchronises and reads again: a whole frame, or what is left
when `resync_frame` has taken 00 00 FF (`Headless`), which the parser searches for a start code all the same.
`DataIsNoFrame` says of the constants that no reply passes for another one
when a byte of its start code is damaged or the start code is gone. A frame protects its data from this only
by not containing something that looks like a frame, so this is an assumption on the
data; `MCPn532Cmd` makes it and TLC evaluates it there.

### Identity and Startup
A phone's key is represented by the identity of the lock it was provisioned for. `at` is
the step of the start, `held` what `pn532_i2c_create` and `pn532_init` have acquired,
`failed_at` the step that failed. `key_store_identity_init` is called by
`AppModule_GetCommConfig`, whose failure is not fatal, and by `AppModule_Init`, whose
failure is. While the power is off another build may be flashed and the identity
blob may be lost. `spoiled` (history) records the events after which keys of
another identity can stay: a first boot that is cut short or hits an error, a lost
identity with its sentinel in place, the storage harness.

## 3. Runs

| Run | Bounds | Result |
|---|---|---|
| `key_store` | 4 keys, 3 slots, refused writes, no failure inside a compaction | 246,604 states; `HalMatchesRam`, `GrantedSurvive`, `RevokedStayRevoked` hold, and `ImplementsKeySet`: every step adds one key, revokes one or leaves the honoured set alone, power loss and boot included |
| `key_resolver` | 3 keys, 2 slots, every failure, power loss everywhere | 1.48 million states; `OnlyHeldAccepted`, `OnlyMovedMissed` hold |
| `mailbox` | 3 commands over any number of sessions | 286,860 states; `MailboxInv` (no orphan command, no lost wake-up, no notification to a task that has gone), `PromptReplyMatches`, `AtMostOnce`, `LastEventSeen` and `EveryCommandAnswered` hold |
| `mailbox_late_reply` | 2 commands | `ReplyMatchesCommand` fails: finding |
| `transport` | handshake of 2 ticks | 6,210 states; `StageMatchesState`, `KeysMatchStage`, `ServesThisPhoneOnly`, `HandshakeEnds` and `PhoneGone` hold |
| `actuation` | every HAL failure, all four builds, debounce 2 ticks, hold 1 | 78,790 states; `ActuationInv` (a motion is recoverable), `AcknowledgedIsDone`, `JamIsReported`, `ArmingIsDeliberate`, `HoldIsNoticed` hold |
| `actuation_completion` | no HAL failure | `CompletionIsNoticed` fails: finding |
| `pn532` | 2 polls, resync of 2 bytes | 59,303 states; `DriverInv` (mutex free, no dangling handle, recovery bounded), `ResponseIsFresh`, `NoLostIrq`, `FatalIsEarned` and `ExchangeEnds` hold |
| `provisioning` | 2 phones, 2 handshakes, 2 armings | 5.4 million states; `ProvisioningInv` (the secret is on the display exactly while the window is active), `CacheIsWhole`, `OneTryPerArming`, `NothingActsInWindow`, `CommittedKeySigned` hold |
| `provisioning_unverified` | the same | `ActsForVerifiedPhone` fails: finding |
| `pn532_cmd` | payloads of 0, 1, 2, 251, 252, 253, 262 and 263 bytes, one damaged byte, 3 fragments | 6,567 states over 215,000 transitions; `CommandInv` (buffer bounds; only a wedged controller is fatal), `DeliveredIsSent`, `CommandArrives`, `OkMeansDone`, `TargetIsConfigured` hold |
| `startup` | 3 slots, 2 identities, 144 builds | 812,414 states; `StartupInv` (persisted public key, no leak, one destruction, no skeleton at work), `SignsAsItself`, `OwnKeysOnly`, `IdentityIsStable` hold |

Why the bounds are enough. Three slots give a revoke of the first, a middle and
the last slot, a compaction of two moves, and a full store with a fourth key
outside it; two slots suffice for the resolver, which needs a slot that moves
under it and a stale slot behind the count. Three commands let a late answer, a
withdrawn command and a command after both meet. The deadline only matters as
passed or not, and two ticks let it pass between any two steps of the loop.
`Actuation` has no bound but the two times of the button, of which only their sum and the order of
two steps inside one debounce matter. Two handshakes and two armings of `Provisioning` are one before and one after
each other's every step, and two phones are the one that used the window and another. Payload
lengths of `Pn532Cmd` lie on both sides of each border: the longest normal frame, the shortest
extended one, the longest payload and one byte too many; three fragments pass the
accumulator's limit. Two identities give one that is lost and its successor; three slots a wipe with a slot before and behind. In `Pn532` the retries and
the recovery limit have the values of the source; polls and resync bytes are counters of
which only "one more" and "the last" differ, and there are any number of exchanges. The proofs below do not depend on any of this.
`MCKeyResolver` uses permutations of the keys as symmetry and `MCProvisioning` permutations of
the phones: no definition distinguishes two of them, and the runs check invariants and
step properties only.

### Fairness
* `Mailbox`: weak fairness of the Application task and of the comm task's own steps
  of a dispatch. Both tasks are ready tasks of equal priority on a time-slicing
  scheduler. No phone is obliged to send, and no fairness is put on time-outs.
* `Transport`: weak fairness of the comm task (every call it blocks in has a
  timeout) and of time. Nothing is assumed of phones or of the Application.
* `Actuation`: weak fairness of the Application task, whose wait is bounded, and of
  the stub's deadline and of the button's time. The button itself is free.
* `Pn532`: weak fairness of the driver's own steps: each of its waits has a timeout.
  Nothing is assumed of the chip, the bus, the ISR or the callers.
* The other runs check safety only.

### Findings
1. A completion that passes its `command_valid` test before the wait times out is
   delivered as the answer to the next command. Replies carry no tag.
2. `actuation_tick` compares an `aai_state_t` with an `app_lock_state_t`; a bolt
   that has arrived is polled for ever, with its intent persisted.
3. A session that the provisioning window let through unverified counts as authorized once
   the window has expired: `session_authorized` is only "a session is established"
   (`app_module.c:359`), so such a phone can then move the bolt and revoke keys.

### Observations without a run
The first five bound a property of a run: its statement excludes the case by a constant or a
history variable, and the case breaks it.

* `key_store_revoke` interrupted inside its compaction (`key_store.c:163`) leaves a gap at which
  the next boot stops loading: keys nobody revoked are lost. `GrantedSurvive` fails in `KeyStore`
  with `TornRevoke = TRUE`; `README.md:23` calls the backend "power-loss safe".
* `comm_module_poll_event` reads the event and then clears the slot (`comm_module.c:322`); an
  event in between is lost. `LastEventSeen` excepts it (`overtaken`).
* When only the second `key_store_identity_init` succeeds, the session signs with a key of zeros
  (`app_module.c:423`), while the display shows the real one. `SignsAsItself` excepts it.
* A first boot that is cut short between identity, sentinel and wipe, an erase that fails, or a
  lost identity ("Proceeding as first boot", without the wipe; `key_store.c:286`) leave phone
  keys of an earlier identity. `OwnKeysOnly` excepts them (`spoiled`).
* `lli_init` (`lli.c:204`) and `lli_deinit` (`lli.c:219`) end the I2C context twice, through
  `pn532_deinit` and directly; `pn532_i2c.h:107` forbids it. `DestroyedOnce` excepts `cleanup_deinit`.
* A fatal bus error in a receive returns without the erase (`transport.c:403`; `docs/transport.md:195`
  says "Any error → erase"): keys and `g_session_active` survive into the next wait for a
  phone. `ServesThisPhoneOnly` still holds: the next phone must shake hands again.
* The interrupt semaphore is never emptied (`pn532_i2c.c:315`): a token that no wait took makes a
  later `wait_ready` return ESP_OK while the chip is busy; the read then fails, and the exchange
  with it. `ResponseIsFresh` holds all the same.
* An M3 that falls between the stores of an arming may be cached incompletely: the phone is then
  refused, never wrongly accepted (`CommittedKeySigned` holds without exception).
* `provision_mgr_handle_cmd` shows the SUCCESS indication also for a key that could not be stored.
* The buffer of `pn532_tg_get_data` is one byte short for a NAD byte with 262 bytes of data, which
  is then refused. `lli_receive_apdu` does not use it.
* `lli_activate` returns `LLI_ERR_INTERNAL` for a timeout while it configures, and
  `lli_get_link_status` hides a wedged controller behind ERROR.
* `comm_module_start` does not look at the result of `xTaskCreate`: an Application without a comm
  task runs. A failing `AppModule_Init` leaves the comm stack initialised.
* The STORAGE_ONLY harness leaves its second test key in the lock's key store.
* `session_on_erase` calls `on_terminated` twice in a row (`session.c:427-434`);
  `session.h:121` says "fires once". `Mailbox` has both calls; they are harmless there.
* The auto-reversal after a jam (`app_module.c:238-242`) is refused by the stub
  (`aai_backend_stub.c:70`), whose `AAI_Stop` does not leave JAMMED.
* `stub_init` reports LOCKED after any power loss (`aai_backend_stub.c:60`), while
  `aai.h:82` asks a backend without a sensor for UNKNOWN.
* The erase of the old last slot is unchecked (`key_store.c:186`). When it fails, NVS
  holds one key too many, and later revokes and a reboot can bring a revoked key back.
  (`KeyStore` shows it with `TornRevoke` and `RevokedStayRevoked`.)
* A commit that fails after its `nvs_set_blob` or `nvs_erase_key` (`storage_hal.c:132`) is reported as a failed
  write with the change made: a key whose add was refused is honoured after the next boot. `HalMatchesRam` and
  the other properties of `key_store` fail with `"commit"` in `HalFaults`.
* `provision_mgr_abort` sets `g_stop_requested`, which nothing clears: the comm task ends, and no
  phone is served until a reboot (`Provisioning` has it as `CommTaskStops`).
* `pn532_i2c_read_frame` passes an ESP_ERR_INVALID_STATE of the I2C controller on
  (`pn532_i2c.c:293`), and `lli_err_from_esp` (`lli.c:65`) makes it `LLI_ERR_BUS_FATAL`, which
  is meant for a bus "wedged beyond recovery" (`lli.h:65`). Writes do translate it (`FatalIsEarned`). In `Pn532`
  one failed read is a counterexample to `ret = "INVALID_STATE" => recovery_failures >= PN532_RECOVERY_FAIL_LIMIT`.
* The comment on `pn532_i2c_write` says that a recovery that fails is fatal at once; the code
  returns ESP_ERR_TIMEOUT until the limit, for either kind of failure.
* After a rebuild that failed half-way `dev` stays NULL; a transmit then fails with another
  error than INVALID_STATE, so the ladder does not reach a rebuild again.
* `recover_i2c_bus` sets SDA to GPIO_MODE_INPUT (`pn532_i2c.c:442`), which the comment in
  `pn532_i2c_create` forbids: it "breaks the driver's ACK cycle".
* The response that the NACK asks for is never read.

## 4. Proofs

Eight modules prove every invariant and every step property that a passing run checks. A
theorem holds for every value of the constants that the modules' named assumptions allow:
any number of keys and slots (`KeyStoreAssumption`), of commands (`MailboxAssumption`),
handshake ticks (`TransportAssumption`), debounce and hold times (`ButtonAssumption`), phones,
sessions and armings (`ProvisioningAssumption`), polls and resync bytes (`PollAssumption`,
`ResyncAssumption`), payloads and damages (`PayloadsAssumption`, `BufLenAssumption`,
`DamagesAssumption`), key slots and identities (`KeyMaxAssumption`, `MaxIdsAssumption`,
`BlobAssumption`). Most say no more than that a number is a number; `ActuationAssumption` names the
HAL failures there are.

Each proof has the same shape. The properties of the runs are not inductive, so an inductive
invariant adds what each place in the code knows; one lemma shows that the initial states
have it and one that each action keeps it, and the theorems follow.
Where a theorem needs a condition, it is one of these:

* `Clean`, in `KeyStoreProofs`: no failure and no power loss inside the compaction of a revoke, and
  no failing commit. Neither half can be dropped: with `TornRevoke = TRUE`, or with `"commit"` in
  `HalFaults`, TLC finds every property of the run `key_store` violated (section 3, observations).
  That run excludes them too.
* `DataIsNoFrame`, in two theorems of `Pn532CmdProofs` (section 2).
* a history variable in the property itself, whose case an observation or a finding describes:
  `late` and `overtaken` (`Mailbox`), `raced` (`CacheIsWhole`), `spoiled` (`OwnKeysOnly`).

**`KeyStoreProofs`.** `TypeCorrect` needs no condition; its `TypeInv` adds what the place in an
operation says of the indices: `idx` is a published slot, `i` lies between `idx`
and the last slot. Without it `i + 1` could leave the array. `HalFollowsRam`, `KeysDistinct`,
`GrantedKeysSurvive` and `RevokedKeysStayRevoked` assume `Clean`. `StoreInv` says for each place what
NVS holds relative to RAM (during `rev_rewrite`: shifted below `i`, unshifted above, a hole
between); `GrantedInv` and `RevokedInv` place the granted and the revoked keys.
`KeyStoreImplementsKeySet` is the refinement: initial states map to initial states, and every step
to one addition, one revocation or a stutter. It needs `StaleInv`, the content of the one RAM slot
that a compaction leaves behind: the step that shrinks the count drops it.
For the resolver, `ResolverTypeCorrect`, `NoBypass` and `OnlyMovedAreMissed` hold under every failure and
interleaving. `HeldInv` says that every slot the reader can still reach was in `held` at some
moment: slots below the count are held, and a copy that passed its test before
the count shrank reads a stale slot whose key was published during the resolution. `PassedInv` says that
a signer without excuse is in a published slot that the reader has not passed and that the `memmove` does not overwrite
next. It needs `MoveInv`: that slot holds what has just been copied to the slot before it, or the revoked key.

**`MailboxProofs`.** `WakeInv`: a published command is followed by a notification or by the wake
that takes it. `PhaseInv`: until the first time-out a dispatch is pending, being answered
or quiet, and each phase fixes the flags, the place of the other task and the copies of the command.
`EventInv`: an event in its slot has a wake coming, and the newest event
agrees with `g_session_active` but between the stores of a callback.

**`TransportProofs`.** `IInv` adds the stage that each place of the comm task implies
(`StageAtPlace`), the counters, and `keyed` at each place. `StageMatchesState` alone speaks of
receives only, and needs the stage at the places before and after.

**`ActuationProofs`.** `IntentInv`: the bolt stands still wherever the intent is written, and the
motor is started for the intent that is persisted. `PressInv`: every way on which
the level can be committed as pressed begins with an edge that the ISR has seen; it orders the three
timestamps, whatever the ISR interrupts.

**`ProvisioningProofs`.** `WindowInv`: the context of the dispatcher is true of the window when
it is used. `AttemptInv` counts the secrets compared. `SigInv` says, at each store of an arming, whose signature can be
cached; it does not except the race, and `CommittedKeysAreSigned` follows from it without a
condition. `WholeInv` follows the three stores of an M3 that no arming overlaps.

**`Pn532Proofs`.** `HandleInv`: on the ladder a device is rebuilt on a bus that exists, a
bus without a device. `CountInv` relates the recoveries to the failures counted, at each rung.
`FreshInv`: a write that returns OK has sent this command. `StageInv` says who calls
the transport, `BoundInv` what is left of each bounded loop. Nothing is assumed of the chip, the bus or the ISR.

**`Pn532CmdProofs`.** Three theorems about the frames: `ResponsesArrive` (the parser gets every reply
out of an over-read buffer), `DamageIsNoticed` (one damaged byte is noticed, or harmless) and `CommandsAreRead` (the
chip reads what was built). The checksum is a recursive function over ranges of a sequence, and
the provers have no induction; but a set of naturals has a least
element, and a shortest range with another sum would have a shorter one. On top of them
`Inv`: what is left of a call is the end of its script (`ScriptInv`), the frame on the wire is
that of the current command (`ExchangeInv`), a call that runs has met no error (`ResultInv`), and the
configuration sent so far is in force unless the chip was reset (`ConfigurationInv`). `HistoryInv`
adds that what was gathered is what the chip gave, for every command before the current one.

**`StartupProofs`.** `PlaceInv` and `BackendInv` say which builds reach a step. `ReleaseInv`: what a
failing step finds to be released. `IdentityInv`: the identity in RAM is the persisted one, and one
is generated only where none is. `SessionInv`: the session's copy of it. `OwnInv`: the
keys are those of the identity, except while a first boot erases them, slot by slot.

**Only model-checked.** The liveness properties, which are out of the prover's reach:
`EveryCommandAnswered`, `HandshakeEnds`, `PhoneGone`, `AcknowledgedIsDone`, `JamIsReported`,
`HoldIsNoticed` and `ExchangeEnds`. The three findings are counterexamples of TLC.

## 5. Assumptions and what is left out

* The two cores see each other's writes in program order (the code relies on
  `volatile` and the notification calls, not on barriers).
* One `nvs_set_*` or `nvs_erase_key` takes effect or does not, also across a power
  loss; a failing commit leaves the change made.
* `session_arm_provisioning_window` is atomic with respect to an M3 in `Transport`; module
  `Provisioning` has it store by store.
* Delays, back-off, indications and texts are not modelled; time is "the deadline has
  passed", an age or a tick.
* Cryptography is a verdict; payload bytes are only modelled in `Pn532Cmd`. The vendored
  `monocypher` and `session_crypto.c` are arithmetic on keys, out of TLC's reach.
* A second destruction of the I2C context is undefined; `Startup` lets it do nothing or end in a
  power loss.
* Damage to a frame is one byte. Two could cancel out in the checksum. A damaged
  start code, or a resync, together with data that looks like a frame could be misread:
  `DeliveredIsSent` and `OkMeansDone` exclude exactly this by `DataIsNoFrame`; damage
  anywhere else is proved to be noticed for every reply (`DamageIsNoticed`).
* Of the PN532 driver: the recovery without a reset line (`pn532_i2c.c:474-479`), the waveform of the
  bit-banged recovery, and what no part of the firmware calls: `pn532_in_list_passive_target`,
  `pn532_send_ack`, `pn532_reset`. `lli_abort` does nothing.
* `transport_deinit`, `lli_deinit` and `comm_module_deinit` have no caller.
* `boot_recovery` for a bolt that is not LOCKED at boot: the stub always is, the RMT and MCPWM
  backends refuse to start, so those branches cannot be reached in any build.
* The on-target tests, `mock_phone.c` and `lli_mock.c` are not part of the lock.

## 6. Plan

1. **Done:** the key store, mailbox, transport and session, actuation with the button,
   provisioning and authorization, the PN532 driver with frames and commands, identity and
   start-up; the proofs of section 4.
2. **Proofs left:** none of the invariants and step properties that the runs check. Liveness
   stays with TLC. Worth stating next: that the interleaved `Mailbox` before the first time-out
   implements a one-place call/return channel, so that `Provisioning` can use it in one step; and
   that `Pn532` implements the exchange that `Pn532Cmd` takes as one step.
3. **When a sensing backend exists:** `Actuation` with the whole of `boot_recovery`.
