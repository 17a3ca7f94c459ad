# Formal model of the MCUboot factory-rollback example

This directory holds TLA+ models of the code under `src/`, TLC
configurations that model-check them on small instances, and TLAPS proofs
of their main invariants for every value of the constants.

## The system

The program has three images and a shared flash layout:

* **Bootloader** (`src/bootloader_cm0p/main.c`, runs on the CM0+). At
  power-on, `main` initialises the hardware and the QSPI external flash,
  then calls MCUboot's `boot_go`.
  * If the primary slot holds a valid image, `main` samples the user
    button once. Pressed means rollback. Otherwise it calls `do_boot`,
    which starts the CM4 at the image and puts the CM0+ to sleep for ever.
  * If the primary slot is not valid, `main` enables the button
    interrupt and loops on `__WFI()` until `user_button_callback` has set
    the latch `is_user_button_pressed`. Then it rolls back.
  * `rollback_to_factory_image` calls `transfer_factory_image`. That
    function checks the `IMAGE_MAGIC` word at offset 0 of the external
    device, erases the whole primary slot, and copies it row by row
    (`CY_FLASH_SIZEOF_ROW`) from the external device. The rollback then
    re-validates with `boot_go` and calls `do_boot`.
  * Every fatal error is a `CY_ASSERT(0)`. That is a breakpoint that halts
    the CPU in a debug build, and nothing at all when `NDEBUG` is
    defined.
* **Partition map** (`src/common/ext_flash_map.c`). The static
  `flash_area` table the bootloader and MCUboot use: bootloader, primary
  and secondary slots, scratch, and the external factory-image region.
* **Factory application** (`src/factory_cm4`) and **blinky application**
  (`src/blinky_cm4`). FreeRTOS applications on the CM4. The factory app
  waits for a button notification in its state manager task, then
  connects to Wi-Fi with a bounded retry loop. An LED task blinks.

The components interact only in sequence:

1. The bootloader reads the partition map through `boot_go` and the
   flash drivers.
2. It hands the CM4 an image with `do_boot`. `Cy_SysEnableCM4` starts
   the CM4 at that image, and the CM0+ sleeps for ever.
3. Nothing runs concurrently with the bootloader except its one interrupt
   handler. After the handoff, only the CM4 runs, until the next power
   cycle resets both cores.

## Modules

| Module | Models | Status |
|---|---|---|
| `Bootloader.tla` | `main`, `user_button_callback`, `transfer_factory_image`, `rollback_to_factory_image`, `do_boot` of `src/bootloader_cm0p/main.c`, plus power cycles | modelled |
| `MCBootloader.tla` | constants for TLC: 3 rows, 2 power cycles | — |
| `WifiPolicy.tla` | what the CM4 network task promises, independent of the retry loop | abstract |
| `BootloaderProofs.tla` | TLAPS proofs about `Bootloader` | — |
| `Cm4App.tla` | the factory app (`main.c`, `state_mgr.c`, `led_task.c`, `network_cfg.c`) and the blinky app (`blinky_cm4/main.c`) | modelled |
| `Cm4AppProofs.tla` | TLAPS proofs about `Cm4App` | — |
| `PartitionMap.tla` | the `flash_area` table of `src/common/ext_flash_map.c` and the factory region | modelled |
| `PartitionMapProofs.tla` | TLAPS proof of `AreasDisjoint` for every size | — |
| `Device.tla` | both cores: `Bootloader` and `Cm4App` joined at `do_boot` | modelled |
| `DeviceProofs.tla` | TLAPS proof that the CM4 runs the image in the slot | — |
| `MCDevice.tla` | constants for TLC: 3 rows, 1 power cycle | — |

`PROJECT.json` maps every definition to the lines it translates.

### `Bootloader`: state

| Variable | Code |
|---|---|
| `pc` | program counter of the CM0+ across `main`, the rollback and the transfer |
| `primary` | the internal-flash primary slot, one value per flash row |
| `ext` | the external-flash copy window (`CY_SMIF_BASE_MEM_OFFSET`, primary `fa_size` bytes) |
| `qspiOk` | `qspi_init_sfdp` succeeded |
| `res`, `magicOk`, `idx` | `result`, `image_magic == IMAGE_MAGIC`, `index / ROW` of `transfer_factory_image` |
| `rsp` | `main`'s `struct boot_rsp` |
| `caller` | which path of `main` called the rollback |
| `flag` | `is_user_button_pressed` |
| `gpioIntr`, `irqOn` | GPIO interrupt pending bit of the button pin; NVIC line enabled |
| `booted` | the image handed to the CM4 by `do_boot` |
| `resets` | power cycles so far, capped by `MaxResets` |
| `fapOpen` | `fap_primary` points to an area `flash_area_open` returned |

A row holds one of four values:

* `"App"` or `"Factory"`: a row of that image;
* `"Erased"`;
* `"Junk"`: a half-programmed or foreign row.

`boot_go` succeeds exactly when every row of the slot belongs to the same
good image. The magic word is present exactly when the first row of the
window is `"Factory"`.

### `Bootloader`: actions

Each action is a whole step of the code, with its early returns and error
paths:

* `Startup`, `BootGo`, `ReadButton`, `IrqSetup`, `Wfi`, `WakeCheck`:
  `main`.
* `UserButtonCallback`: the ISR.
  * It is enabled whenever the NVIC line is on and the pin's interrupt is
    pending.
  * Every step of `main` is guarded by "no interrupt pending", so the ISR
    runs before the next instruction.
  * It ends a WFI sleep.
* `TransferOpen`, `TransferCheck`, `TransferEraseCheck`, `TransferCopy`,
  `TransferCopyFail`, `TransferClose`: `transfer_factory_image`.
  * A failed `flash_area_open` leaves `fap_primary` NULL. In an NDEBUG
    build the code goes on, and only the failed `result` keeps it away
    from the erase and the copy.
  * A failing erase may leave any subset of rows erased.
  * A failing write may leave the row as junk.
* `RollbackBootGo`: `rollback_to_factory_image` after the transfer. In an
  `NDEBUG` build it also covers the fall-through back into `main`:
  `do_boot(&rsp, ...)` at line 411, or `return 0` at line 452.
* Environment steps (no code):
  * `Press`: a falling edge latched by the GPIO block.
  * `WfiSpuriousWake`: WFI may return with no interrupt.
  * `Reset`: a power cycle. It keeps the flash, loses RAM, and models a
    crash at any point, including mid-erase and mid-copy.
  * `Terminated`: the CM0+ sleeping after a handoff or a halt.

`CY_ASSERT` is the operator `CyAssert(ok, next)`. The constant `NDEBUG`
selects the build.

### `Bootloader`: fairness

Weak fairness is assumed for every CPU step: the CM0+ does not stop while
it has an instruction to run.

* `Wfi` and `WakeCheck` are strongly fair. While the NVIC line is on, the
  ISR can hold them off, but a human button press cannot come again before
  the ISR has returned.
* There is no fairness on the button, power cycles, spurious wake-ups or
  flash failures (`TransferCopyFail`). A property never relies on any of
  them happening.

### `Cm4App`: state and actions

The two CM4 images share one module. The variable `app` is the image
`do_boot` started, chosen in `Init`, so one run covers both.

| Variable | Code |
|---|---|
| `pc` | location of each task: `"daemon"` (the timer/daemon task running `vApplicationDaemonTaskStartupHook`), `"mgr"` (`state_mgr`), `"led"` (`led_task`, or blinky's idle hook) |
| `irqReg` | the button's falling-edge event is enabled (`cyhal_gpio_enable_event`) |
| `notified` | bit 0 of the state manager's notification value |
| `retry` | `nw_retry_count` of `wifi_connect` / `prvWifiConnect` |
| `connected` | the last `WIFI_ConnectAP` succeeded |
| `led` | the user LED |

The actions:

* `FactoryStartupHook`, `StateMgrTaskInit`: the factory hook. It creates
  the state manager only if `SYSTEM_Init` succeeded.
* `ButtonInit`, `LedTaskInit`, `NotifyWait`, `NetworkInitDone`: the
  state manager task. `xTaskNotifyWait(pdFALSE, ...)` keeps bits that were
  set before the call (`WaitEntryClears`). The loop's test
  `notified_val && USER_EVENT_DETECT_FLAG` is `ButtonEvent`. A value that
  fails the test sends the task back into the wait.
* `ButtonIsr`: `user_button_callback`, `xTaskNotifyFromISR(eSetBits)`. It
  may fire at any time after `ButtonInit`.
* `WifiOn(t)`, `WifiLoopHead(t)`, `WifiConnect(t)`: `wifi_connect` of the
  factory app run by `mgr`, and blinky's copy `prvWifiConnect` run by
  `daemon`. Every outcome of `WIFI_On` and `WIFI_ConnectAP` is possible.
* `BlinkyStartupHook`, `BlinkyHookDone`: the blinky hook. It ignores the
  result of `SYSTEM_Init`.
* `LedTaskToggle`, `IdleHookToggle`: the LED blinking.
* `configASSERT(0)` is `ConfigAssert(t)`: task `t` moves to `"assert"`
  and never leaves it. `vAssertCalled` masks interrupts and loops around
  `vTaskDelay`. The kernel's critical sections inside `vTaskDelay` unmask
  them again, so only the calling task blocks. The other tasks and the
  button ISR go on.
* `Stopped`: every task has ended, was never created or is blocked in
  `vAssertCalled`, and only the idle task runs.

Fairness: each task is weakly fair. FreeRTOS time-slices the
equal-priority tasks, and the daemon task blocks after its hook, so a
ready task eventually runs. The button and the Wi-Fi results have no
fairness: no property depends on a press or on a connect succeeding.

The network task is mapped to `WifiPolicy` by `WP == INSTANCE WifiPolicy`,
with this mapping:

* `net`: the phase of the network task's location (`NetPhaseOf`):
  * idle before `WIFI_On` succeeds;
  * connecting in the loop;
  * online at `w_done`;
  * done after provisioning;
  * stopped once the task blocks in `vAssertCalled`.
* `link <- connected`.
* `failures <- retry - 1`.

`ImplementsWifiPolicy == WP!Spec`.

### `PartitionMap`

A state is one build configuration, a record of the switches
(`MCUBOOT_IMAGE_NUMBER`, `CY_BOOT_USE_EXTERNAL_FLASH`,
`MCUBOOT_SWAP_USING_SCRATCH`) and the size macros. Offsets are relative
to `CY_FLASH_BASE` or `CY_SMIF_BASE_MEM_OFFSET`.

* `BootloaderArea`, `Primary1`, `Secondary1`, `Primary2`, `Secondary2`,
  `Scratch`: the `flash_area` records. Each `#if` is an `IF` on the
  build.
* `BootAreaDescs`: `boot_area_descs`.
* `FactoryRegion`: the `CY_FACT_APP_SIZE` bytes at the SMIF base.
* `CopyWindow`: what `transfer_factory_image` reads.

`Init` picks a build, and `Next` leaves it unchanged, because the table is
constant data. The constant `AnyBuild` chooses between two sets of builds:

* every build;
* only the builds the code is written for (`Documented`): the bootloader
  at its default address, each secondary slot the size of its primary,
  and the factory region at least the primary slot.

### `Device`

`Device` instantiates `Bootloader`, with `pc` renamed `cm0`, and
`Cm4App`, with `pc` renamed `cm4`. It takes both through their proof
modules, so that their lemmas apply to it. Its steps:

* `Cm0Step`: any CM0+ step other than a handoff or a power cycle. The
  CM4 does not move.
* `Handoff`: the CM0+ step into `do_boot`. The CM4 starts in the initial
  state of `Cm4App` (`Cm4Boots`), running the factory application if
  `boot_rsp` names the factory image, and the blinky application
  otherwise.
* `PowerCycle`: `Bootloader`'s `Reset`. It also puts the CM4 back in
  reset.
* `Cm4Step`: a step of `Cm4App`, once the CM4 has been started.

Fairness is the bootloader's, plus weak fairness for each CM4 task
while the CM4 runs.

## Runs

The `Bootloader` runs use `MCBootloader` with 3 rows and at most 2 power
cycles. Every initial content of the slot and the window is an initial
state. Three rows are enough to have a first, a middle and a last row, so
that:

* a copy can fail in the middle;
* an off-by-one in the loop leaves a visible last row;
* an erase can be partial.

Two power cycles are enough to lose power during a rollback, lose it
again during the rollback that follows, and then boot.

`device_debug` uses 3 rows and 1 power cycle, so that power can be lost
while the CM4 runs.

The `Cm4App` runs use `NETWORK_CONN_MAX_RETRY = 5`, the value of the
code. The loop then runs its full course of four attempts, and every
outcome of every attempt is explored.

The `PartitionMap` runs take every size in `{1, 2}` for each macro
(`{1, 2, 3}` in `layout_documented`). That is enough for one area to be
larger than another. `layout_copy_window` also moves the
bootloader by one unit. `layout_moved_bootloader` sets every size to 1, so
that only moving the bootloader by one unit can make areas overlap.

| Run | Module | Checks | Result |
|---|---|---|---|
| `boot_debug` | `MCBootloader`, debug | `TypeOK`, `BootedImageValidated`, `TransferSuccessMeansCopied`, `PrimaryChangesOnlyWithFactoryMagic`, `RollbackTerminates` | pass |
| `boot_release` | `MCBootloader`, NDEBUG | `TransferSuccessMeansCopied`, `RollbackTerminates`, `PrimaryAccessedOnlyWhenOpen` | pass |
| `device_debug` | `MCDevice`, debug | `Cm4RunsSlotImage`, `RollbackRunsFactoryApp` | pass |
| `release_magic` | `MCBootloader`, NDEBUG | `PrimaryChangesOnlyWithFactoryMagic` | violated |
| `release_stale_rsp` | `MCBootloader`, NDEBUG | `BootedImageValidated` | violated |
| `lost_wakeup` | `MCBootloader`, debug | `LatchEndsWait` | violated |
| `cm4_apps` | `Cm4App` | `ProvisionOnlyWhenConnected`, `WifiConnectTerminates`, `PressStartsNetwork`, `LedShowsLife`, `ImplementsWifiPolicy` | pass |
| `wifi_retries` | `Cm4App` | `GivesUpAfterMaxRetries` | violated |
| `layout_documented` | `PartitionMap`, documented builds | `AreasDisjoint` | pass |
| `layout_overlap` | `PartitionMap`, all builds | `AreasDisjoint` | violated |
| `layout_moved_bootloader` | `PartitionMap`, equal sizes, bootloader moved | `AreasDisjoint` | violated |
| `layout_copy_window` | `PartitionMap`, all builds | `CopyWithinFactoryImage` | violated |

The properties:

* `BootedImageValidated`: `do_boot` only hands over an image that fills
  the whole slot.
* `TransferSuccessMeansCopied`: a successful transfer means the slot
  equals the window.
* `PrimaryChangesOnlyWithFactoryMagic` (action property): the slot changes
  only while the magic word is present.
* `RollbackTerminates` (liveness): a rollback that has started ends.
* `PrimaryAccessedOnlyWhenOpen` (action property, NDEBUG run): the slot
  is erased, written or sized only through an opened `fap_primary`. In
  an NDEBUG build, a failed open falls through its `CY_ASSERT`, and the
  failed `result` must then carry past three more checks. It is not
  checked in the debug run, where the `CY_ASSERT` at `main.c:180` halts
  at once.

`TypeOK` of `Bootloader` is checked in the debug run only. `TypeCorrect`
proves it for both builds.
* `LatchEndsWait` (liveness): a set latch ends the wait.
* `ProvisionOnlyWhenConnected`: provisioning and the demos start only
  after a successful `WIFI_ConnectAP`.
* `WifiConnectTerminates` (liveness): the Wi-Fi loop ends by connecting
  or by asserting.
* `PressStartsNetwork` (liveness): a notified press always takes the
  state manager out of its wait. This holds even when the press came
  before the wait.
* `LedShowsLife` (liveness): once `SYSTEM_Init` has passed (in the
  blinky image, from the start), the LED eventually lights. The only
  excuse is that the task creating the LED task asserted first: an
  assertion in the Wi-Fi loop blocks only its own task.
* `Cm4RunsSlotImage`: while the CM4 runs, the primary slot holds, in
  every row, the image of the application the CM4 runs.
* `RollbackRunsFactoryApp` (liveness): a rollback started with a factory
  image in the external device ends with the factory application
  running on the CM4. The only other outcomes are a halt or a power
  loss.
* `ImplementsWifiPolicy`: the network task refines `WifiPolicy`. Beyond
  `ProvisionOnlyWhenConnected`, it requires each failed attempt to count
  exactly once and no phase to be entered twice.
* `GivesUpAfterMaxRetries`: the loop asserts after
  `NETWORK_CONN_MAX_RETRY` attempts.
* `AreasDisjoint`: no two areas of one device share a byte, the factory
  region included.
* `CopyWithinFactoryImage`: the rollback's copy window lies inside the
  factory region.

### Findings

The seven violations are findings in the code:

1. **Wrong magic in an NDEBUG build** (`main.c:195`). The branch asserts
   but leaves `result` at success, so the copy runs over the slot. The
   trace overwrites an application with junk.
2. **Stale boot response** (`main.c:411`). A rollback that fails in an
   NDEBUG build returns to `main`, which calls `do_boot` with the
   `boot_rsp` of an image that was since erased.
3. **Lost wake-up** (`main.c:421-431`). In the trace the button is
   pressed after `NVIC_EnableIRQ` at line 421 and before the first
   `__WFI()`.
   1. `user_button_callback` runs at once and sets the latch.
   2. The following `__WFI()` sleeps with the latch already set, and no
      later interrupt is guaranteed.

4. **One retry fewer** (`network_cfg.c:132`, and `blinky_cm4/main.c:311`).
   `nw_retry_count` starts at 1 and is incremented before the `>=` test.
   So `configASSERT` fires after 4 failed attempts, while the message
   says "retry count(5) exceeded".
5. **Overlapping secondary slots** (`ext_flash_map.c:124`). In a
   dual-image build with external flash, `secondary_2` starts at
   `CY_FACT_APP_SIZE + CY_BOOT_PRIMARY_1_SIZE`. If
   `CY_BOOT_SECONDARY_1_SIZE` is larger than the primary slot, the two
   secondaries overlap, and nothing in the file refuses such a build.
6. **Moved bootloader** (`ext_flash_map.c:68`, run
   `layout_moved_bootloader`). The bootloader area starts at
   `CY_BOOTLOADER_START_ADDRESS`, which a build may override. `primary_1`
   always starts at `CY_FLASH_BASE + CY_BOOT_BOOTLOADER_SIZE`. Any start
   above `CY_FLASH_BASE` makes the two overlap.
7. **Copy window past the factory image** (`main.c:228`). The rollback
   copies `fa_size` of the primary slot from the SMIF base. Nothing ties
   that size to `CY_FACT_APP_SIZE`. With a larger primary slot, the copy
   reads the start of `secondary_1`.

## Proofs

`BootloaderProofs.tla` proves, for every `NChunks >= 1`, every
`MaxResets` and, unless stated otherwise, both builds:

* **`TypeCorrect`**: `Spec => []TypeOK`. The type invariant is inductive.
  The proof has one step per action, and a sub-step for each of its three
  parts (control state, flash, RAM).
* **`CopyLoopCorrect`**: `Spec => []TransferSuccessMeansCopied`. It rests
  on the inductive invariant `CopyInv`:
  * before the copy, `idx = 0`;
  * in the loop, `res = "ok"`;
  * from the loop on, rows `1..idx` of the slot equal the window;
  * after the loop with success, `idx = NChunks`.

  The property alone is not inductive, because it says nothing about the
  rows copied before the loop ends.
* **`HandoffValidated`**: `~NDEBUG => (Spec => []BootedImageValidated)`.
  It rests on `BootInv`:
  * at the button sample, `rsp` names a good image filling the slot;
  * after a handoff, `pc = "booted"`, so the slot can no longer change.

  The lemma `ValidImageOf` says that `boot_go`'s reported image fills a
  valid slot. The theorem is false for an NDEBUG build: see finding 2.

* **`MagicChecked`**: `~NDEBUG => (Spec => PrimaryChangesOnlyWithFactoryMagic)`.
  It rests on `MagicInv`. `magicOk` implies that the window starts with
  the factory magic, and `magicOk` holds at the erase check and in the
  copy loop.
  The action property then follows one step at a time.
* **`NoNullAreaAccess`**: `Spec => PrimaryAccessedOnlyWhenOpen`, in both
  builds. It rests on `OpenInv`: a successful `result` at `t_check` or
  `t_erase_check`, and every state of the copy loop, imply that
  `fap_primary` is open.
* **`HandoffHolds`**: `~NDEBUG => (Spec => [](TypeOK /\ HandoffInv))`.
  `HandoffInv` is `BootInv` plus `Handed`: a CM0+ at `booted` has handed
  over a good image. The lemma `BootedStays` says that after `do_boot`
  every step except a power cycle leaves the location, `boot_rsp` and the
  slot alone. `DeviceProofs` uses both.

`Cm4AppProofs.tla` proves, for both images:

* **`TypeCorrect`**: `Spec => []TypeOK`, for every
  `NETWORK_CONN_MAX_RETRY >= 1`. `TypeOK` alone is not inductive. The
  failure branch of `WifiConnect` needs `retry < NETWORK_CONN_MAX_RETRY`
  to keep `retry + 1` in range. The strengthening `TypeInv` records:
  * the loop head's test, true while a connect is pending;
  * which task of which image can be inside the Wi-Fi loop: `mgr` in the
    factory image, `daemon` in the blinky image, never the LED task;
  * that only the factory image creates the state manager.
* **`ProvisionCorrect`**: `Spec => []ProvisionOnlyWhenConnected`, for
  every `NETWORK_CONN_MAX_RETRY >= 2`. It rests on `ConnInv`:
  * the counter is 1 until the loop starts, and below the limit at the
    loop head;
  * the state manager is not running while the hook is still deciding.

  With a limit of 1 the loop body never runs and the property is false.
  That is the hypothesis of the theorem; the code's limit is 5.
* **`RefinesWifiPolicy`**: `Spec => ImplementsWifiPolicy`, for every
  `NETWORK_CONN_MAX_RETRY >= 2`. The step lemma `WifiRefineStep` maps
  each action under `ConnInv`:
  * `WifiOn` maps to `Start`;
  * a successful `WifiConnect` maps to `Connect`;
  * a failed one maps to `Fail`. The bound `failures + 1 < MaxRetry`
    comes from `TypeInv`'s loop-head test;
  * `NetworkInitDone` and `BlinkyHookDone` map to `Provision`. The link
    is up there by `ProvisionOnlyWhenConnected`;
  * a `configASSERT` in the network task maps to `Halt`;
  * every other step, including an assert in another task, maps to a
    stutter (`OtherTaskQuiet`, `QuietNet`).

  The lemma `AppFixed` (no task changes `app`) keeps the network task
  fixed across a step.

`DeviceProofs.tla` proves **`Cm4RunsValidatedImage`**:
`~NDEBUG => (Spec => []Cm4RunsSlotImage)`. It holds for every slot size,
every bound on power cycles, and every `NETWORK_CONN_MAX_RETRY`.

`Device` instantiates `BootloaderProofs` and `Cm4AppProofs`. These
extend the core modules with lemmas only, so their theorems apply inside
`Device`. The proof runs as follows:

1. Every `Device` step is a bootloader step or leaves the CM0+ alone
   (`Cm0Steps`), so `Device` behaves as `Bootloader` (`BootloaderBehaviour`).
   `HandoffHolds` then gives `HandoffInv`.
2. `CoreInv` says that a running CM4 means the CM0+ is at `booted`, and
   that the CM4 runs the application of the handed-over image.
   `CoreInv` is inductive:
   * `BootedStays` covers the CM0+ steps;
   * the handoff starts the application of `booted`;
   * a power cycle stops the CM4;
   * `AppFixed` covers the CM4 steps.
3. `HandoffInv` and `CoreInv` give the property.


`PartitionMapProofs.tla` proves **`LayoutDisjoint`**:
`~AnyBuild => (Spec => []AreasDisjoint)`. It holds for every size of
every area, as long as the macros satisfy the `Documented` relations.

The proof is a case analysis over every pair of the seven areas
(`DocumentedPairsDisjoint`). The lemma `DualImageAreas` supplies the fact
that the second image's areas exist only in a two-image build.

TLC checked each strengthening as an invariant before it was proved.

The liveness properties (`RollbackTerminates`, `LatchEndsWait`,
`WifiConnectTerminates`, `PressStartsNetwork`, `LedShowsLife`,
`RollbackRunsFactoryApp`) are only model-checked, because TLAPS does not
handle fairness and ENABLED. So are the NDEBUG-build properties that
fail (findings 1 and 2). Every safety property of a passing run has a
theorem.

## Not modelled

* MCUboot (`boot_go`), the flash and SMIF drivers, and the PDL are outside
  this repository. They appear only through their interfaces:
  * validation is "one whole good image";
  * a flash operation either succeeds or fails, and a failure may leave
    any partial effect.
* Logging, UART and `deinit_hw` change nothing a property observes.
* The `% ROW` size assert at `main.c:240` is compiled out in NDEBUG.
  The model counts the slot in rows, so a size that is not a whole
  number of rows cannot be expressed.

* The CM4 applications' demos, provisioning, logging task and
  `psoc6_qspi_init` are outside the repository or only print. The
  `CY_ASSERT`s of `led_task` are not modelled.
* `notified_val && USER_EVENT_DETECT_FLAG` at `state_mgr.c:179` is
  modelled as `ButtonEvent` over a one-bit notification. That is what the
  button ISR sends.
* A press latched by the CM0+ during a rollback may still be pending in
  the GPIO controller when the CM4 enables its interrupt. Whether it is
  depends on the HAL, which is outside the repository. The CM4 starts
  with a clear latch.

## Plan

1. Model the GPIO latch shared by the two cores in `Device`. This would
   show whether a press during a rollback starts the network on the
   factory application.
2. Add an NDEBUG `Device` run. In the composed system, the NDEBUG
   findings would then show up as the CM4 running a slot that is not
   whole.
3. Lift `WifiPolicy` to `Device`. A power cycle restarts the network
   task, so the policy would need a `PowerCycle` step.
