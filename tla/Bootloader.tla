----------------------------- MODULE Bootloader -----------------------------
(***************************************************************************)
(* The CM0+ rollback bootloader of src/bootloader_cm0p/main.c: the boot   *)
(* decision in main(), the user-button interrupt latch, the factory-image *)
(* transfer (transfer_factory_image), rollback_to_factory_image, the      *)
(* handoff do_boot, and power cycles that keep the flash and lose RAM.    *)
(*                                                                         *)
(* Flash contents are abstracted to one value per CY_FLASH_SIZEOF_ROW     *)
(* chunk of the primary slot: the image the chunk belongs to, "Erased" or *)
(* "Junk".  The copy window of the external device (CY_SMIF_BASE_MEM_     *)
(* OFFSET, primary fa_size bytes) is abstracted the same way; its first   *)
(* chunk holds the IMAGE_MAGIC word exactly when it starts a factory      *)
(* image.  MCUboot's boot_go is abstracted to "the primary slot holds one *)
(* whole good image".                                                     *)
(*                                                                         *)
(* CY_ASSERT (PDL) executes a breakpoint, which halts the CM0+, unless the *)
(* build defines NDEBUG, in which case it expands to nothing and control  *)
(* falls through: the constant NDEBUG selects the build.                  *)
(***************************************************************************)
EXTENDS Naturals

CONSTANTS
    NChunks,    \* fa_size of the primary slot / CY_FLASH_SIZEOF_ROW
    NDEBUG,     \* TRUE for a build in which CY_ASSERT is compiled out
    MaxResets   \* bound on the number of power cycles in one behaviour

ASSUME NChunksAssumption == NChunks \in Nat \ {0}
ASSUME NDEBUGAssumption == NDEBUG \in BOOLEAN
ASSUME MaxResetsAssumption == MaxResets \in Nat

Chunks == 1..NChunks

\* Images MCUboot accepts in the primary slot: the application last
\* installed, or the factory application copied by a rollback.
GoodImage == {"App", "Factory"}
Content == GoodImage \cup {"Erased", "Junk"}
\* What the copy window of the external device can hold.
ExtContent == {"Factory", "Junk"}
NoRsp == "none"

\* Control locations of the CM0+ (main, rollback_to_factory_image,
\* transfer_factory_image and do_boot).
Locations == {"start", "boot_go", "read_btn", "irq_setup", "wfi_enter",
              "wfi", "wake_check", "t_open", "t_check", "t_erase_check",
              "t_copy", "t_close", "rb_boot_go",
              "booted", "halted", "returned"}
\* Locations at which the CM0+ no longer runs bootloader code.
Final == {"booted", "halted", "returned"}

VARIABLES
    pc,        \* control location of the CM0+
    primary,   \* primary slot (internal flash), one entry per row
    ext,       \* copy window of the external flash
    qspiOk,    \* qspi_init_sfdp succeeded
    res,       \* `result` of transfer_factory_image
    magicOk,   \* image_magic = IMAGE_MAGIC
    idx,       \* `index` / CY_FLASH_SIZEOF_ROW in the copy loop
    rsp,       \* main's boot_rsp: the image its boot_go validated
    caller,    \* which path of main called rollback_to_factory_image
    flag,      \* is_user_button_pressed
    gpioIntr,  \* GPIO interrupt status of the user-button pin
    irqOn,     \* NVIC line of the user-button interrupt enabled
    booted,    \* the boot_rsp do_boot handed to the CM4, or NoRsp
    resets,    \* power cycles so far
    fapOpen    \* transfer_factory_image's fap_primary points to an open area

vars == <<pc, primary, ext, qspiOk, res, magicOk, idx, rsp, caller,
          flag, gpioIntr, irqOn, booted, resets, fapOpen>>

-----------------------------------------------------------------------------
(* Helpers.                                                                *)

\* boot_go() == 0: the primary slot holds one whole good image.
Valid(p) == \E g \in GoodImage : \A i \in Chunks : p[i] = g

\* The image a successful boot_go reports in its boot_rsp.
ImageOf(p) == p[1]

\* CY_ASSERT(ok) followed by the code at location next.
CyAssert(ok, next) == pc' = IF ok \/ NDEBUG THEN next ELSE "halted"

\* An enabled interrupt is pending: the ISR runs before the next
\* instruction of main.
IrqPending == irqOn /\ gpioIntr

\* do_boot(r): compute the entry address from r, flush the UART,
\* deinit_hw(), Cy_SysEnableCM4, then deep-sleep forever.
DoBoot(r) ==
    /\ booted' = r
    /\ pc' = "booted"

\* Contents an interrupted or failed whole-slot erase can leave.
PartlyErased(p) ==
    {[i \in Chunks |-> IF i \in E THEN "Erased" ELSE p[i]] : E \in SUBSET Chunks}

-----------------------------------------------------------------------------
Init ==
    /\ pc = "start"
    /\ primary \in [Chunks -> Content]
    /\ ext \in [Chunks -> ExtContent]
    /\ qspiOk = FALSE
    /\ res = "ok"
    /\ magicOk = FALSE
    /\ idx = 0
    /\ rsp = NoRsp
    /\ caller = "valid"
    /\ flag = FALSE
    /\ gpioIntr = FALSE
    /\ irqOn = FALSE
    /\ booted = NoRsp
    /\ resets = 0
    /\ fapOpen = FALSE

(* main, lines 367-388: init_cycfg_all, retarget-io (asserted), enable    *)
(* interrupts, qspi_init_sfdp (CY_ASSERT(0) on failure).                   *)
Startup ==
    /\ pc = "start"
    /\ \E uartOk, sfdpOk \in BOOLEAN :
          /\ qspiOk' = sfdpOk
          /\ CyAssert(uartOk /\ sfdpOk, "boot_go")
    /\ UNCHANGED <<primary, ext, res, magicOk, idx, rsp, caller, flag,
                   gpioIntr, irqOn, booted, resets, fapOpen>>

(* main, line 391: boot_go(&rsp).                                          *)
BootGo ==
    /\ pc = "boot_go"
    /\ ~IrqPending
    /\ \/ /\ Valid(primary)
          /\ rsp' = ImageOf(primary)
          /\ pc' = "read_btn"
       \/ /\ ~Valid(primary)
          /\ pc' = "irq_setup"
          /\ UNCHANGED rsp
    /\ UNCHANGED <<primary, ext, qspiOk, res, magicOk, idx, caller, flag,
                   gpioIntr, irqOn, booted, resets, fapOpen>>

(* main, lines 401-411: sample the button level once; pressed (LOW)       *)
(* starts the rollback, otherwise do_boot(&rsp, "Application").  The      *)
(* do_boot after the call is reached only if rollback_to_factory_image    *)
(* returns (see RollbackBootGo).                                           *)
ReadButton ==
    /\ pc = "read_btn"
    /\ ~IrqPending
    /\ \/ /\ pc' = "t_open"
          /\ caller' = "valid"
          /\ UNCHANGED booted
       \/ /\ DoBoot(rsp)
          /\ UNCHANGED caller
    /\ UNCHANGED <<primary, ext, qspiOk, res, magicOk, idx, rsp, flag,
                   gpioIntr, irqOn, resets, fapOpen>>

(* main, lines 420-426: Cy_SysInt_Init and NVIC_EnableIRQ, then logging.  *)
IrqSetup ==
    /\ pc = "irq_setup"
    /\ ~IrqPending
    /\ irqOn' = TRUE
    /\ pc' = "wfi_enter"
    /\ UNCHANGED <<primary, ext, qspiOk, res, magicOk, idx, rsp, caller,
                   flag, gpioIntr, booted, resets, fapOpen>>

(* main, line 431: __WFI() puts the CM0+ to sleep.                         *)
Wfi ==
    /\ pc = "wfi_enter"
    /\ ~IrqPending
    /\ pc' = "wfi"
    /\ UNCHANGED <<primary, ext, qspiOk, res, magicOk, idx, rsp, caller,
                   flag, gpioIntr, irqOn, booted, resets, fapOpen>>

(* WFI may complete without an interrupt (architecturally permitted).    *)
WfiSpuriousWake ==
    /\ pc = "wfi"
    /\ pc' = "wake_check"
    /\ UNCHANGED <<primary, ext, qspiOk, res, magicOk, idx, rsp, caller,
                   flag, gpioIntr, irqOn, booted, resets, fapOpen>>

(* main, lines 433-449: after WFI, test the latch; if set, disable the    *)
(* interrupt, reset the latch and roll back, otherwise WFI again.          *)
WakeCheck ==
    /\ pc = "wake_check"
    /\ ~IrqPending
    /\ \/ /\ flag
          /\ irqOn' = FALSE
          /\ flag' = FALSE
          /\ caller' = "invalid"
          /\ pc' = "t_open"
       \/ /\ ~flag
          /\ pc' = "wfi_enter"
          /\ UNCHANGED <<irqOn, flag, caller>>
    /\ UNCHANGED <<primary, ext, qspiOk, res, magicOk, idx, rsp,
                   gpioIntr, booted, resets, fapOpen>>

(* user_button_callback, lines 116-123: runs when the NVIC line is        *)
(* enabled and the pin's interrupt is pending; sets the latch and clears  *)
(* the pin interrupt.  An interrupt ends a WFI sleep.                      *)
UserButtonCallback ==
    /\ IrqPending
    /\ flag' = TRUE
    /\ gpioIntr' = FALSE
    /\ pc' = IF pc = "wfi" THEN "wake_check" ELSE pc
    /\ UNCHANGED <<primary, ext, qspiOk, res, magicOk, idx, rsp, caller,
                   irqOn, booted, resets, fapOpen>>

(* The user presses the button: a falling edge on the pin, which          *)
(* init_cycfg_all configured to latch an interrupt.                        *)
Press ==
    /\ pc \notin {"start"} \cup Final
    /\ ~gpioIntr
    /\ gpioIntr' = TRUE
    /\ UNCHANGED <<pc, primary, ext, qspiOk, res, magicOk, idx, rsp, caller,
                   flag, irqOn, booted, resets, fapOpen>>

-----------------------------------------------------------------------------
(* transfer_factory_image, lines 154-279.                                  *)

\* Mutant: the `else` of line 182 is dropped, so the magic is read, and
\* `result` overwritten, whether or not the open succeeded.
TransferOpenReadAlways ==
    /\ pc = "t_open"
    /\ idx' = 0
    /\ \E openOk, readOk \in BOOLEAN :
          /\ fapOpen' = openOk
          /\ res' = IF readOk /\ qspiOk THEN "ok" ELSE "err"
          /\ magicOk' = (readOk /\ qspiOk /\ ext[1] = "Factory")
          /\ pc' = "t_check"
    /\ UNCHANGED <<primary, ext, qspiOk, rsp, caller, flag, gpioIntr, irqOn,
                   booted, resets>>

(* Lines 170-186: open the primary slot (CY_ASSERT(0) on failure; in an   *)
(* NDEBUG build fap_primary stays NULL and `result` carries the failure   *)
(* on), else read the 4-byte magic at offset 0 of the external device.    *)
TransferOpen ==
    /\ pc = "t_open"
    /\ idx' = 0
    /\ \E openOk, readOk \in BOOLEAN :
          /\ fapOpen' = openOk
          /\ \/ /\ ~openOk
                /\ res' = "err"
                /\ magicOk' = FALSE
                /\ CyAssert(FALSE, "t_check")
             \/ /\ openOk
                /\ res' = IF readOk /\ qspiOk THEN "ok" ELSE "err"
                /\ magicOk' = (readOk /\ qspiOk /\ ext[1] = "Factory")
                /\ pc' = "t_check"
    /\ UNCHANGED <<primary, ext, qspiOk, rsp, caller, flag, gpioIntr, irqOn,
                   booted, resets>>

\* Mutant: the IMAGE_MAGIC comparison of line 195 is dropped.
MagicMismatchNever == FALSE

\* `image_magic != IMAGE_MAGIC` (line 195).
MagicMismatch == ~magicOk

(* Lines 188-209: a failed read or a wrong magic asserts; note that the   *)
(* wrong-magic branch leaves `result` at success.  Otherwise erase the    *)
(* whole slot; a failed erase may have erased any part of it.              *)
TransferCheck ==
    /\ pc = "t_check"
    /\ \/ /\ res = "err"
          /\ CyAssert(FALSE, "t_erase_check")
          /\ UNCHANGED <<primary, res>>
       \/ /\ res = "ok"
          /\ MagicMismatch
          /\ CyAssert(FALSE, "t_erase_check")
          /\ UNCHANGED <<primary, res>>
       \/ /\ res = "ok"
          /\ ~MagicMismatch
          /\ \/ /\ primary' = [i \in Chunks |-> "Erased"]
                /\ res' = "ok"
             \/ /\ primary' \in PartlyErased(primary)
                /\ res' = "err"
          /\ pc' = "t_erase_check"
    /\ UNCHANGED <<ext, qspiOk, magicOk, idx, rsp, caller, flag, gpioIntr,
                   irqOn, booted, resets, fapOpen>>

(* Lines 211-240: assert on an erase failure, else start the copy loop.   *)
TransferEraseCheck ==
    /\ pc = "t_erase_check"
    /\ \/ /\ res = "err"
          /\ CyAssert(FALSE, "t_close")
       \/ /\ res = "ok"
          /\ pc' = "t_copy"
    /\ UNCHANGED <<primary, ext, qspiOk, res, magicOk, idx, rsp, caller,
                   flag, gpioIntr, irqOn, booted, resets, fapOpen>>

\* Mutant: the loop stops one row early (bytes_to_copy - ROW).
CopyLoopContinuesShort == idx < NChunks - 1

\* `while (index < bytes_to_copy)`, in rows.
CopyLoopContinues == idx < NChunks

\* Mutant: `index` advanced by two rows per iteration.
NextIdxTwice(i) == i + 2

\* Mutant: `index` never advanced.
NextIdxStuck(i) == i

\* `index += CY_FLASH_SIZEOF_ROW` (lines 263-265), in rows.
NextIdx(i) == i + 1

(* Lines 241-266: one iteration reads a row from the external device and  *)
(* writes it to the primary slot and advances the offsets; when `index`   *)
(* reaches bytes_to_copy the loop ends.                                    *)
TransferCopy ==
    /\ pc = "t_copy"
    /\ \/ /\ CopyLoopContinues
          /\ qspiOk
          /\ primary' = [primary EXCEPT ![idx + 1] = ext[idx + 1]]
          /\ idx' = NextIdx(idx)
          /\ UNCHANGED pc
       \/ /\ ~CopyLoopContinues
          /\ pc' = "t_close"
          /\ UNCHANGED <<primary, idx>>
    /\ UNCHANGED <<ext, qspiOk, res, magicOk, rsp, caller, flag, gpioIntr,
                   irqOn, booted, resets, fapOpen>>

(* Lines 244-261: a failed psoc6_smif_read (always, if the QSPI block did *)
(* not initialise) or a failed flash_area_write breaks the loop; a failed *)
(* write may leave the row half-programmed.                                *)
TransferCopyFail ==
    /\ pc = "t_copy"
    /\ CopyLoopContinues
    /\ \/ /\ UNCHANGED primary
       \/ /\ qspiOk
          /\ primary' = [primary EXCEPT ![idx + 1] = "Junk"]
    /\ res' = "err"
    /\ pc' = "t_close"
    /\ UNCHANGED <<ext, qspiOk, magicOk, idx, rsp, caller, flag, gpioIntr,
                   irqOn, booted, resets, fapOpen>>

(* Lines 270-278 and rollback_to_factory_image lines 326-330:             *)
(* flash_area_close, return `result`; the caller asserts on failure.       *)
TransferClose ==
    /\ pc = "t_close"
    /\ CyAssert(res = "ok", "rb_boot_go")
    /\ fapOpen' = FALSE
    /\ UNCHANGED <<primary, ext, qspiOk, res, magicOk, idx, rsp, caller,
                   flag, gpioIntr, irqOn, booted, resets>>

\* Mutant: the copied image is booted without calling boot_go again.
RollbackBootGoUnchecked ==
    /\ pc = "rb_boot_go"
    /\ DoBoot(ImageOf(primary))
    /\ UNCHANGED <<primary, ext, qspiOk, res, magicOk, idx, rsp, caller,
                   flag, gpioIntr, irqOn, resets, fapOpen>>

\* Mutant: the factory image is validated, but do_boot is given main's
\* boot_rsp instead of the one the second boot_go filled in.
RollbackBootGoStaleRsp ==
    /\ pc = "rb_boot_go"
    /\ \/ /\ Valid(primary)
          /\ DoBoot(rsp)
       \/ /\ ~Valid(primary)
          /\ ~NDEBUG
          /\ pc' = "halted"
          /\ UNCHANGED booted
       \/ /\ ~Valid(primary)
          /\ NDEBUG
          /\ caller = "valid"
          /\ DoBoot(rsp)
       \/ /\ ~Valid(primary)
          /\ NDEBUG
          /\ caller = "invalid"
          /\ pc' = "returned"
          /\ UNCHANGED booted
    /\ UNCHANGED <<primary, ext, qspiOk, res, magicOk, idx, rsp, caller,
                   flag, gpioIntr, irqOn, resets, fapOpen>>

(* rollback_to_factory_image, lines 337-349: re-validate and boot the     *)
(* factory app; otherwise CY_ASSERT(0).  If that returns, control goes    *)
(* back to main: the valid-image path calls do_boot(&rsp, "Application")  *)
(* with main's own boot_rsp (line 411), the other path returns from main  *)
(* (line 452).                                                             *)
RollbackBootGo ==
    /\ pc = "rb_boot_go"
    /\ \/ /\ Valid(primary)
          /\ DoBoot(ImageOf(primary))
       \/ /\ ~Valid(primary)
          /\ ~NDEBUG
          /\ pc' = "halted"
          /\ UNCHANGED booted
       \/ /\ ~Valid(primary)
          /\ NDEBUG
          /\ caller = "valid"
          /\ DoBoot(rsp)
       \/ /\ ~Valid(primary)
          /\ NDEBUG
          /\ caller = "invalid"
          /\ pc' = "returned"
          /\ UNCHANGED booted
    /\ UNCHANGED <<primary, ext, qspiOk, res, magicOk, idx, rsp, caller,
                   flag, gpioIntr, irqOn, resets, fapOpen>>

-----------------------------------------------------------------------------
(* Power cycle: flash keeps its contents, RAM and peripherals restart.    *)
Reset ==
    /\ resets < MaxResets
    /\ resets' = resets + 1
    /\ pc' = "start"
    /\ qspiOk' = FALSE
    /\ res' = "ok"
    /\ magicOk' = FALSE
    /\ idx' = 0
    /\ rsp' = NoRsp
    /\ caller' = "valid"
    /\ flag' = FALSE
    /\ gpioIntr' = FALSE
    /\ irqOn' = FALSE
    /\ booted' = NoRsp
    /\ fapOpen' = FALSE
    /\ UNCHANGED <<primary, ext>>

\* The CM0+ sleeps forever after a handoff or a halt.
Terminated ==
    /\ pc \in Final
    /\ UNCHANGED vars

\* The steps of the CM0+ itself: its code and its interrupt handler.
Cpu ==
    \/ Startup \/ BootGo \/ ReadButton \/ IrqSetup \/ Wfi \/ WakeCheck
    \/ UserButtonCallback
    \/ TransferOpen \/ TransferCheck \/ TransferEraseCheck \/ TransferCopy
    \/ TransferCopyFail \/ TransferClose \/ RollbackBootGo

Next ==
    \/ Cpu
    \/ WfiSpuriousWake
    \/ Press
    \/ Reset
    \/ Terminated

\* The CPU never stops while it has an instruction to run.  The NVIC line
\* of the button is enabled only around the wait, so only Wfi and
\* WakeCheck can be held off by the ISR; they are strongly fair: the ISR
\* returns and main runs again before the next (human) button press.
\* The user, the power supply and spurious wake-ups are not assumed to
\* do anything, and neither is a flash or QSPI failure (TransferCopyFail).
Fairness ==
    /\ WF_vars(Startup) /\ WF_vars(BootGo) /\ WF_vars(ReadButton)
    /\ WF_vars(IrqSetup) /\ SF_vars(Wfi) /\ SF_vars(WakeCheck)
    /\ WF_vars(UserButtonCallback)
    /\ WF_vars(TransferOpen) /\ WF_vars(TransferCheck)
    /\ WF_vars(TransferEraseCheck) /\ WF_vars(TransferCopy)
    /\ WF_vars(TransferClose) /\ WF_vars(RollbackBootGo)

Spec == Init /\ [][Next]_vars
FairSpec == Spec /\ Fairness

-----------------------------------------------------------------------------
(* Properties.                                                             *)

\* The type invariant, in three parts: control state, flash, and RAM.
TypeControl ==
    /\ pc \in Locations
    /\ res \in {"ok", "err"}
    /\ caller \in {"valid", "invalid"}
    /\ idx \in 0..NChunks
    /\ resets \in 0..MaxResets

TypeFlash ==
    /\ primary \in [Chunks -> Content]
    /\ ext \in [Chunks -> ExtContent]

TypeRam ==
    /\ rsp \in Content \cup {NoRsp}
    /\ booted \in Content \cup {NoRsp}
    /\ qspiOk \in BOOLEAN
    /\ magicOk \in BOOLEAN
    /\ flag \in BOOLEAN
    /\ gpioIntr \in BOOLEAN
    /\ irqOn \in BOOLEAN
    /\ fapOpen \in BOOLEAN

TypeOK == TypeControl /\ TypeFlash /\ TypeRam

\* do_boot hands the CM4 exactly the image boot_go validated: whenever a
\* handoff has happened, the primary slot holds, in every row, the good
\* image named by the boot_rsp that was passed to do_boot.
BootedImageValidated ==
    booted # NoRsp =>
        /\ booted \in GoodImage
        /\ \A i \in Chunks : primary[i] = booted

\* transfer_factory_image reports success only after copying every row:
\* when rollback_to_factory_image goes on to re-validate with a
\* successful transfer result, the primary slot equals the copy window of
\* the external device row for row.
TransferSuccessMeansCopied ==
    (pc = "rb_boot_go" /\ res = "ok") => primary = ext

\* The primary slot is erased or written only when the external device
\* holds the factory-image magic (spec 4.2 step 2: no factory image, no
\* erase).
PrimaryChangesOnlyWithFactoryMagic ==
    [][primary' # primary => ext[1] = "Factory"]_vars

\* transfer_factory_image dereferences fap_primary, to erase or write the
\* slot or to read its fa_size for the copy (lines 208, 228, 253), only
\* after flash_area_open succeeded: in an NDEBUG build the failed open's
\* `result` must carry past the magic read, the magic check and the
\* erase so that a NULL fap_primary is never used.
PrimaryAccessedOnlyWhenOpen ==
    [][(primary' # primary \/ (pc = "t_erase_check" /\ pc' = "t_copy"))
         => fapOpen]_vars

\* Once the rollback has started, the bootloader eventually hands off,
\* halts or returns from main (or the board is power-cycled): the copy
\* loop and the re-validation always finish.
RollbackTerminates ==
    (pc = "t_open") ~> (pc \in Final \cup {"start"})

\* Spec 4.3: with no valid image, the bootloader waits until the button
\* latch is set, then rolls back.  Once the latch is set while main is in
\* its wait sequence, the rollback eventually starts.
LatchEndsWait ==
    (flag /\ pc \in {"wfi_enter", "wfi", "wake_check"}) ~> (pc = "t_open")

=============================================================================
