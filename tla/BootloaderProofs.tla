-------------------------- MODULE BootloaderProofs --------------------------
(***************************************************************************)
(* Machine-checked proofs about Bootloader, for every primary-slot size    *)
(* (NChunks), every bound on power cycles and, unless stated, both builds.*)
(***************************************************************************)
EXTENDS Bootloader, TLAPS

USE NChunksAssumption, NDEBUGAssumption, MaxResetsAssumption

\* Every variable keeps its type: the locations, flash contents, loop
\* index (0..NChunks) and the power-cycle counter stay in range.
THEOREM TypeCorrect == Spec => []TypeOK
<1>1. Init => TypeOK
  <2> SUFFICES ASSUME Init PROVE TypeOK
    OBVIOUS
  <2>1. TypeControl
    BY DEF Init, TypeControl, Locations
  <2>2. TypeFlash
    BY DEF Init, TypeFlash
  <2>3. TypeRam
    BY DEF Init, TypeRam
  <2>4. QED
    BY <2>1, <2>2, <2>3 DEF TypeOK
<1>2. TypeOK /\ [Next]_vars => TypeOK'
  <2>. USE DEF CyAssert, DoBoot
  <2>1. ASSUME TypeOK, Startup PROVE TypeOK'
    <3>1. TypeControl'
      BY <2>1 DEF TypeOK, TypeControl, Locations, Startup
    <3>2. TypeFlash'
      BY <2>1 DEF TypeOK, TypeFlash, Startup
    <3>3. TypeRam'
      BY <2>1 DEF TypeOK, TypeRam, Startup
    <3>4. QED
      BY <3>1, <3>2, <3>3 DEF TypeOK
  <2>2. ASSUME TypeOK, BootGo PROVE TypeOK'
    <3>1. TypeControl'
      BY <2>2 DEF TypeOK, TypeControl, Locations, BootGo, ImageOf
    <3>2. TypeFlash'
      BY <2>2 DEF TypeOK, TypeFlash, BootGo, ImageOf
    <3>3. TypeRam'
      BY <2>2 DEF TypeOK, TypeRam, TypeFlash, BootGo, ImageOf, Chunks
    <3>4. QED
      BY <3>1, <3>2, <3>3 DEF TypeOK
  <2>3. ASSUME TypeOK, ReadButton PROVE TypeOK'
    <3>1. TypeControl'
      BY <2>3 DEF TypeOK, TypeControl, Locations, ReadButton
    <3>2. TypeFlash'
      BY <2>3 DEF TypeOK, TypeFlash, ReadButton
    <3>3. TypeRam'
      BY <2>3 DEF TypeOK, TypeRam, ReadButton
    <3>4. QED
      BY <3>1, <3>2, <3>3 DEF TypeOK
  <2>4. ASSUME TypeOK, IrqSetup PROVE TypeOK'
    <3>1. TypeControl'
      BY <2>4 DEF TypeOK, TypeControl, Locations, IrqSetup
    <3>2. TypeFlash'
      BY <2>4 DEF TypeOK, TypeFlash, IrqSetup
    <3>3. TypeRam'
      BY <2>4 DEF TypeOK, TypeRam, IrqSetup
    <3>4. QED
      BY <3>1, <3>2, <3>3 DEF TypeOK
  <2>5. ASSUME TypeOK, Wfi PROVE TypeOK'
    <3>1. TypeControl'
      BY <2>5 DEF TypeOK, TypeControl, Locations, Wfi
    <3>2. TypeFlash'
      BY <2>5 DEF TypeOK, TypeFlash, Wfi
    <3>3. TypeRam'
      BY <2>5 DEF TypeOK, TypeRam, Wfi
    <3>4. QED
      BY <3>1, <3>2, <3>3 DEF TypeOK
  <2>6. ASSUME TypeOK, WakeCheck PROVE TypeOK'
    <3>1. TypeControl'
      BY <2>6 DEF TypeOK, TypeControl, Locations, WakeCheck
    <3>2. TypeFlash'
      BY <2>6 DEF TypeOK, TypeFlash, WakeCheck
    <3>3. TypeRam'
      BY <2>6 DEF TypeOK, TypeRam, WakeCheck
    <3>4. QED
      BY <3>1, <3>2, <3>3 DEF TypeOK
  <2>7. ASSUME TypeOK, UserButtonCallback PROVE TypeOK'
    <3>1. TypeControl'
      BY <2>7 DEF TypeOK, TypeControl, Locations, UserButtonCallback
    <3>2. TypeFlash'
      BY <2>7 DEF TypeOK, TypeFlash, UserButtonCallback
    <3>3. TypeRam'
      BY <2>7 DEF TypeOK, TypeRam, UserButtonCallback
    <3>4. QED
      BY <3>1, <3>2, <3>3 DEF TypeOK
  <2>8. ASSUME TypeOK, TransferOpen PROVE TypeOK'
    <3>1. TypeControl'
      BY <2>8 DEF TypeOK, TypeControl, Locations, TransferOpen
    <3>2. TypeFlash'
      BY <2>8 DEF TypeOK, TypeFlash, TransferOpen
    <3>3. TypeRam'
      BY <2>8 DEF TypeOK, TypeRam, TransferOpen
    <3>4. QED
      BY <3>1, <3>2, <3>3 DEF TypeOK
  <2>9. ASSUME TypeOK, TransferCheck PROVE TypeOK'
    <3>1. TypeControl'
      BY <2>9 DEF TypeOK, TypeControl, Locations, TransferCheck, PartlyErased
    <3>2. TypeFlash'
      BY <2>9 DEF TypeOK, TypeFlash, TransferCheck, PartlyErased, Content
    <3>3. TypeRam'
      BY <2>9 DEF TypeOK, TypeRam, TransferCheck, PartlyErased
    <3>4. QED
      BY <3>1, <3>2, <3>3 DEF TypeOK
  <2>10. ASSUME TypeOK, TransferEraseCheck PROVE TypeOK'
    <3>1. TypeControl'
      BY <2>10 DEF TypeOK, TypeControl, Locations, TransferEraseCheck
    <3>2. TypeFlash'
      BY <2>10 DEF TypeOK, TypeFlash, TransferEraseCheck
    <3>3. TypeRam'
      BY <2>10 DEF TypeOK, TypeRam, TransferEraseCheck
    <3>4. QED
      BY <3>1, <3>2, <3>3 DEF TypeOK
  <2>11. ASSUME TypeOK, TransferCopy PROVE TypeOK'
    <3>1. TypeControl'
      BY <2>11 DEF TypeOK, TypeControl, Locations, TransferCopy, CopyLoopContinues, NextIdx
    <3>2. TypeFlash'
      <4>1. CASE CopyLoopContinues
        <5>1. idx + 1 \in Chunks
          BY <2>11, <4>1 DEF TypeOK, TypeControl, CopyLoopContinues, Chunks
        <5>2. ext[idx + 1] \in Content
          BY <2>11, <5>1 DEF TypeOK, TypeFlash, Content, ExtContent, GoodImage
        <5>3. QED
          BY <2>11, <4>1, <5>1, <5>2 DEF TypeOK, TypeFlash, TransferCopy
      <4>2. CASE ~CopyLoopContinues
        BY <2>11, <4>2 DEF TypeOK, TypeFlash, TransferCopy
      <4>3. QED
        BY <4>1, <4>2
    <3>3. TypeRam'
      BY <2>11 DEF TypeOK, TypeRam, TransferCopy, CopyLoopContinues, NextIdx
    <3>4. QED
      BY <3>1, <3>2, <3>3 DEF TypeOK
  <2>12. ASSUME TypeOK, TransferCopyFail PROVE TypeOK'
    <3>1. TypeControl'
      BY <2>12 DEF TypeOK, TypeControl, Locations, TransferCopyFail, CopyLoopContinues
    <3>2. TypeFlash'
      BY <2>12 DEF TypeOK, TypeFlash, TransferCopyFail, Content
    <3>3. TypeRam'
      BY <2>12 DEF TypeOK, TypeRam, TransferCopyFail, CopyLoopContinues
    <3>4. QED
      BY <3>1, <3>2, <3>3 DEF TypeOK
  <2>13. ASSUME TypeOK, TransferClose PROVE TypeOK'
    <3>1. TypeControl'
      BY <2>13 DEF TypeOK, TypeControl, Locations, TransferClose
    <3>2. TypeFlash'
      BY <2>13 DEF TypeOK, TypeFlash, TransferClose
    <3>3. TypeRam'
      BY <2>13 DEF TypeOK, TypeRam, TransferClose
    <3>4. QED
      BY <3>1, <3>2, <3>3 DEF TypeOK
  <2>14. ASSUME TypeOK, RollbackBootGo PROVE TypeOK'
    <3>1. TypeControl'
      BY <2>14 DEF TypeOK, TypeControl, Locations, RollbackBootGo, ImageOf
    <3>2. TypeFlash'
      BY <2>14 DEF TypeOK, TypeFlash, RollbackBootGo, ImageOf
    <3>3. TypeRam'
      BY <2>14 DEF TypeOK, TypeRam, TypeFlash, RollbackBootGo, ImageOf, Chunks
    <3>4. QED
      BY <3>1, <3>2, <3>3 DEF TypeOK
  <2>15. ASSUME TypeOK, WfiSpuriousWake PROVE TypeOK'
    <3>1. TypeControl'
      BY <2>15 DEF TypeOK, TypeControl, Locations, WfiSpuriousWake
    <3>2. TypeFlash'
      BY <2>15 DEF TypeOK, TypeFlash, WfiSpuriousWake
    <3>3. TypeRam'
      BY <2>15 DEF TypeOK, TypeRam, WfiSpuriousWake
    <3>4. QED
      BY <3>1, <3>2, <3>3 DEF TypeOK
  <2>16. ASSUME TypeOK, Press PROVE TypeOK'
    <3>1. TypeControl'
      BY <2>16 DEF TypeOK, TypeControl, Locations, Press
    <3>2. TypeFlash'
      BY <2>16 DEF TypeOK, TypeFlash, Press
    <3>3. TypeRam'
      BY <2>16 DEF TypeOK, TypeRam, Press
    <3>4. QED
      BY <3>1, <3>2, <3>3 DEF TypeOK
  <2>17. ASSUME TypeOK, Reset PROVE TypeOK'
    <3>1. TypeControl'
      BY <2>17 DEF TypeOK, TypeControl, Locations, Reset
    <3>2. TypeFlash'
      BY <2>17 DEF TypeOK, TypeFlash, Reset
    <3>3. TypeRam'
      BY <2>17 DEF TypeOK, TypeRam, Reset
    <3>4. QED
      BY <3>1, <3>2, <3>3 DEF TypeOK
  <2>18. ASSUME TypeOK, Terminated PROVE TypeOK'
    <3>1. TypeControl'
      BY <2>18 DEF TypeOK, TypeControl, Locations, Terminated, vars
    <3>2. TypeFlash'
      BY <2>18 DEF TypeOK, TypeFlash, Terminated, vars
    <3>3. TypeRam'
      BY <2>18 DEF TypeOK, TypeRam, Terminated, vars
    <3>4. QED
      BY <3>1, <3>2, <3>3 DEF TypeOK
  <2>19. ASSUME TypeOK, UNCHANGED vars PROVE TypeOK'
    BY <2>19 DEF vars, TypeOK, TypeControl, TypeFlash, TypeRam
  <2>20. QED
    BY <2>1, <2>2, <2>3, <2>4, <2>5, <2>6, <2>7, <2>8, <2>9, <2>10, <2>11, <2>12, <2>13, <2>14, <2>15, <2>16, <2>17, <2>18, <2>19
    DEF Next, Cpu
<1>3. QED
  BY <1>1, <1>2, PTL DEF Spec


-----------------------------------------------------------------------------
(* The copy loop.  TransferSuccessMeansCopied is not inductive: it speaks *)
(* only of the state after the transfer returns.  CopyInv says what the   *)
(* loop has done so far: the rows below `index` already equal the         *)
(* external device, `index` is 0 until the loop starts, the loop runs     *)
(* only with a successful `result`, and a successful transfer ends with   *)
(* `index` = bytes_to_copy.                                                *)
CopyInv ==
    /\ pc \in {"t_check", "t_erase_check"} => idx = 0
    /\ pc = "t_copy" => res = "ok"
    /\ pc \in {"t_copy", "t_close", "rb_boot_go"} =>
          \A i \in 1..idx : primary[i] = ext[i]
    /\ pc \in {"t_close", "rb_boot_go"} /\ res = "ok" => idx = NChunks

\* In both builds, a transfer that reports success has copied every row
\* of the external copy window into the primary slot (the property
\* TransferSuccessMeansCopied of runs boot_debug and boot_release).
THEOREM CopyLoopCorrect == Spec => []TransferSuccessMeansCopied
<1>1. Init => CopyInv
  BY DEF Init, CopyInv
<1>2. TypeOK /\ CopyInv /\ [Next]_vars => CopyInv'
  <2> SUFFICES ASSUME TypeOK, CopyInv, [Next]_vars PROVE CopyInv'
    OBVIOUS
  <2>. USE DEF CyAssert, DoBoot
  <2>1. CASE Startup
    BY <2>1 DEF CopyInv, Startup
  <2>2. CASE BootGo
    BY <2>2 DEF CopyInv, BootGo
  <2>3. CASE ReadButton
    BY <2>3 DEF CopyInv, ReadButton
  <2>4. CASE IrqSetup
    BY <2>4 DEF CopyInv, IrqSetup
  <2>5. CASE Wfi
    BY <2>5 DEF CopyInv, Wfi
  <2>6. CASE WakeCheck
    BY <2>6 DEF CopyInv, WakeCheck
  <2>7. CASE UserButtonCallback
    BY <2>7 DEF CopyInv, UserButtonCallback
  <2>8. CASE TransferOpen
    BY <2>8 DEF CopyInv, TransferOpen
  <2>9. CASE TransferCheck
    BY <2>9 DEF CopyInv, TransferCheck
  <2>10. CASE TransferEraseCheck
    BY <2>10 DEF CopyInv, TransferEraseCheck
  <2>11. CASE TransferCopy
    <3>0. pc = "t_copy"
      BY <2>11 DEF TransferCopy
    <3>1. CASE CopyLoopContinues
      <4>1. /\ idx + 1 \in Chunks
            /\ primary' = [primary EXCEPT ![idx + 1] = ext[idx + 1]]
            /\ idx' = idx + 1
            /\ pc' = "t_copy" /\ res' = res /\ ext' = ext
        BY <2>11, <3>1 DEF TransferCopy, CopyLoopContinues, NextIdx, TypeOK,
                          TypeControl, Chunks
      <4>2. \A i \in 1..idx + 1 : primary'[i] = ext'[i]
        BY <3>0, <4>1 DEF CopyInv, TypeOK, TypeFlash, TypeControl, Chunks
      <4>3. QED
        BY <3>0, <4>1, <4>2 DEF CopyInv
    <3>2. CASE ~CopyLoopContinues
      <4>1. idx = NChunks
        BY <3>2 DEF CopyLoopContinues, TypeOK, TypeControl
      <4>2. QED
        BY <2>11, <3>2, <4>1 DEF CopyInv, TransferCopy
    <3>3. QED
      BY <3>1, <3>2
  <2>12. CASE TransferCopyFail
    <3>1. idx + 1 \in Chunks
      BY <2>12 DEF TransferCopyFail, CopyLoopContinues, TypeOK, TypeControl,
                   Chunks
    <3>2. \A i \in 1..idx : primary'[i] = ext'[i]
      BY <2>12, <3>1 DEF CopyInv, TransferCopyFail, TypeOK, TypeFlash,
                         TypeControl, Chunks
    <3>3. QED
      BY <2>12, <3>2 DEF CopyInv, TransferCopyFail
  <2>13. CASE TransferClose
    BY <2>13 DEF CopyInv, TransferClose
  <2>14. CASE RollbackBootGo
    BY <2>14 DEF CopyInv, RollbackBootGo
  <2>15. CASE WfiSpuriousWake
    BY <2>15 DEF CopyInv, WfiSpuriousWake
  <2>16. CASE Press
    BY <2>16 DEF CopyInv, Press
  <2>17. CASE Reset
    BY <2>17 DEF CopyInv, Reset
  <2>18. CASE Terminated
    BY <2>18 DEF CopyInv, Terminated, vars
  <2>19. CASE UNCHANGED vars
    BY <2>19 DEF CopyInv, vars
  <2>20. QED
    BY <2>1, <2>2, <2>3, <2>4, <2>5, <2>6, <2>7, <2>8, <2>9, <2>10, <2>11, <2>12, <2>13, <2>14, <2>15, <2>16, <2>17, <2>18, <2>19
    DEF Next, Cpu
<1>3. TypeOK /\ CopyInv => TransferSuccessMeansCopied
  BY DEF TypeOK, TypeFlash, CopyInv, TransferSuccessMeansCopied, Chunks
<1>4. QED
  BY TypeCorrect, <1>1, <1>2, <1>3, PTL DEF Spec


-----------------------------------------------------------------------------
(* The handoff.                                                            *)

\* What boot_go reports for a slot it accepts is a good image, and the
\* slot holds that image in every row.
LEMMA ValidImageOf ==
    ASSUME NEW p \in [Chunks -> Content], Valid(p)
    PROVE  /\ ImageOf(p) \in GoodImage
           /\ \A i \in Chunks : p[i] = ImageOf(p)
<1>1. PICK g \in GoodImage : \A i \in Chunks : p[i] = g
  BY DEF Valid
<1>2. 1 \in Chunks
  BY DEF Chunks
<1>3. QED
  BY <1>1, <1>2 DEF ImageOf

(* BootedImageValidated is not inductive: main's boot_rsp is used by a     *)
(* later step than the boot_go that filled it.  BootInv adds that at the  *)
(* button read main's boot_rsp still names the image in the slot, and     *)
(* that a handoff is the last thing the CM0+ did (the slot cannot change  *)
(* after it without a power cycle, which forgets the handoff).            *)
BootInv ==
    /\ pc = "read_btn" =>
          /\ rsp \in GoodImage
          /\ \A i \in Chunks : primary[i] = rsp
    /\ booted # NoRsp =>
          /\ pc = "booted"
          /\ booted \in GoodImage
          /\ \A i \in Chunks : primary[i] = booted

\* In the debug build every step preserves BootInv.
LEMMA BootInvStep ==
    ASSUME ~NDEBUG, TypeOK, BootInv, [Next]_vars
    PROVE  BootInv'
<1>. USE DEF CyAssert, DoBoot, NoRsp
<1>1. CASE Startup
  BY <1>1 DEF BootInv, Startup
<1>2. CASE BootGo
  <2>1. CASE Valid(primary)
    <3>1. /\ rsp' = ImageOf(primary)
          /\ pc' = "read_btn"
          /\ primary' = primary /\ booted' = booted
      BY <1>2, <2>1 DEF BootGo
    <3>2. /\ ImageOf(primary) \in GoodImage
          /\ \A i \in Chunks : primary[i] = ImageOf(primary)
      BY <2>1, ValidImageOf DEF TypeOK, TypeFlash
    <3>3. booted = NoRsp
      BY <1>2 DEF BootInv, BootGo
    <3>4. QED
      BY <3>1, <3>2, <3>3 DEF BootInv
  <2>2. CASE ~Valid(primary)
    BY <1>2, <2>2 DEF BootInv, BootGo
  <2>3. QED
    BY <2>1, <2>2
<1>3. CASE ReadButton
  BY <1>3 DEF BootInv, ReadButton
<1>4. CASE IrqSetup
  BY <1>4 DEF BootInv, IrqSetup
<1>5. CASE Wfi
  BY <1>5 DEF BootInv, Wfi
<1>6. CASE WakeCheck
  BY <1>6 DEF BootInv, WakeCheck
<1>7. CASE UserButtonCallback
  BY <1>7 DEF BootInv, UserButtonCallback
<1>8. CASE TransferOpen
  BY <1>8 DEF BootInv, TransferOpen
<1>9. CASE TransferCheck
  BY <1>9 DEF BootInv, TransferCheck
<1>10. CASE TransferEraseCheck
  BY <1>10 DEF BootInv, TransferEraseCheck
<1>11. CASE TransferCopy
  BY <1>11 DEF BootInv, TransferCopy
<1>12. CASE TransferCopyFail
  BY <1>12 DEF BootInv, TransferCopyFail
<1>13. CASE TransferClose
  BY <1>13 DEF BootInv, TransferClose
<1>14. CASE RollbackBootGo
  <2>1. CASE Valid(primary)
    <3>1. /\ booted' = ImageOf(primary)
          /\ pc' = "booted"
          /\ primary' = primary
      BY <1>14, <2>1 DEF RollbackBootGo
    <3>2. /\ ImageOf(primary) \in GoodImage
          /\ \A i \in Chunks : primary[i] = ImageOf(primary)
      BY <2>1, ValidImageOf DEF TypeOK, TypeFlash
    <3>3. QED
      BY <3>1, <3>2 DEF BootInv
  <2>2. CASE ~Valid(primary)
    \* With CY_ASSERT halting, the only way on is the halt.
    <3>1. pc' = "halted" /\ booted' = booted
      BY <1>14, <2>2 DEF RollbackBootGo
    <3>2. booted = NoRsp
      BY <1>14 DEF BootInv, RollbackBootGo
    <3>3. QED
      BY <3>1, <3>2 DEF BootInv
  <2>3. QED
    BY <2>1, <2>2
<1>15. CASE WfiSpuriousWake
  BY <1>15 DEF BootInv, WfiSpuriousWake
<1>16. CASE Press
  BY <1>16 DEF BootInv, Press
<1>17. CASE Reset
  BY <1>17 DEF BootInv, Reset
<1>18. CASE Terminated
  BY <1>18 DEF BootInv, Terminated, vars
<1>19. CASE UNCHANGED vars
  BY <1>19 DEF BootInv, vars
<1>20. QED
  BY <1>1, <1>2, <1>3, <1>4, <1>5, <1>6, <1>7, <1>8, <1>9, <1>10, <1>11, <1>12, <1>13, <1>14, <1>15, <1>16, <1>17, <1>18, <1>19
  DEF Next, Cpu

\* In the debug build, do_boot only ever hands the CM4 the image boot_go
\* validated, and that image is in the primary slot at the handoff, on
\* every path, across power cycles at any point (the property
\* BootedImageValidated of run boot_debug; run release_stale_rsp shows it
\* fails when NDEBUG is defined).
THEOREM HandoffValidated == ~NDEBUG => (Spec => []BootedImageValidated)
<1> SUFFICES ASSUME ~NDEBUG PROVE Spec => []BootedImageValidated
  OBVIOUS
<1>1. Init => BootInv
  BY DEF Init, BootInv
<1>2. TypeOK /\ BootInv /\ [Next]_vars => BootInv'
  BY BootInvStep
<1>3. BootInv => BootedImageValidated
  BY DEF BootInv, BootedImageValidated
<1>4. QED
  BY TypeCorrect, <1>1, <1>2, <1>3, PTL DEF Spec

-----------------------------------------------------------------------------
(* The magic check.                                                        *)

\* In the debug build the transfer gets past its magic check only when the
\* external device holds the factory magic: magicOk is only set from the
\* magic word, and the erase and the copy loop are reached only with it.
MagicInv ==
    /\ magicOk => ext[1] = "Factory"
    /\ pc \in {"t_erase_check", "t_copy"} => magicOk

\* The initial state satisfies MagicInv.
LEMMA MagicInvInit == Init => MagicInv
BY DEF Init, MagicInv

\* In the debug build every step preserves MagicInv: the failed checks
\* halt instead of going on to the erase.
LEMMA MagicInvStep ==
    ASSUME ~NDEBUG, MagicInv, [Next]_vars
    PROVE  MagicInv'
<1>. USE DEF MagicInv, CyAssert, DoBoot
<1>1. CASE Cpu
  BY <1>1 DEF Cpu, Startup, BootGo, ReadButton, IrqSetup, Wfi, WakeCheck,
     UserButtonCallback, TransferOpen, TransferCheck, MagicMismatch,
     TransferEraseCheck, TransferCopy, TransferCopyFail, TransferClose,
     RollbackBootGo
<1>2. CASE WfiSpuriousWake \/ Press \/ Reset \/ Terminated \/ UNCHANGED vars
  BY <1>2 DEF WfiSpuriousWake, Press, Reset, Terminated, vars
<1>3. QED
  BY <1>1, <1>2 DEF Next

\* Under MagicInv a step that changes the primary slot is taken while the
\* external device holds the factory magic.
LEMMA MagicWriteStep ==
    ASSUME ~NDEBUG, MagicInv, [Next]_vars
    PROVE  [primary' # primary => ext[1] = "Factory"]_vars
<1>. USE DEF MagicInv, CyAssert, DoBoot
<1>1. CASE Cpu
  BY <1>1 DEF Cpu, Startup, BootGo, ReadButton, IrqSetup, Wfi, WakeCheck,
     UserButtonCallback, TransferOpen, TransferCheck, MagicMismatch,
     TransferEraseCheck, TransferCopy, TransferCopyFail, TransferClose,
     RollbackBootGo
<1>2. CASE WfiSpuriousWake \/ Press \/ Reset \/ Terminated \/ UNCHANGED vars
  BY <1>2 DEF WfiSpuriousWake, Press, Reset, Terminated, vars
<1>3. QED
  BY <1>1, <1>2 DEF Next

\* In the debug build, for every slot size, the primary slot is erased or
\* written only while the external device holds the factory-image magic
\* (the property PrimaryChangesOnlyWithFactoryMagic of run boot_debug; run
\* release_magic shows an NDEBUG build breaks it).
THEOREM MagicChecked == ~NDEBUG => (Spec => PrimaryChangesOnlyWithFactoryMagic)
<1> SUFFICES ASSUME ~NDEBUG PROVE Spec => PrimaryChangesOnlyWithFactoryMagic
  OBVIOUS
<1>1. MagicInv /\ [Next]_vars => MagicInv'
  BY MagicInvStep
<1>2. MagicInv /\ [Next]_vars => [primary' # primary => ext[1] = "Factory"]_vars
  BY MagicWriteStep
<1>3. QED
  BY MagicInvInit, <1>1, <1>2, PTL DEF Spec, PrimaryChangesOnlyWithFactoryMagic

-----------------------------------------------------------------------------
(* fap_primary is used only after a successful open, in both builds.       *)

\* A failed flash_area_open leaves `result` failed, and the transfer gets
\* to the erase or into the copy loop only with `result` successful.
OpenInv ==
    /\ (pc \in {"t_check", "t_erase_check"} /\ res = "ok") => fapOpen
    /\ pc = "t_copy" => fapOpen

\* Every step preserves OpenInv, in both builds.
LEMMA OpenInvStep ==
    ASSUME OpenInv, [Next]_vars
    PROVE  OpenInv'
<1>. USE DEF OpenInv, CyAssert, DoBoot
<1>1. CASE Cpu
  BY <1>1 DEF Cpu, Startup, BootGo, ReadButton, IrqSetup, Wfi, WakeCheck,
     UserButtonCallback, TransferOpen, TransferCheck, MagicMismatch,
     TransferEraseCheck, TransferCopy, TransferCopyFail, TransferClose,
     RollbackBootGo
<1>2. CASE WfiSpuriousWake \/ Press \/ Reset \/ Terminated \/ UNCHANGED vars
  BY <1>2 DEF WfiSpuriousWake, Press, Reset, Terminated, vars
<1>3. QED
  BY <1>1, <1>2 DEF Next

\* Under OpenInv a step that erases or writes the slot, or enters the copy
\* loop, is taken with fap_primary open.
LEMMA OpenAccessStep ==
    ASSUME OpenInv, [Next]_vars
    PROVE  [(primary' # primary \/ (pc = "t_erase_check" /\ pc' = "t_copy"))
              => fapOpen]_vars
<1>. USE DEF OpenInv, CyAssert, DoBoot
<1>1. CASE Cpu
  BY <1>1 DEF Cpu, Startup, BootGo, ReadButton, IrqSetup, Wfi, WakeCheck,
     UserButtonCallback, TransferOpen, TransferCheck, MagicMismatch,
     TransferEraseCheck, TransferCopy, TransferCopyFail, TransferClose,
     RollbackBootGo
<1>2. CASE WfiSpuriousWake \/ Press \/ Reset \/ Terminated \/ UNCHANGED vars
  BY <1>2 DEF WfiSpuriousWake, Press, Reset, Terminated, vars
<1>3. QED
  BY <1>1, <1>2 DEF Next

\* In both builds and for every slot size, transfer_factory_image erases,
\* writes or sizes the primary slot only through a successfully opened
\* fap_primary (the property PrimaryAccessedOnlyWhenOpen of runs
\* boot_debug and boot_release): the NDEBUG fall-through after a failed
\* flash_area_open never reaches a NULL dereference.
THEOREM NoNullAreaAccess == Spec => PrimaryAccessedOnlyWhenOpen
<1>1. Init => OpenInv
  BY DEF Init, OpenInv
<1>2. OpenInv /\ [Next]_vars => OpenInv'
  BY OpenInvStep
<1>3. OpenInv /\ [Next]_vars
        => [(primary' # primary \/ (pc = "t_erase_check" /\ pc' = "t_copy"))
              => fapOpen]_vars
  BY OpenAccessStep
<1>4. QED
  BY <1>1, <1>2, <1>3, PTL DEF Spec, PrimaryAccessedOnlyWhenOpen

-----------------------------------------------------------------------------
(* The handoff seen from the CM4.  The CM4 runs from do_boot until the    *)
(* next power cycle, so what it may rely on must hold in every state      *)
(* after the handoff, not only at it.                                      *)

\* A CM0+ that has reached do_boot has handed over a good image.
Handed == pc = "booted" => booted \in GoodImage

\* BootInv, and in the debug build Handed.
HandoffInv == BootInv /\ Handed

\* In the debug build every step preserves HandoffInv: do_boot is called
\* with main's boot_rsp only at the button read, where BootInv says it
\* names a good image, and after the second boot_go only with the image
\* it validated.
LEMMA HandoffInvStep ==
    ASSUME ~NDEBUG, TypeOK, HandoffInv, [Next]_vars
    PROVE  HandoffInv'
<1>1. BootInv'
  BY BootInvStep DEF HandoffInv
<1>. USE DEF CyAssert, DoBoot
<1>2. ASSUME ReadButton PROVE Handed'
  BY <1>2 DEF HandoffInv, BootInv, ReadButton, Handed
<1>3. ASSUME RollbackBootGo PROVE Handed'
  <2>1. CASE Valid(primary)
    <3>1. booted' = ImageOf(primary)
      BY <1>3, <2>1 DEF RollbackBootGo
    <3>2. ImageOf(primary) \in GoodImage
      BY <2>1, ValidImageOf DEF TypeOK, TypeFlash
    <3>3. QED
      BY <3>1, <3>2 DEF Handed
  <2>2. CASE ~Valid(primary)
    BY <1>3, <2>2 DEF RollbackBootGo, Handed
  <2>3. QED
    BY <2>1, <2>2
<1>4. ASSUME \/ Startup \/ BootGo \/ IrqSetup \/ Wfi \/ WakeCheck
             \/ TransferOpen \/ TransferCheck \/ TransferEraseCheck
             \/ TransferCopy \/ TransferCopyFail \/ TransferClose
      PROVE  Handed'
  BY <1>4 DEF Handed, Startup, BootGo, IrqSetup, Wfi, WakeCheck,
     TransferOpen, TransferCheck, TransferEraseCheck, TransferCopy,
     TransferCopyFail, TransferClose
<1>5. ASSUME UserButtonCallback PROVE Handed'
  BY <1>5 DEF HandoffInv, Handed, UserButtonCallback
<1>6. ASSUME WfiSpuriousWake \/ Press \/ Reset \/ Terminated \/ UNCHANGED vars
      PROVE  Handed'
  BY <1>6 DEF HandoffInv, Handed, WfiSpuriousWake, Press, Reset, Terminated,
     vars
<1>7. Handed'
  BY <1>2, <1>3, <1>4, <1>5, <1>6 DEF Next, Cpu
<1>8. QED
  BY <1>1, <1>7 DEF HandoffInv

\* After do_boot the CM0+ sleeps for ever: every step that is not a power
\* cycle leaves it at "booted", with the same boot_rsp and the same slot.
LEMMA BootedStays ==
    ASSUME TypeOK, pc = "booted", [Next]_vars, resets' = resets
    PROVE  pc' = "booted" /\ booted' = booted /\ primary' = primary
<1>1. CASE Cpu
  BY <1>1 DEF Cpu, Startup, BootGo, ReadButton, IrqSetup, Wfi, WakeCheck,
     UserButtonCallback, TransferOpen, TransferCheck, TransferEraseCheck,
     TransferCopy, TransferCopyFail, TransferClose, RollbackBootGo
<1>2. CASE WfiSpuriousWake \/ Press \/ Terminated \/ UNCHANGED vars
  BY <1>2 DEF WfiSpuriousWake, Press, Terminated, vars, Final
<1>3. ~Reset
  BY DEF Reset, TypeOK, TypeControl
<1>4. QED
  BY <1>1, <1>2, <1>3 DEF Next

\* In the debug build, in every reachable state, a CM0+ that has called
\* do_boot has handed over a good image that fills the primary slot.
THEOREM HandoffHolds == ~NDEBUG => (Spec => [](TypeOK /\ HandoffInv))
<1> SUFFICES ASSUME ~NDEBUG PROVE Spec => [](TypeOK /\ HandoffInv)
  OBVIOUS
<1>1. Init => HandoffInv
  BY DEF Init, HandoffInv, BootInv, Handed
<1>2. TypeOK /\ HandoffInv /\ [Next]_vars => HandoffInv'
  BY HandoffInvStep
<1>3. QED
  BY TypeCorrect, <1>1, <1>2, PTL DEF Spec

=============================================================================
