---------------------------- MODULE DeviceProofs ----------------------------
(***************************************************************************)
(* Machine-checked proofs about Device, the two cores together, for every *)
(* slot size, bound on power cycles and NETWORK_CONN_MAX_RETRY.  The CM0+ *)
(* half of Device is Bootloader with its control location renamed, so    *)
(* the theorems of BootloaderProofs hold of it once every Device step is  *)
(* shown to be a Bootloader step or a Bootloader stutter.                 *)
(***************************************************************************)
EXTENDS Device, TLAPS

USE DeviceAssumption

\* What do_boot leaves for the CM4: the CM4 runs only after the CM0+ has
\* reached do_boot, and it runs the application of the boot_rsp handed
\* over.
CoreInv ==
    cm4On => cm0 = "booted" /\ app = AppOf(booted)

\* The inductive invariant: the bootloader's, and CoreInv.
DevInv == BL!TypeOK /\ BL!HandoffInv /\ CoreInv


\* Every step of Device is a step of the bootloader or leaves the CM0+
\* alone: the handoff and the power cycle are bootloader steps too, and
\* the CM4 touches none of the CM0+'s state.
LEMMA Cm0Steps == [Next]_vars => [BL!Next]_cm0vars
<1>1. CASE Cm0Step \/ Handoff
  BY <1>1 DEF Cm0Step, Handoff
<1>2. CASE PowerCycle
  BY <1>2 DEF PowerCycle, BL!Next
<1>3. CASE Cm4Step \/ UNCHANGED vars
  BY <1>3 DEF Cm4Step, vars
<1>4. QED
  BY <1>1, <1>2, <1>3 DEF Next

\* The CM0+ of Device behaves as the bootloader alone.
LEMMA BootloaderBehaviour == Spec => BL!Spec
<1>1. Init => BL!Init
  BY DEF Init
<1>2. QED
  BY <1>1, Cm0Steps, PTL DEF Spec, BL!Spec, BL!vars, cm0vars

\* In the debug build every step preserves CoreInv: a CM0+ step that is
\* not a power cycle leaves the CM0+ asleep in do_boot with the same
\* boot_rsp, the handoff starts the application of the image it hands
\* over, a power cycle holds the CM4 in reset again, and the CM4's tasks
\* never change the application that is running.
LEMMA CoreInvStep ==
    ASSUME BL!TypeOK, CoreInv, [Next]_vars
    PROVE  CoreInv'
<1>1. CASE Cm0Step
  <2>1. cm4On' = cm4On /\ app' = app
    BY <1>1 DEF Cm0Step, cm4vars
  <2>2. ASSUME cm4On PROVE cm0' = "booted" /\ booted' = booted
    <3>1. cm0 = "booted"
      BY <2>2 DEF CoreInv
    <3>2. [BL!Next]_BL!vars /\ resets' = resets
      BY <1>1 DEF Cm0Step
    <3>3. QED
      BY <3>1, <3>2, BL!BootedStays
  <2>3. QED
    BY <2>1, <2>2 DEF CoreInv
<1>2. CASE Handoff
  BY <1>2 DEF Handoff, Cm4Boots, CoreInv
<1>3. CASE PowerCycle
  BY <1>3 DEF PowerCycle, CoreInv
<1>4. CASE Cm4Step
  <2>1. [C!Next]_C!vars
    BY <1>4 DEF Cm4Step
  <2>2. app' = app
    BY <2>1, C!AppFixed
  <2>3. QED
    BY <1>4, <2>2 DEF Cm4Step, cm0vars, CoreInv
<1>5. CASE UNCHANGED vars
  BY <1>5 DEF vars, cm0vars, cm4vars, CoreInv
<1>6. QED
  BY <1>1, <1>2, <1>3, <1>4, <1>5 DEF Next

\* In the debug build the CM4 runs only the image the primary slot holds:
\* from do_boot until the next power cycle every row of the slot is the
\* image of the application the CM4 runs (the invariant Cm4RunsSlotImage
\* of run device_debug), for every slot size and bound on power cycles.
THEOREM Cm4RunsValidatedImage == ~NDEBUG => (Spec => []Cm4RunsSlotImage)
<1> SUFFICES ASSUME ~NDEBUG PROVE Spec => []Cm4RunsSlotImage
  OBVIOUS
<1>1. Spec => [](BL!TypeOK /\ BL!HandoffInv)
  BY BootloaderBehaviour, BL!HandoffHolds
<1>2. Init => CoreInv
  BY DEF Init, CoreInv
<1>3. BL!TypeOK /\ CoreInv /\ [Next]_vars => CoreInv'
  BY CoreInvStep
<1>4. Spec => []CoreInv
  BY <1>1, <1>2, <1>3, PTL DEF Spec
<1>5. BL!HandoffInv /\ CoreInv => Cm4RunsSlotImage
  <2> SUFFICES ASSUME BL!HandoffInv, CoreInv, cm4On
               PROVE  \A i \in BL!Chunks : AppOf(primary[i]) = app
                                           /\ primary[i] \in BL!GoodImage
    BY DEF Cm4RunsSlotImage
  <2>1. booted \in BL!GoodImage /\ app = AppOf(booted)
    BY DEF CoreInv, BL!HandoffInv, BL!Handed
  <2>2. \A i \in BL!Chunks : primary[i] = booted
    BY <2>1 DEF BL!HandoffInv, BL!BootInv, BL!GoodImage, BL!NoRsp
  <2>3. QED
    BY <2>1, <2>2
<1>6. QED
  BY <1>1, <1>4, <1>5, PTL

=============================================================================
