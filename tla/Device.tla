------------------------------- MODULE Device -------------------------------
(***************************************************************************)
(* The two cores together: the CM0+ runs the bootloader (Bootloader), and *)
(* do_boot starts the CM4 on the image in the primary slot (Cy_SysEnable- *)
(* CM4 at the slot's vector table), which then runs the factory or the    *)
(* blinky application (Cm4App).  A power cycle resets both cores; the     *)
(* flash keeps its contents.                                               *)
(*                                                                         *)
(* The image named "Factory" in the primary slot is the factory           *)
(* application (src/factory_cm4), the image "App" the application that    *)
(* was installed over it (src/blinky_cm4).                                 *)
(***************************************************************************)
EXTENDS Naturals

CONSTANTS NChunks, NDEBUG, MaxResets, NetworkConnMaxRetry

ASSUME DeviceAssumption ==
    /\ NChunks \in Nat \ {0}
    /\ NDEBUG \in BOOLEAN
    /\ MaxResets \in Nat
    /\ NetworkConnMaxRetry \in Nat \ {0}

VARIABLES
    \* The CM0+ (Bootloader), its control location renamed cm0.
    cm0, primary, ext, qspiOk, res, magicOk, idx, rsp, caller, flag,
    gpioIntr, irqOn, booted, resets, fapOpen,
    \* The CM4: whether it has been started, and the state of Cm4App,
    \* its control locations renamed cm4.
    cm4On, app, cm4, irqReg, notified, retry, connected, led

cm0vars == <<cm0, primary, ext, qspiOk, res, magicOk, idx, rsp, caller,
             flag, gpioIntr, irqOn, booted, resets, fapOpen>>
cm4vars == <<app, cm4, irqReg, notified, retry, connected, led>>
vars == <<cm0vars, cm4On, cm4vars>>

\* The two cores' specifications, taken with the modules of their proofs
\* (which extend them and add only lemmas and proof-only invariants), so
\* that the theorems about each core apply to it inside Device.
BL == INSTANCE BootloaderProofs WITH pc <- cm0
C == INSTANCE Cm4AppProofs WITH pc <- cm4

\* The application each good image holds.
AppOf(img) == IF img = "Factory" THEN "factory" ELSE "blinky"

\* The CM4 starts main() of image a: the next state is Cm4App's initial
\* state for that image.
Cm4Boots(a) ==
    /\ app' = a
    /\ cm4' = C!InitPc(a)
    /\ irqReg' = FALSE
    /\ notified' = FALSE
    /\ retry' = 1
    /\ connected' = FALSE
    /\ led' = FALSE

\* The CM4 held in reset: the initial state of Cm4App for a blinky image,
\* which means nothing until the CM4 is started.
Cm4Held == app = "blinky" /\ C!Init

Init ==
    /\ BL!Init
    /\ cm4On = FALSE
    /\ Cm4Held

(* A step of the CM0+ that neither hands off to the CM4 nor is a power    *)
(* cycle; the CM4 does not move.                                           *)
Cm0Step ==
    /\ BL!Next
    /\ resets' = resets
    /\ ~(cm0 # "booted" /\ cm0' = "booted")
    /\ UNCHANGED <<cm4On, cm4vars>>

(* do_boot, lines 303-310: Cy_SysEnableCM4 releases the CM4, which starts *)
(* main() of the image that boot_rsp points to, while the CM0+ sleeps.    *)
Handoff ==
    /\ BL!Next
    /\ cm0 # "booted"
    /\ cm0' = "booted"
    /\ cm4On' = TRUE
    /\ Cm4Boots(AppOf(booted'))

(* A power cycle: both cores restart, the CM4 held in reset.               *)
PowerCycle ==
    /\ BL!Reset
    /\ cm4On' = FALSE
    /\ Cm4Boots("blinky")

(* A step of the running CM4 (its tasks or its button interrupt).          *)
Cm4Step ==
    /\ cm4On
    /\ C!Next
    /\ UNCHANGED <<cm0vars, cm4On>>

Next == Cm0Step \/ Handoff \/ PowerCycle \/ Cm4Step

\* The CM0+ as in Bootloader; the CM4's tasks are scheduled as in Cm4App
\* once the CM4 has been started.
Fairness ==
    /\ BL!Fairness
    /\ WF_vars(cm4On /\ C!DaemonStep /\ UNCHANGED <<cm0vars, cm4On>>)
    /\ WF_vars(cm4On /\ C!MgrStep /\ UNCHANGED <<cm0vars, cm4On>>)
    /\ WF_vars(cm4On /\ C!LedStep /\ UNCHANGED <<cm0vars, cm4On>>)

Spec == Init /\ [][Next]_vars
FairSpec == Spec /\ Fairness

-----------------------------------------------------------------------------
(* Properties.                                                             *)

\* The CM4 runs the image the primary slot holds: from do_boot until the
\* next power cycle every row of the slot belongs to the application the
\* CM4 is running (the CM0+ must not touch the slot after the handoff,
\* and must hand off only an image the slot really holds).
Cm4RunsSlotImage ==
    cm4On => \A i \in BL!Chunks : AppOf(primary[i]) = app
                                  /\ primary[i] \in BL!GoodImage

\* Spec 4.3: a rollback started with a factory image in the external
\* device ends with the factory application running on the CM4, or with
\* a fatal halt, unless the power is cut first.
RollbackRunsFactoryApp ==
    (cm0 = "t_open" /\ \A i \in BL!Chunks : ext[i] = "Factory")
        ~> ((cm4On /\ app = "factory") \/ cm0 \in {"halted", "start"})

=============================================================================
