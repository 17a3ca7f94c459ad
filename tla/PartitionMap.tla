---------------------------- MODULE PartitionMap ----------------------------
(***************************************************************************)
(* The flash map of src/common/ext_flash_map.c (CY_FLASH_MAP_EXT_DESC):   *)
(* the flash_area records boot_area_descs lists, as functions of the      *)
(* build configuration (MCUBOOT_IMAGE_NUMBER, CY_BOOT_USE_EXTERNAL_FLASH, *)
(* MCUBOOT_SWAP_USING_SCRATCH and the size macros), together with the     *)
(* factory-image region the bootloader copies from (offset 0 of the       *)
(* external device, CY_FACT_APP_SIZE bytes).                               *)
(*                                                                         *)
(* The table is fixed when the image is built: a state of this module is  *)
(* one build configuration, chosen initially and never changed.  Offsets  *)
(* and sizes are in units of the flash's erase granularity; internal      *)
(* offsets are relative to CY_FLASH_BASE and external ones to             *)
(* CY_SMIF_BASE_MEM_OFFSET.                                                *)
(***************************************************************************)
EXTENDS Naturals

CONSTANTS
    Sizes,         \* candidate values of each size macro
    StartOffsets,  \* candidate CY_BOOTLOADER_START_ADDRESS - CY_FLASH_BASE
    AnyBuild       \* TRUE: every build; FALSE: the builds the code assumes

ASSUME SizesAssumption == Sizes \subseteq Nat \ {0}
ASSUME StartAssumption == 0 \in StartOffsets /\ StartOffsets \subseteq Nat
ASSUME AnyBuildAssumption == AnyBuild \in BOOLEAN

\* The build configurations: the #if switches and the size macros.
Builds ==
    [images : {1, 2}, extFlash : BOOLEAN, scratch : BOOLEAN,
     blStart : StartOffsets, bl : Sizes, p1 : Sizes, s1 : Sizes,
     p2 : Sizes, s2 : Sizes, sc : Sizes, fact : Sizes]

\* The builds the code is written for:
\* - CY_BOOTLOADER_START_ADDRESS left at its default, CY_FLASH_BASE;
\* - each secondary slot the size of its primary slot, as MCUboot's swap
\*   requires;
\* - a factory region at least as large as the primary slot (main.c lines
\*   220-226: the image cannot be larger than the primary partition).
Documented(b) ==
    /\ b.blStart = 0
    /\ b.s1 = b.p1
    /\ b.s2 = b.p2
    /\ b.p1 <= b.fact

VARIABLE build

vars == <<build>>

Area(id, dev, off, size) == [id |-> id, dev |-> dev, off |-> off, size |-> size]

\* `bootloader`.
BootloaderArea(b) == Area("bootloader", "int", b.blStart, b.bl)

\* `primary_1`.
Primary1(b) == Area("primary_1", "int", b.bl, b.p1)

\* `secondary_1`: internal after primary_1, or external after the factory
\* region.
Secondary1(b) ==
    IF b.extFlash THEN Area("secondary_1", "ext", b.fact, b.s1)
                  ELSE Area("secondary_1", "int", b.bl + b.p1, b.s1)

\* `primary_2` (dual image).
Primary2(b) == Area("primary_2", "int", b.bl + b.p1 + b.s1, b.p2)

\* `secondary_2` (dual image).
Secondary2(b) ==
    IF b.extFlash THEN Area("secondary_2", "ext", b.fact + b.p1, b.s2)
                  ELSE Area("secondary_2", "int", b.bl + b.p1 + b.s1 + b.p2, b.s2)

\* Mutant: the dual-image scratch offset leaves out secondary_2.
ScratchNoS2(b) ==
    Area("scratch", "int",
         IF b.images = 1 THEN b.bl + b.p1 + b.s1 ELSE b.bl + b.p1 + b.s1 + b.p2,
         b.sc)

\* `scratch` (MCUBOOT_SWAP_USING_SCRATCH).
Scratch(b) ==
    Area("scratch", "int",
         IF b.images = 1 THEN b.bl + b.p1 + b.s1
                         ELSE b.bl + b.p1 + b.s1 + b.p2 + b.s2,
         b.sc)

\* boot_area_descs.
BootAreaDescs(b) ==
    {BootloaderArea(b), Primary1(b), Secondary1(b)}
    \cup (IF b.images = 2 THEN {Primary2(b), Secondary2(b)} ELSE {})
    \cup (IF b.scratch THEN {Scratch(b)} ELSE {})

\* The factory application: CY_FACT_APP_SIZE bytes at the SMIF base.
FactoryRegion(b) == Area("factory", "ext", 0, b.fact)

\* What transfer_factory_image reads: primary fa_size bytes from the SMIF
\* base (bootloader main.c lines 228-229).
CopyWindow(b) == Area("copy", "ext", 0, Primary1(b).size)

\* Two areas share no byte.
Disjoint(a, c) ==
    \/ a.dev # c.dev
    \/ a.off + a.size <= c.off
    \/ c.off + c.size <= a.off

Init == build \in IF AnyBuild THEN Builds ELSE {b \in Builds : Documented(b)}

\* The table is constant data: nothing changes it after the build.
Next == UNCHANGED build

Spec == Init /\ [][Next]_vars

-----------------------------------------------------------------------------
(* Properties.                                                             *)

\* The type invariant.
TypeOK == build \in Builds

\* Spec 3 and 4.1: the areas of one device never overlap, the factory
\* region included (a build whose table overlaps must be refused).
AreasDisjoint ==
    LET areas == BootAreaDescs(build) \cup {FactoryRegion(build)}
    IN  \A a, c \in areas : a.id # c.id => Disjoint(a, c)

\* Spec 4.2: the rollback copies the factory image and nothing else: the
\* copy window lies inside the factory region.
CopyWithinFactoryImage ==
    /\ CopyWindow(build).off >= FactoryRegion(build).off
    /\ CopyWindow(build).off + CopyWindow(build).size
           <= FactoryRegion(build).off + FactoryRegion(build).size

=============================================================================
