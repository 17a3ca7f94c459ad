------------------------- MODULE PartitionMapProofs -------------------------
(***************************************************************************)
(* Proofs about the flash map of ext_flash_map.c: in every build the code *)
(* is written for (Documented), whatever the sizes, no two areas of       *)
(* boot_area_descs and the factory region share a byte.                   *)
(***************************************************************************)
EXTENDS PartitionMap, TLAPS

USE SizesAssumption, StartAssumption, AnyBuildAssumption

\* The areas boot_area_descs can hold, one name per record.
AllAreas(b) ==
    {BootloaderArea(b), Primary1(b), Secondary1(b), Primary2(b),
     Secondary2(b), Scratch(b), FactoryRegion(b)}

\* boot_area_descs and the factory region are among those areas.
LEMMA AreasAmongAll ==
    ASSUME NEW b
    PROVE  BootAreaDescs(b) \cup {FactoryRegion(b)} \subseteq AllAreas(b)
BY DEF BootAreaDescs, AllAreas

\* In a documented build any two differently named areas are disjoint.
LEMMA DocumentedPairsDisjoint ==
    ASSUME NEW b \in Builds, Documented(b),
           NEW a \in AllAreas(b), NEW c \in AllAreas(b), a.id # c.id,
           (a.id \in {"primary_2", "secondary_2"} \/ c.id \in {"primary_2", "secondary_2"})
             => b.images = 2
    PROVE  Disjoint(a, c)
<1>0. /\ b.blStart = 0 /\ b.s1 = b.p1 /\ b.s2 = b.p2 /\ b.p1 <= b.fact
      /\ {b.bl, b.p1, b.p2, b.sc, b.fact} \subseteq Nat \ {0}
      /\ b.extFlash \in BOOLEAN /\ b.images \in {1, 2}
  BY DEF Builds, Documented
<1>1. CASE a = BootloaderArea(b)
  <2>1. CASE c = BootloaderArea(b)
    BY <1>0, <1>1, <2>1 DEF Disjoint, Area, BootloaderArea
  <2>2. CASE c = Primary1(b)
    BY <1>0, <1>1, <2>2 DEF Disjoint, Area, BootloaderArea, Primary1
  <2>3. CASE c = Secondary1(b)
    BY <1>0, <1>1, <2>3 DEF Disjoint, Area, BootloaderArea, Secondary1
  <2>4. CASE c = Primary2(b)
    BY <1>0, <1>1, <2>4 DEF Disjoint, Area, BootloaderArea, Primary2
  <2>5. CASE c = Secondary2(b)
    BY <1>0, <1>1, <2>5 DEF Disjoint, Area, BootloaderArea, Secondary2
  <2>6. CASE c = Scratch(b)
    BY <1>0, <1>1, <2>6 DEF Disjoint, Area, BootloaderArea, Scratch
  <2>7. CASE c = FactoryRegion(b)
    BY <1>0, <1>1, <2>7 DEF Disjoint, Area, BootloaderArea, FactoryRegion
  <2>8. QED
    BY <2>1, <2>2, <2>3, <2>4, <2>5, <2>6, <2>7 DEF AllAreas
<1>2. CASE a = Primary1(b)
  <2>1. CASE c = BootloaderArea(b)
    BY <1>0, <1>2, <2>1 DEF Disjoint, Area, BootloaderArea, Primary1
  <2>2. CASE c = Primary1(b)
    BY <1>0, <1>2, <2>2 DEF Disjoint, Area, Primary1
  <2>3. CASE c = Secondary1(b)
    BY <1>0, <1>2, <2>3 DEF Disjoint, Area, Primary1, Secondary1
  <2>4. CASE c = Primary2(b)
    BY <1>0, <1>2, <2>4 DEF Disjoint, Area, Primary1, Primary2
  <2>5. CASE c = Secondary2(b)
    BY <1>0, <1>2, <2>5 DEF Disjoint, Area, Primary1, Secondary2
  <2>6. CASE c = Scratch(b)
    BY <1>0, <1>2, <2>6 DEF Disjoint, Area, Primary1, Scratch
  <2>7. CASE c = FactoryRegion(b)
    BY <1>0, <1>2, <2>7 DEF Disjoint, Area, FactoryRegion, Primary1
  <2>8. QED
    BY <2>1, <2>2, <2>3, <2>4, <2>5, <2>6, <2>7 DEF AllAreas
<1>3. CASE a = Secondary1(b)
  <2>1. CASE c = BootloaderArea(b)
    BY <1>0, <1>3, <2>1 DEF Disjoint, Area, BootloaderArea, Secondary1
  <2>2. CASE c = Primary1(b)
    BY <1>0, <1>3, <2>2 DEF Disjoint, Area, Primary1, Secondary1
  <2>3. CASE c = Secondary1(b)
    BY <1>0, <1>3, <2>3 DEF Disjoint, Area, Secondary1
  <2>4. CASE c = Primary2(b)
    BY <1>0, <1>3, <2>4 DEF Disjoint, Area, Primary2, Secondary1
  <2>5. CASE c = Secondary2(b)
    BY <1>0, <1>3, <2>5 DEF Disjoint, Area, Secondary1, Secondary2
  <2>6. CASE c = Scratch(b)
    BY <1>0, <1>3, <2>6 DEF Disjoint, Area, Scratch, Secondary1
  <2>7. CASE c = FactoryRegion(b)
    BY <1>0, <1>3, <2>7 DEF Disjoint, Area, FactoryRegion, Secondary1
  <2>8. QED
    BY <2>1, <2>2, <2>3, <2>4, <2>5, <2>6, <2>7 DEF AllAreas
<1>4. CASE a = Primary2(b)
  <2>1. CASE c = BootloaderArea(b)
    BY <1>0, <1>4, <2>1 DEF Disjoint, Area, BootloaderArea, Primary2
  <2>2. CASE c = Primary1(b)
    BY <1>0, <1>4, <2>2 DEF Disjoint, Area, Primary1, Primary2
  <2>3. CASE c = Secondary1(b)
    BY <1>0, <1>4, <2>3 DEF Disjoint, Area, Primary2, Secondary1
  <2>4. CASE c = Primary2(b)
    BY <1>0, <1>4, <2>4 DEF Disjoint, Area, Primary2
  <2>5. CASE c = Secondary2(b)
    BY <1>0, <1>4, <2>5 DEF Disjoint, Area, Primary2, Secondary2
  <2>6. CASE c = Scratch(b)
    BY <1>0, <1>4, <2>6 DEF Disjoint, Area, Primary2, Scratch
  <2>7. CASE c = FactoryRegion(b)
    BY <1>0, <1>4, <2>7 DEF Disjoint, Area, FactoryRegion, Primary2
  <2>8. QED
    BY <2>1, <2>2, <2>3, <2>4, <2>5, <2>6, <2>7 DEF AllAreas
<1>5. CASE a = Secondary2(b)
  <2>1. CASE c = BootloaderArea(b)
    BY <1>0, <1>5, <2>1 DEF Disjoint, Area, BootloaderArea, Secondary2
  <2>2. CASE c = Primary1(b)
    BY <1>0, <1>5, <2>2 DEF Disjoint, Area, Primary1, Secondary2
  <2>3. CASE c = Secondary1(b)
    BY <1>0, <1>5, <2>3 DEF Disjoint, Area, Secondary1, Secondary2
  <2>4. CASE c = Primary2(b)
    BY <1>0, <1>5, <2>4 DEF Disjoint, Area, Primary2, Secondary2
  <2>5. CASE c = Secondary2(b)
    BY <1>0, <1>5, <2>5 DEF Disjoint, Area, Secondary2
  <2>6. CASE c = Scratch(b)
    BY <1>0, <1>5, <2>6 DEF Disjoint, Area, Scratch, Secondary2
  <2>7. CASE c = FactoryRegion(b)
    BY <1>0, <1>5, <2>7 DEF Disjoint, Area, FactoryRegion, Secondary2
  <2>8. QED
    BY <2>1, <2>2, <2>3, <2>4, <2>5, <2>6, <2>7 DEF AllAreas
<1>6. CASE a = Scratch(b)
  <2>1. CASE c = BootloaderArea(b)
    BY <1>0, <1>6, <2>1 DEF Disjoint, Area, BootloaderArea, Scratch
  <2>2. CASE c = Primary1(b)
    BY <1>0, <1>6, <2>2 DEF Disjoint, Area, Primary1, Scratch
  <2>3. CASE c = Secondary1(b)
    BY <1>0, <1>6, <2>3 DEF Disjoint, Area, Scratch, Secondary1
  <2>4. CASE c = Primary2(b)
    BY <1>0, <1>6, <2>4 DEF Disjoint, Area, Primary2, Scratch
  <2>5. CASE c = Secondary2(b)
    BY <1>0, <1>6, <2>5 DEF Disjoint, Area, Scratch, Secondary2
  <2>6. CASE c = Scratch(b)
    BY <1>0, <1>6, <2>6 DEF Disjoint, Area, Scratch
  <2>7. CASE c = FactoryRegion(b)
    BY <1>0, <1>6, <2>7 DEF Disjoint, Area, FactoryRegion, Scratch
  <2>8. QED
    BY <2>1, <2>2, <2>3, <2>4, <2>5, <2>6, <2>7 DEF AllAreas
<1>7. CASE a = FactoryRegion(b)
  <2>1. CASE c = BootloaderArea(b)
    BY <1>0, <1>7, <2>1 DEF Disjoint, Area, BootloaderArea, FactoryRegion
  <2>2. CASE c = Primary1(b)
    BY <1>0, <1>7, <2>2 DEF Disjoint, Area, FactoryRegion, Primary1
  <2>3. CASE c = Secondary1(b)
    BY <1>0, <1>7, <2>3 DEF Disjoint, Area, FactoryRegion, Secondary1
  <2>4. CASE c = Primary2(b)
    BY <1>0, <1>7, <2>4 DEF Disjoint, Area, FactoryRegion, Primary2
  <2>5. CASE c = Secondary2(b)
    BY <1>0, <1>7, <2>5 DEF Disjoint, Area, FactoryRegion, Secondary2
  <2>6. CASE c = Scratch(b)
    BY <1>0, <1>7, <2>6 DEF Disjoint, Area, FactoryRegion, Scratch
  <2>7. CASE c = FactoryRegion(b)
    BY <1>0, <1>7, <2>7 DEF Disjoint, Area, FactoryRegion
  <2>8. QED
    BY <2>1, <2>2, <2>3, <2>4, <2>5, <2>6, <2>7 DEF AllAreas
<1>8. QED
  BY <1>1, <1>2, <1>3, <1>4, <1>5, <1>6, <1>7 DEF AllAreas


\* primary_2 and secondary_2 are listed only in dual-image builds.
LEMMA DualImageAreas ==
    ASSUME NEW b, NEW x \in BootAreaDescs(b) \cup {FactoryRegion(b)},
           x.id \in {"primary_2", "secondary_2"}
    PROVE  b.images = 2
BY DEF BootAreaDescs, BootloaderArea, Primary1, Secondary1, Primary2,
   Secondary2, Scratch, FactoryRegion, Area

\* A documented build satisfies AreasDisjoint.
LEMMA DocumentedDisjoint ==
    ASSUME build \in Builds, Documented(build)
    PROVE  AreasDisjoint
<1> SUFFICES ASSUME NEW a \in BootAreaDescs(build) \cup {FactoryRegion(build)},
                    NEW c \in BootAreaDescs(build) \cup {FactoryRegion(build)},
                    a.id # c.id
             PROVE  Disjoint(a, c)
  BY DEF AreasDisjoint
<1>1. a \in AllAreas(build) /\ c \in AllAreas(build)
  BY AreasAmongAll
<1>2. (a.id \in {"primary_2", "secondary_2"} \/ c.id \in {"primary_2", "secondary_2"})
        => build.images = 2
  BY DualImageAreas
<1>3. QED
  BY <1>1, <1>2, DocumentedPairsDisjoint

\* For every choice of the size macros and build switches that keeps the
\* bootloader at CY_FLASH_BASE, each secondary slot the size of its
\* primary and the factory region no smaller than primary_1, the table of
\* ext_flash_map.c has no two overlapping areas (the property
\* AreasDisjoint of run layout_documented, there for sizes 1 and 2 only).
THEOREM LayoutDisjoint == ~AnyBuild => (Spec => []AreasDisjoint)
<1> SUFFICES ASSUME ~AnyBuild PROVE Spec => []AreasDisjoint
  OBVIOUS
<1> DEFINE Inv == build \in Builds /\ Documented(build)
<1>1. Init => Inv
  BY DEF Init
<1>2. Inv /\ [Next]_vars => Inv'
  BY DEF Next, vars
<1>3. Inv => AreasDisjoint
  BY DocumentedDisjoint
<1>4. QED
  BY <1>1, <1>2, <1>3, PTL DEF Spec

==============================================================================
