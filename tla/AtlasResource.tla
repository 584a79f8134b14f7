---------------------------- MODULE AtlasResource ----------------------------
(***************************************************************************)
(* The presilicon resource word, decode_atlas_presilicon_resource in       *)
(* isml_lib/implementer/src/atlas/resource.cpp, and the inventory that     *)
(* DeviceManager::add_atlas_inventory_tree builds from it.  Bit masks are  *)
(* sets of positions; a DMC position is ddp * 3 + dmc.                     *)
(***************************************************************************)
EXTENDS Integers, FiniteSets

Dmcs == 0 .. 11
Dmc0 == {0, 3, 6, 9}                            \* ATLAS_DMC0_MASK
TPE == {"TPE0", "TPE1", "TPE2", "TPE3"}
LPE == {"LPE0", "LPE1"}

Field(r, shift, width) == (r \div 2^shift) % 2^width

\* ATLAS_EMU_RESOURCE_PROFILES and ATLAS_FPGA_RESOURCE_PROFILES, by raw value.
EmuProfiles == {1, 4194305, 65585, 131121, 327729, 33, 273, 529, 785, 131409}
FpgaProfiles == {2, 262194, 131122, 196658, 4130, 200770}

ProfileMask(r) == IF r \in EmuProfiles THEN Dmcs ELSE Dmc0
Matched(r) == r \in EmuProfiles \cup FpgaProfiles

Platform(r) ==
  LET p == Field(r, 0, 4)
  IN  CASE p = 0 -> "Chip" [] p = 1 -> "Emu" [] p = 2 -> "Fpga" [] OTHER -> "Unknown"

Subsys(r) == Field(r, 4, 4)
HasCxl(r) == Subsys(r) \in {1, 5}
HasIsi(r) == Subsys(r) \in {2, 4}
HasAic(r) == Subsys(r) \in {3, 4, 5}

\* fake_dmem_size_bytes in GiB.
FakeDmem(r) ==
  LET d == Field(r, 22, 2)
  IN  CASE d = 0 -> IF Platform(r) = "Fpga" THEN 8 ELSE 32
        [] d = 1 /\ Platform(r) # "Fpga" -> 64
        [] OTHER -> 0

\* known_header /\ known_details; 0xffffffff has an unknown platform.
Valid(r) ==
  /\ r # 0 /\ Platform(r) # "Unknown" /\ Subsys(r) <= 5
  /\ Field(r, 20, 2) # 3 /\ FakeDmem(r) # 0
  /\ HasCxl(r) => Field(r, 8, 4) <= 3
  /\ HasIsi(r) => Field(r, 12, 4) <= 1
  /\ HasAic(r) => Field(r, 16, 4) \in 1 .. 5

Cut(blocks, tpe, lpe) == [blocks |-> {"ACC"} \cup blocks, tpe |-> tpe, lpe |-> lpe]

\* decode_aic.
Aic(r) ==
  LET cfg == Field(r, 16, 4)
  IN  CASE HasAic(r) /\ cfg \in {1, 4} -> Cut({"VPE", "TPE0", "LPE0"}, 1, 1)
        [] HasAic(r) /\ cfg \in {2, 5} -> Cut({"VPE"} \cup TPE \cup LPE, 4, 2)
        [] HasAic(r) /\ cfg = 3 -> Cut({"VPE", "TPE0"} \cup LPE, 1, 2)
        [] OTHER -> Cut({}, 0, 0)

Isi(r) == CASE HasIsi(r) /\ Field(r, 12, 4) = 0 -> {0, 1}
            [] HasIsi(r) /\ Field(r, 12, 4) = 1 -> {0, 1, 4, 5}
            [] OTHER -> {}

\* The DMCs whose dmc_type is not FakeDmem.
Cxl(r) ==
  LET cfg == Field(r, 8, 4)
  IN  CASE HasCxl(r) /\ cfg = 1 -> {0}
        [] HasCxl(r) /\ cfg = 2 -> {0, 1, 2}
        [] HasCxl(r) /\ cfg = 3 -> {0, 3, 6, 9}
        [] OTHER -> {}

BugDmcMask(r) ==
  CASE Matched(r) -> ProfileMask(r)
    [] ~ Matched(r) /\ Platform(r) = "Emu" -> Dmcs
    [] ~ Matched(r) /\ Platform(r) = "Fpga" -> Dmc0
    [] OTHER -> {}

\* The profile's mask, or the platform's default; CXL locations join it.
DmcMask(r) ==
  (CASE Matched(r) -> ProfileMask(r)
     [] ~ Matched(r) /\ Platform(r) = "Emu" -> Dmcs
     [] ~ Matched(r) /\ Platform(r) = "Fpga" -> Dmc0
     [] OTHER -> {}) \cup Cxl(r)

NoAic == Cut({}, 0, 0)
Invalid == [valid |-> FALSE, matched |-> FALSE, dmc |-> {}, cxl |-> {}, isi |-> {},
            aic |-> NoAic, size |-> 0]

Decoded(r) ==
  IF Valid(r)
  THEN [valid |-> TRUE, matched |-> Matched(r), dmc |-> DmcMask(r), cxl |-> Cxl(r),
        isi |-> Isi(r), aic |-> Aic(r), size |-> FakeDmem(r)]
  ELSE [Invalid EXCEPT !.size = FakeDmem(r)]

\* has_dmc, get_dmc_type, and has_isi with isi_indices.
HasDmc(i, n) == i.valid /\ n \in i.dmc
DmcType(i, n) == IF i.valid /\ n \in i.cxl THEN "CXL" ELSE "DMEM"
IsiIndices(i) == {n \in 0 .. 7 : i.valid /\ n \in i.isi}

\* add_atlas_inventory_tree for a matched profile: [type, index] nodes.
Inventory(i, ext) ==
  {<<"NOC", 0>>, <<"ACC", 0>>} \cup (IF ext THEN {<<"AIC", 0>>} ELSE {})
    \cup {<<"DDP", d>> : d \in 0 .. 3}
    \cup {<<DmcType(i, n), n>> : n \in {m \in Dmcs : HasDmc(i, m)}}
    \cup {<<"ISI", n>> : n \in IsiIndices(i)}

\* read_atlas_resource_info, and the tree when the word matches a profile.
Tree(r) == IF Decoded(r).matched THEN Inventory(Decoded(r), HasAic(r)) ELSE {}
=============================================================================
