--------------------------- MODULE MCDeviceManager ---------------------------
(***************************************************************************)
(* DeviceManager for TLC, with the resource word its discovery decodes and *)
(* the policy files it is constructed from: a behaviour is one of the      *)
(* manager, one word put to the decoder, or one file put to the parser.    *)
(***************************************************************************)
EXTENDS DeviceManager, AtlasResource, PolicyParser

VARIABLES word, doc

probes == <<word, doc>>

\* Resource words: every field at its known values and one beyond.
Words ==
  {p + 16 * s + 256 * c + 4096 * i + 65536 * a + 1048576 * j + 4194304 * d :
     p \in 0 .. 3, s \in 0 .. 6, c \in 0 .. 4, i \in 0 .. 2, a \in 0 .. 6,
     j \in 0 .. 3, d \in 0 .. 2}

\* Product policies: what they say, and the order their parts are written in.
Locators == {NoDevice, [NoDevice EXCEPT !.name = "A", !.slot = "S", !.index = 1],
             [NoDevice EXCEPT !.name = "B", !.position = "P", !.index = IndexRange + 3]}

ProductDocs ==
  [kind : {"product"}, product : {"atlas", "atlas_m", "other"},
   ids : {<<5827, 43981>>, <<65543, 7>>, <<5827, NotANumber>>},
   modules : [ModuleNames -> {<<0>>, <<0, IndexRange + 1>>}] \cup {[n \in ModuleNames |-> << >>]},
   inventory : {<<a>> : a \in Locators} \cup {<<a, b>> : a, b \in Locators} \cup {<< >>},
   order : Permutations({1, 2, 3}), inventoryFirst : BOOLEAN]

Title(indent, key) == [indent |-> indent, key |-> key, bare |-> TRUE]
Text(indent, key, value) ==
  [indent |-> indent, key |-> key, bare |-> FALSE, value |-> value]

WrittenModules(d) ==
  <<Title(2, "modules:")>> \o
  FlattenSeq([k \in 1 .. 4 |->
    LET name == <<"pcie:", "pmu:", "ddp:", "isi:">>[k]
    IN  <<Title(4, name)>> \o
        [i \in DOMAIN d.modules[name] |-> Text(6, "- index:", d.modules[name][i])]])

WrittenProfile(d) ==
  LET part == <<<<Text(2, "product:", d.product)>>,
                <<Title(2, "match:"), Text(4, "vendor_id:", d.ids[1]),
                  Text(4, "device_id:", d.ids[2])>>,
                WrittenModules(d)>>
  IN  <<Title(0, "chip_profile:")>> \o part[d.order[1]] \o part[d.order[2]] \o part[d.order[3]]

WrittenDevice(a) ==
  <<Text(4, "- name:", a.name), Title(6, "match:"), Text(8, "bdf:", "x"),
    Title(6, "locator:")>>
  \o (IF a.slot = "" THEN << >> ELSE <<Text(8, "slot:", a.slot)>>)
  \o (IF a.position = "" THEN << >> ELSE <<Text(8, "position:", a.position)>>)
  \o <<Text(8, "index:", a.index)>>

WrittenInventory(d) ==
  <<Title(0, "platform_inventory:"), Text(2, "platform:", d.product), Title(2, "devices:")>>
  \o FlattenSeq([k \in DOMAIN d.inventory |-> WrittenDevice(d.inventory[k])])

WrittenProduct(d) ==
  IF d.inventoryFirst THEN WrittenInventory(d) \o WrittenProfile(d)
  ELSE WrittenProfile(d) \o WrittenInventory(d)

\* Parameter files: two tests, each with up to two runs, under a title or not.
Assign(name, value) == [name |-> name, value |-> value]

RunLines == {<<Assign("size", "4")>>, <<Assign("size", "8"), Assign("timeout", "1")>>,
             <<Assign("timeout_ms", "2"), Assign("size", "4")>>}
BadLines == {<<Assign("timeout", "1"), Assign("timeout_ms", "1")>>, <<Assign("size", "")>>}

TestDocs ==
  [kind : {"tests"}, titled : BOOLEAN, names : {<<"dma:", "cp:">>, <<"dma:", "dma:">>},
   runs : [1 .. 2 -> {<<a>> : a \in RunLines \cup BadLines}
                     \cup {<<a, b>> : a, b \in RunLines} \cup {<< >>}]]

WrittenTests(d) ==
  LET deep == IF d.titled THEN 2 ELSE 0
  IN  (IF d.titled THEN <<Title(0, "testcases:")>> ELSE << >>)
      \o FlattenSeq([k \in 1 .. 2 |->
           <<Title(deep, d.names[k])>> \o
           [i \in DOMAIN d.runs[k] |-> Text(deep + 2, "run", d.runs[k][i])]])

-----------------------------------------------------------------------------
AtStart ==
  /\ devices = <<>> /\ gil = None /\ lock = None /\ ready = {}
  /\ \A t \in Threads : pc[t] = "idle"

PutWord == AtStart /\ word' \in Words /\ UNCHANGED <<vars, doc>>

PutDoc == AtStart /\ doc' \in ProductDocs \cup TestDocs /\ UNCHANGED <<vars, word>>

MCInit == Init /\ word = None /\ doc = None

MCNext ==
  \/ probes = <<None, None>> /\ (PutWord \/ PutDoc \/ (Next /\ UNCHANGED probes))
  \/ probes # <<None, None>> /\ UNCHANGED <<vars, probes>>

MCSpec == MCInit /\ [][MCNext]_<<vars, probes>> /\ Fairness

-----------------------------------------------------------------------------
\* The tables behind a board's inventory agree.  A row of the profile tables
\* is a word the decoder accepts and is for the platform of its table; the
\* AIC's block mask has as many units as it counts; a CXL location is a DMC
\* also where the platform's default has none; and the inventory of a matched
\* board has each DMC once, as CXL or as fake DMEM of a known size, where the
\* platform's default or a CXL location puts one, and nowhere else
\* (resource.cpp, AtlasResource.h:101-125, DeviceManager.cpp:113-178).
InventoryAgrees ==
  word # None =>
    LET info == Decoded(word)
        home == IF Platform(word) = "Emu" THEN Dmcs ELSE Dmc0
    IN  /\ info.aic.tpe = Cardinality(info.aic.blocks \cap TPE)
        /\ info.aic.lpe = Cardinality(info.aic.blocks \cap LPE)
        /\ info.cxl \subseteq info.dmc
        /\ Matched(word) =>
             /\ info.valid /\ info.size > 0
             /\ Platform(word) = (IF word \in EmuProfiles THEN "Emu" ELSE "Fpga")
             /\ \A n \in Dmcs :
                  Cardinality({x \in Tree(word) : x[1] \in {"CXL", "DMEM"} /\ x[2] = n})
                    = (IF n \in home \cup info.cxl THEN 1 ELSE 0)

\* A policy file is read as what it says, in whatever order its parts are
\* written: the profile is chip_profile's although a device of the inventory
\* has a match section too, a module list ends where the next one starts, a
\* device has its own locator, identifiers and indices are cut to their width;
\* and the tests of a parameter file have their own runs in order, with a file
\* that has a number or an assignment missing, or an argument twice, refused.
PolicyReadBack ==
  /\ doc # None /\ doc.kind = "product" =>
       LET lines == WrittenProduct(doc)
       IN  IF doc.ids[2] = NotANumber THEN PolicyThrows(lines)
           ELSE /\ ~ PolicyThrows(lines)
                /\ LoadOnePolicy(lines) =
                     LET entry(a) ==
                           [profile |-> [product |-> doc.product,
                                         type |-> [atlas |-> "Atlas", atlas_m |-> "AtlasM",
                                                   other |-> "Unknown"][doc.product],
                                         vendor |-> doc.ids[1] % 65536,
                                         device |-> doc.ids[2] % 65536],
                            modules |-> [n \in ModuleNames |->
                                           [k \in DOMAIN doc.modules[n] |->
                                              doc.modules[n][k] % IndexRange]],
                            device |-> [a EXCEPT !.index = @ % IndexRange]]
                     IN  IF doc.inventory = << >> THEN <<entry(NoDevice)>>
                         ELSE [k \in DOMAIN doc.inventory |-> entry(doc.inventory[k])]
  /\ doc # None /\ doc.kind = "tests" =>
       LET lines == WrittenTests(doc)
           said == FlattenSeq(<<doc.runs[1], doc.runs[2]>>)
           first == IF doc.names[2] = "dma:" THEN said ELSE doc.runs[1]
       IN  IF Range(said) \cap BadLines # {} THEN TestsThrow(lines)
           ELSE LET got == GetTestcaseRuns(ParseTestcasePolicies(lines), "dma:")
                IN  /\ ~ TestsThrow(lines) /\ Len(got) = Len(first)
                    /\ \A k \in DOMAIN got :
                         \A a \in Range(first[k]) :
                           got[k][IF a.name = "size" THEN "size" ELSE "timeout_ms"] = a.value
                    /\ GetTestcaseRuns(ParseTestcasePolicies(lines), "cp:") # << >>
                         => doc.names[2] = "cp:"
=============================================================================
