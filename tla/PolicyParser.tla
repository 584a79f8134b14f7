---------------------------- MODULE PolicyParser ----------------------------
(***************************************************************************)
(* isml_diag/src/core/PolicyParser.cpp: the product policies discovery     *)
(* matches devices with, and the testcases' parameter lists.  Both are     *)
(* indented text, read by searching for lines rather than by a grammar.    *)
(*                                                                         *)
(* A line is its indent and its text: a key with its colon, bare when      *)
(* nothing follows it, or else with a value.  The value of a numeric key   *)
(* is a number, NotANumber when std::stoull would throw; the value of a    *)
(* parameter line is its sequence of name=value assignments.               *)
(***************************************************************************)
EXTENDS Integers, SequencesExt, FiniteSetsExt

CONSTANT IndexRange   \* 2^32, the range of an index's uint32_t

ASSUME IndexAssumption == IndexRange \in Nat \ {0}

NotANumber == -1

\* The casts of parse_u64's result to an identifier and to an index.
U16(n) == n % 65536
U32(n) == n % IndexRange

-----------------------------------------------------------------------------
BugFindLine(lines, key, begin, end) ==
  Min({i \in 1 .. Len(lines) : lines[i].key = key /\ lines[i].bare} \cup {Len(lines) + 1})

\* The first line of that text from begin to before end, or past the last.
FindLine(lines, key, begin, end) ==
  Min({i \in begin .. end - 1 : lines[i].key = key /\ lines[i].bare} \cup {Len(lines) + 1})

Find(lines, key) == FindLine(lines, key, 1, Len(lines) + 1)

\* The next line that is not indented deeper than the section's.
SectionEnd(lines, section) ==
  IF section > Len(lines) THEN Len(lines) + 1
  ELSE Min({i \in section + 1 .. Len(lines) : lines[i].indent <= lines[section].indent}
             \cup {Len(lines) + 1})

Inside(lines, section) == section + 1 .. SectionEnd(lines, section) - 1

\* The lines of at with that key, and the value the last of them leaves.
With(lines, at, key) == {i \in at : lines[i].key = key}

LastValue(lines, at, key, default) ==
  LET found == With(lines, at, key)
  IN  IF found = {} THEN default ELSE lines[Max(found)].value

Ascending(S) == SetToSortSeq(S, <)

-----------------------------------------------------------------------------
\* The lines of chip_profile's match section.
MatchLines(lines) ==
  LET section == Find(lines, "chip_profile:")
  IN  Inside(lines, FindLine(lines, "match:", section, SectionEnd(lines, section)))

TpuTypeFromProduct(product) ==
  CASE product = "atlas" -> "Atlas" [] product = "atlas_m" -> "AtlasM" [] OTHER -> "Unknown"

ParseTpuProfile(lines) ==
  LET products == With(lines, Inside(lines, Find(lines, "chip_profile:")), "product:")
      product == IF products = {} THEN "" ELSE lines[Min(products)].value
  IN  [product |-> product, type |-> TpuTypeFromProduct(product),
       vendor |-> U16(LastValue(lines, MatchLines(lines), "vendor_id:", 0)),
       device |-> U16(LastValue(lines, MatchLines(lines), "device_id:", 0))]

ModuleNames == {"pcie:", "pmu:", "ddp:", "isi:"}

ModuleLines(lines, name) ==
  LET section == Find(lines, name)
  IN  {i \in With(lines, Inside(lines, section), "- index:") :
         lines[i].indent = lines[section].indent + 2}

ParseModuleList(lines, name) ==
  LET at == Ascending(ModuleLines(lines, name))
  IN  [k \in DOMAIN at |-> U32(lines[at[k]].value)]

\* The "- name:" lines of the inventory, and the lines of the device at i.
DeviceHeads(lines) ==
  LET devices == Find(lines, "devices:")
  IN  {i \in With(lines, Inside(lines, devices), "- name:") :
         lines[i].indent = lines[devices].indent + 2}

DeviceLines(lines, i) ==
  i + 1 .. Min({j \in DeviceHeads(lines) : j > i}
                 \cup {SectionEnd(lines, Find(lines, "devices:"))}) - 1

ParseInventory(lines) ==
  LET heads == Ascending(DeviceHeads(lines))
  IN  [k \in DOMAIN heads |->
         LET at == DeviceLines(lines, heads[k])
         IN  [name |-> lines[heads[k]].value,
              slot |-> LastValue(lines, at, "slot:", ""),
              position |-> LastValue(lines, at, "position:", ""),
              index |-> U32(LastValue(lines, at, "index:", 0))]]

\* The lines whose values are parsed as numbers.
NumberLines(lines) ==
  With(lines, MatchLines(lines), "vendor_id:")
    \cup With(lines, MatchLines(lines), "device_id:")
    \cup UNION {ModuleLines(lines, name) : name \in ModuleNames}
    \cup UNION {With(lines, DeviceLines(lines, i), "index:") : i \in DeviceHeads(lines)}

PolicyThrows(lines) == \E i \in NumberLines(lines) : lines[i].value = NotANumber

NoDevice == [name |-> "", slot |-> "", position |-> "", index |-> 0]

\* One entry per device of the inventory, or one without a device.
LoadOnePolicy(lines) ==
  LET inventory == ParseInventory(lines)
      devices == IF inventory = << >> THEN <<NoDevice>> ELSE inventory
  IN  IF lines = << >> THEN << >>
      ELSE [k \in DOMAIN devices |->
              [profile |-> ParseTpuProfile(lines),
               modules |-> [name \in ModuleNames |-> ParseModuleList(lines, name)],
               device |-> devices[k]]]

-----------------------------------------------------------------------------
\* Where the tests of a parameter file are: their header lines.
TestIndent(lines) ==
  LET section == Find(lines, "testcases:")
  IN  IF section > Len(lines) THEN 0 ELSE lines[section].indent + 2

TestHeads(lines) ==
  LET section == Find(lines, "testcases:")
      at == IF section > Len(lines) THEN 1 .. Len(lines) ELSE Inside(lines, section)
  IN  {i \in at : lines[i].indent = TestIndent(lines) /\ lines[i].bare}

\* "timeout" is short for the argument timeout_ms.
ArgName(name) == IF name = "timeout" THEN "timeout_ms" ELSE name

\* A parameter line is refused: not an assignment, an empty side, a name twice.
RunThrows(line) ==
  \/ line.bare
  \/ \E a \in Range(line.value) : a.name = "" \/ a.value = ""
  \/ \E j, k \in DOMAIN line.value :
       j < k /\ ArgName(line.value[j].name) = ArgName(line.value[k].name)

Run(line) ==
  LET at(name) == CHOOSE k \in DOMAIN line.value : ArgName(line.value[k].name) = name
  IN  [name \in {ArgName(a.name) : a \in Range(line.value)} |-> line.value[at(name)].value]

TestsThrow(lines) ==
  \E i \in TestHeads(lines) : \E j \in Inside(lines, i) : RunThrows(lines[j])

\* The runs of each test in the file's order; a name that comes twice has
\* the runs of both.
ParseTestcasePolicies(lines) ==
  [key \in {lines[i].key : i \in TestHeads(lines)} |->
     LET of == UNION {Inside(lines, i) : i \in With(lines, TestHeads(lines), key)}
         at == Ascending(of)
     IN  [k \in DOMAIN at |-> Run(lines[at[k]])]]

\* DeviceManager::get_testcase_runs on the file of the test's module.
GetTestcaseRuns(policies, key) == IF key \in DOMAIN policies THEN policies[key] ELSE << >>
=============================================================================
