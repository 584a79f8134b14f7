--------------------------- MODULE DmemAccessProof ---------------------------
(***************************************************************************)
(* Proofs about DmemAccess, for every region size, number of windows, BAR  *)
(* mapping, set of testcases, and bound on testcases, rescans and faults.  *)
(***************************************************************************)
EXTENDS DmemAccess, TLAPS

-----------------------------------------------------------------------------
Passes == {"save", "write", "check", "restore"}
Steps == {"idle", "begin", "allocate", "configure", "copy", "access", "assert",
          "deassert", "done"} \cup Passes

\* The state in range.
Shape ==
  /\ link \in {"up", "reset", "down"}
  /\ bars \in Mappings \cup {NoBars}
  /\ reg \in [Windows -> [target : 0 .. Word - 1, size : Nat]]
  /\ map \in [Windows -> 0 .. Word - 1]
  /\ mem \in [Places -> Data] /\ before \in [Places -> Data]
  /\ buf \subseteq Blocks
  /\ orig \in [Edges -> Data] /\ written \subseteq Edges
  /\ runs \in 0 .. MaxRuns /\ scans \in 0 .. MaxScans /\ faults \in 0 .. MaxFaults

\* Which testcase is at which step; the device answers from begin_testcase on;
\* only the last steps know the result.
Flow ==
  /\ pc \in Steps
  /\ pc \in Passes \cup {"configure"} => kind = "aperture"
  /\ pc = "copy" => kind \in CpCopies \cup DmaCopies
  /\ pc = "access" => kind = "user"
  /\ pc \in {"assert", "deassert"} => kind = "example"
  /\ pc \in {"idle", "begin", "allocate"} => i = 1 /\ moved
  /\ pc = "configure" => i \in Windows
  /\ pc \in Passes => i \in Edges
  /\ pc \in {"allocate", "configure", "copy", "access", "assert"} \cup Passes => link = "up"
  /\ pc \notin {"restore", "done"} => ~ status

\* The default window is where begin_testcase put it.
DefaultSet == reg[Default] = [target |-> 0, size |-> Size]
DefaultInv == pc \in {"allocate", "copy"} \/ (pc = "access" /\ ~ custom) => DefaultSet

\* What a testcase allocated.
Ranges == EdgeCount * (Len(BarOf) + 1)
BufInv ==
  /\ pc \in Passes \cup {"configure"} =>
       \E o \in Blocks : o + Ranges <= Size /\ buf = o .. o + Ranges - 1
  /\ pc = "access" => \E d \in Blocks : d + 1 \in Blocks /\ buf = {d, d + 1}

\* A configured window points at one of the ranges.
Targets == {Target(w) : w \in Windows}
RegInv ==
  /\ pc = "configure" => \A w \in Windows : w < i => reg[w].target \in Targets
  /\ pc \in Passes => \A w \in Windows : reg[w].target \in Targets

\* The aperture testcase's edges: what was read is what was there, and memory
\* differs from it only where an edge still to be restored lands.
Place(e) == Lands(WindowOf(e), EdgeOf(e))
Same == \A b \in Blocks : mem[Dmem(b)] = before[Dmem(b)]
Original(e) == orig[e] = Seen(before, WindowOf(e), EdgeOf(e))
Only(es) == \A b \in Blocks : mem[Dmem(b)] # before[Dmem(b)] => \E e \in es : Place(e) = b
Matched(e) == Seen(mem, WindowOf(e), EdgeOf(e)) = Pattern(WindowOf(e))

EdgeInv ==
  kind = "aperture" =>
    /\ pc \in {"begin", "allocate", "configure", "save", "done"} => Same
    /\ pc = "save" => \A e \in Edges : e < i => Original(e)
    /\ pc \in {"write", "check", "restore"} => \A e \in Edges : Original(e)
    /\ pc \in {"write", "check"} => Only(written)
    /\ pc = "restore" => Only({e \in written : e >= i})
    /\ pc = "check" => \A e \in Edges : e < i => Matched(e)

Distinct == \A v, w \in Windows : Lands(w, 0) # Nowhere /\ (v # w => map[v] # map[w])
DistinctInv == kind = "aperture" /\ status => Distinct

\* A copy's steps name its own buffers, and the last one compares.
PlacesOf(bs) == {Host, Sram} \cup {Dmem(d) : d \in bs}
Fills(ps) == [op : {"fill"}, at : ps, data : {Expected, Poison}]
Hops(ps) == [op : {"move"}, at : ps \cup {Imem}, data : ps \cup {Imem}]
Compares(ps) == [op : {"compare"}, at : ps, data : {Expected}]
CopySteps(ps) == Fills(ps) \cup Hops(ps) \cup Compares(ps)
EndsIn(p, op) == p # << >> /\ p[Len(p)].op = op
CpuPlaces == PlacesOf(buf)
PlanInv == pc = "copy" => plan \in Seq(CopySteps(CpuPlaces)) /\ EndsIn(plan, "compare")

\* A CP copy from s to t: until the engine has moved the data, the
\* destination holds the poison.
CpSteps(s, t) ==
  \/ plan = <<Fill(t, Poison), Fill(s, Expected), Hop(s, t), Compare(t)>> /\ moved
  \/ plan = <<Fill(s, Expected), Hop(s, t), Compare(t)>> /\ moved
     /\ (Honest => mem[t] = Poison)
  \/ plan = <<Fill(s, Expected), Fill(t, Poison), Hop(s, t), Compare(t)>> /\ moved
  \/ plan = <<Fill(t, Poison), Hop(s, t), Compare(t)>> /\ moved
  \/ plan = <<Hop(s, t), Compare(t)>> /\ moved /\ (Honest => mem[t] = Poison)
  \/ plan = <<Compare(t)>> /\ (Honest /\ ~ moved => mem[t] = Poison)
CpInv == pc = "copy" /\ kind \in CpCopies => \E s, t \in CpuPlaces : s # t /\ CpSteps(s, t)

\* The inductive invariant.
IInv ==
  /\ Shape /\ Flow /\ DefaultInv /\ BufInv /\ RegInv
  /\ EdgeInv /\ DistinctInv /\ PlanInv /\ CpInv /\ PassMeansData

-----------------------------------------------------------------------------
\* Windows, edges and ranges.
LEMMA WindowFacts ==
  /\ Len(BarOf) \in Nat \ {0}
  /\ Windows = 1 .. Len(BarOf)
  /\ Default \in Windows
  /\ Edges = 1 .. 2 * Len(BarOf)
BY ConstantsAssumption DEF Windows, Edges, EdgeCount

LEMMA EdgeFacts ==
  /\ \A e \in Edges : WindowOf(e) \in Windows /\ EdgeOf(e) \in {0, 1}
  /\ \A w \in Windows : \E e \in Edges : WindowOf(e) = w /\ EdgeOf(e) = 0
<1>1. ASSUME NEW e \in Edges PROVE WindowOf(e) \in Windows /\ EdgeOf(e) \in {0, 1}
  BY <1>1, WindowFacts DEF WindowOf, EdgeOf, EdgeCount
<1>2. ASSUME NEW w \in Windows PROVE \E e \in Edges : WindowOf(e) = w /\ EdgeOf(e) = 0
  <2>1. 2 * w - 1 \in Edges
    BY WindowFacts
  <2>2. WindowOf(2 * w - 1) = w /\ EdgeOf(2 * w - 1) = 0
    BY WindowFacts DEF WindowOf, EdgeOf, EdgeCount
  <2> QED
    BY <2>1, <2>2, Zenon
<1> QED
  BY <1>1, <1>2, Zenon

LEMMA AlignUpFacts ==
  ASSUME NEW v \in Nat
  PROVE  AlignUp(v) \in Nat /\ v <= AlignUp(v) /\ AlignUp(v) <= v + 1
BY DEF AlignUp, EdgeCount

\* The ranges lie in the buffer.
LEMMA TargetFacts ==
  ASSUME NEW o \in Blocks, o + Ranges <= Size, buf = o .. o + Ranges - 1, NEW w \in Windows
  PROVE  Target(w) \in Nat /\ Target(w) \in buf /\ Target(w) + 1 \in buf
<1>1. Ranges = 2 * Len(BarOf) + 2 /\ o \in Nat
  BY WindowFacts, ConstantsAssumption DEF Ranges, EdgeCount, Blocks
<1>2. (CHOOSE b \in buf : \A c \in buf : b <= c) = o
  <2>1. o \in buf /\ \A c \in buf : o <= c
    BY <1>1, WindowFacts
  <2>2. \A b \in buf : (\A c \in buf : b <= c) => b = o
    BY <1>1, <2>1, WindowFacts
  <2> QED
    BY <2>1, <2>2, Zenon
<1>3. Target(w) = AlignUp(o) + 2 * (w - 1)
  BY <1>2, Zenon DEF Target, EdgeCount
<1>4. AlignUp(o) \in Nat /\ o <= AlignUp(o) /\ AlignUp(o) <= o + 1
  BY <1>1, AlignUpFacts, Zenon
<1>5. w \in 1 .. Len(BarOf) /\ Len(BarOf) \in Nat
  BY WindowFacts, Zenon
<1> QED
  BY SMTT(60), <1>1, <1>3, <1>4, <1>5

\* Memory.
LEMMA PlaceFacts ==
  /\ \A b \in Blocks : Dmem(b) \in Places
  /\ Host \in Places /\ Sram \in Places /\ Imem \in Places
  /\ \A b, c \in Blocks : Dmem(b) = Dmem(c) => b = c
  /\ \A b : Dmem(b) # Host /\ Dmem(b) # Sram /\ Dmem(b) # Imem
  /\ Dmem(Nowhere) \notin Places
  /\ Nowhere \notin Blocks
<1>1. Nowhere \notin Blocks
  BY ConstantsAssumption DEF Nowhere, Blocks
<1>2. Dmem(Nowhere) \notin Places
  BY <1>1, Zenon DEF Places, Dmem, Host, Sram, Imem
<1> QED
  BY <1>1, <1>2, Zenon DEF Places, Dmem, Host, Sram, Imem

LEMMA DataFacts ==
  /\ Ones \in Data /\ Expected \in Data /\ Poison \in Data /\ User \in Data
  /\ \A w \in Windows : Pattern(w) \in Data /\ Pattern(w) # Ones
  /\ \A v, w \in Windows : Pattern(v) = Pattern(w) => v = w
  /\ Expected # Poison
  /\ \A p \in Places : Old(p[2]) \in Data
  /\ Old(0) \in Data
<1>1. \A p \in Places : p[2] \in 0 .. Size
  BY ConstantsAssumption DEF Places, Dmem, Host, Sram, Imem, Blocks
<1>2. 0 \in 0 .. Size
  BY ConstantsAssumption
<1>3. \A p \in Places : Old(p[2]) \in Data
  BY <1>1, Zenon DEF Data
<1>4. Old(0) \in Data
  BY <1>2, Zenon DEF Data
<1>5. Ones \in Data /\ Expected \in Data /\ Poison \in Data /\ User \in Data
  BY Zenon DEF Data
<1>6. \A w \in Windows : Pattern(w) \in Data
  BY Zenon DEF Data
<1>7. /\ \A w \in Windows : Pattern(w) # Ones
      /\ \A v, w \in Windows : Pattern(v) = Pattern(w) => v = w
      /\ Expected # Poison
  BY Zenon DEF Pattern, Ones, Expected, Poison
<1> QED
  BY <1>3, <1>4, <1>5, <1>6, <1>7, Zenon

LEMMA LandsFacts ==
  ASSUME Shape, NEW w \in Windows, NEW a \in Nat
  PROVE  /\ Lands(w, a) \in Blocks \cup {Nowhere}
         /\ Lands(w, a) # Nowhere => link = "up" /\ Lands(w, a) = map[w] + a
BY Zenon DEF Lands

LEMMA SeenData ==
  ASSUME Shape, NEW m \in [Places -> Data], NEW w \in Windows, NEW a \in Nat
  PROVE  Seen(m, w, a) \in Data
<1>1. CASE Lands(w, a) = Nowhere
  BY <1>1, DataFacts, Zenon DEF Seen
<1>2. CASE Lands(w, a) # Nowhere
  <2>1. Dmem(Lands(w, a)) \in Places
    BY <1>2, LandsFacts, PlaceFacts, Zenon
  <2> QED
    BY <1>2, <2>1, Zenon DEF Seen
<1> QED
  BY <1>1, <1>2, Zenon

\* A write through a window changes the blocks it lands on and nothing else.
LEMMA StoredFacts ==
  ASSUME Shape, NEW w \in Windows, NEW as \in SUBSET Nat, NEW d \in Data
  PROVE  /\ Stored(w, as, d) \in [Places -> Data]
         /\ \A b \in Blocks : Stored(w, as, d)[Dmem(b)] =
              IF \E a \in as : Lands(w, a) = b THEN d ELSE mem[Dmem(b)]
         /\ \A p \in {Host, Sram, Imem} : Stored(w, as, d)[p] = mem[p]
<1>1. mem \in [Places -> Data]
  BY Zenon DEF Shape
<1>2. Stored(w, as, d) \in [Places -> Data]
  BY <1>1, Zenon DEF Stored
<1>3. ASSUME NEW b \in Blocks
      PROVE  Stored(w, as, d)[Dmem(b)] =
               IF \E a \in as : Lands(w, a) = b THEN d ELSE mem[Dmem(b)]
  <2>1. ASSUME NEW a \in as PROVE Dmem(b) = Dmem(Lands(w, a)) <=> Lands(w, a) = b
    <3>1. Lands(w, a) \in Blocks \cup {Nowhere}
      BY LandsFacts, Zenon
    <3> QED
      BY <3>1, PlaceFacts, Zenon
  <2>2. Dmem(b) \in Places
    BY PlaceFacts, Zenon
  <2> QED
    BY <2>1, <2>2, Zenon DEF Stored
<1>4. ASSUME NEW p \in {Host, Sram, Imem} PROVE Stored(w, as, d)[p] = mem[p]
  <2>1. p \in Places /\ \A b : p # Dmem(b)
    BY PlaceFacts, Zenon
  <2> QED
    BY <2>1, Zenon DEF Stored
<1> QED
  BY <1>2, <1>3, <1>4, Zenon

\* What the hardware may do with a window write.
Regs == [Windows -> [target : 0 .. Word - 1, size : Nat]]
Maps == [Windows -> 0 .. Word - 1]

LEMMA ProgrammedFacts ==
  ASSUME Shape, NEW w \in Windows, NEW t \in 0 .. Word - 1, NEW s \in Nat,
         NEW h \in Programmed(w, t, s)
  PROVE  /\ h.reg \in Regs /\ h.map \in Maps /\ faults + h.bad \in 0 .. MaxFaults
         /\ \A v \in Windows \ {w} : h.reg[v].target \in {reg[v].target, t}
         /\ link # "up" => h.reg = reg /\ h.map = map
<1> DEFINE exact == Took(w, t, s)
           new == [target |-> t, size |-> s]
<1>1. /\ reg \in Regs /\ map \in Maps /\ faults \in 0 .. MaxFaults /\ MaxFaults \in Nat
      /\ new \in [target : 0 .. Word - 1, size : Nat]
  BY ConstantsAssumption, Zenon DEF Shape, Regs, Maps
<1>2. /\ exact.reg = [reg EXCEPT ![w] = new] /\ exact.map = [map EXCEPT ![w] = t]
      /\ exact.bad = 0
      /\ DOMAIN exact = {"reg", "map", "bad"}
  BY Zenon DEF Took
<1>3. exact.reg \in Regs /\ exact.map \in Maps
  BY <1>1, <1>2 DEF Regs, Maps
<1>4. \A v \in Windows \ {w} : exact.reg[v].target = reg[v].target
  BY <1>1, <1>2, Zenon DEF Regs
<1>5. faults + 0 \in 0 .. MaxFaults
      /\ (faults # MaxFaults => faults + 1 \in 0 .. MaxFaults)
  BY <1>1
<1> DEFINE ignored == [reg |-> reg, map |-> map, bad |-> 1]
           astray == UNION {{[exact EXCEPT !.map[v] = AlignUp(x), !.bad = 1] : x \in Blocks} :
                              v \in Windows}
           doubled == {[exact EXCEPT !.map[v] = t, !.reg[v].target = t, !.bad = 1] :
                        v \in Windows \ {w}}
<1>6. Programmed(w, t, s) =
        IF link # "up" THEN {[ignored EXCEPT !.bad = 0]}
        ELSE {exact} \cup (IF faults = MaxFaults THEN {}
                           ELSE {ignored} \cup astray \cup doubled)
  BY Zenon DEF Programmed
<1> HIDE DEF exact, astray, doubled
<1>7. CASE link # "up"
  <2>1. h = [ignored EXCEPT !.bad = 0]
    BY <1>6, <1>7, Zenon
  <2>2. h.reg = reg /\ h.map = map /\ h.bad = 0
    BY <2>1, Zenon
  <2> QED
    BY <1>1, <1>5, <2>2, Zenon
<1>8. CASE link = "up" /\ h = exact
  BY <1>2, <1>3, <1>4, <1>5, <1>8, Zenon
<1>9. CASE link = "up" /\ h # exact
  <2>1. faults # MaxFaults /\ h \in {ignored} \cup astray \cup doubled
    BY <1>6, <1>9, Zenon
  <2>2. CASE h = ignored
    BY <1>1, <1>5, <1>9, <2>1, <2>2, Zenon
  <2>3. CASE h \in astray
    <3>1. PICK v \in Windows, x \in Blocks : h = [exact EXCEPT !.map[v] = AlignUp(x), !.bad = 1]
      BY <2>3, ZenonT(60) DEF astray
    <3>2. AlignUp(x) \in 0 .. Word - 1
      <4>1. x \in Nat /\ x < Size
        BY ConstantsAssumption DEF Blocks
      <4>2. AlignUp(x) \in Nat /\ AlignUp(x) <= x + 1
        BY <4>1, AlignUpFacts, Zenon
      <4> QED
        BY <4>1, <4>2, ConstantsAssumption
    <3>3. /\ h.reg = exact.reg /\ h.map = [exact.map EXCEPT ![v] = AlignUp(x)] /\ h.bad = 1
      BY <1>2, <3>1, Zenon
    <3>4. h.map \in Maps
      BY <1>3, <3>2, <3>3, Zenon DEF Maps
    <3> QED
      BY <1>3, <1>4, <1>5, <1>9, <2>1, <3>3, <3>4, Zenon
  <2>4. CASE h \in doubled
    <3>1. PICK v \in Windows \ {w} :
            h = [exact EXCEPT !.map[v] = t, !.reg[v].target = t, !.bad = 1]
      BY <2>4, Zenon DEF doubled
    <3>2. /\ h.reg = [exact.reg EXCEPT ![v] = [exact.reg[v] EXCEPT !.target = t]]
          /\ h.map = [exact.map EXCEPT ![v] = t] /\ h.bad = 1
      BY <1>2, <3>1, Zenon
    <3>3. h.map \in Maps
      BY <1>3, <3>2, Zenon DEF Maps
    <3>4. /\ [exact.reg[v] EXCEPT !.target = t] \in [target : 0 .. Word - 1, size : Nat]
          /\ [exact.reg[v] EXCEPT !.target = t].target = t
      <4>1. exact.reg[v] \in [target : 0 .. Word - 1, size : Nat]
        BY <1>3, Zenon DEF Regs
      <4> QED
        BY <4>1, Zenon
    <3>5. h.reg \in Regs
      BY <1>3, <3>2, <3>4, Zenon DEF Regs
    <3>6. \A u \in Windows \ {w} : h.reg[u].target \in {reg[u].target, t}
      <4>1. \A u \in Windows : h.reg[u] =
              IF u = v THEN [exact.reg[v] EXCEPT !.target = t] ELSE exact.reg[u]
        BY <1>3, <3>2, Zenon DEF Regs
      <4> QED
        BY <1>4, <3>4, <4>1, Zenon
    <3> QED
      BY <1>5, <1>9, <2>1, <3>2, <3>3, <3>5, <3>6, Zenon
  <2> QED
    BY <2>1, <2>2, <2>3, <2>4, Zenon
<1> QED
  BY <1>7, <1>8, <1>9, Zenon

LEMMA ApertureSetFacts ==
  ASSUME Shape, NEW w \in Windows, NEW t \in 0 .. Word - 1, NEW s \in Nat, NEW ok \in BOOLEAN,
         ApertureSet(w, t, s, ok)
  PROVE  /\ reg' \in Regs /\ map' \in Maps /\ faults' \in 0 .. MaxFaults
         /\ \A v \in Windows \ {w} : reg'[v].target \in {reg[v].target, t}
         /\ ok => link = "up" /\ reg'[w] = [target |-> t, size |-> s]
<1>1. CASE ~ ok /\ UNCHANGED <<reg, map, faults>>
  BY <1>1, Zenon DEF Shape, Regs, Maps
<1>2. CASE /\ \E h \in Programmed(w, t, s) :
                reg' = h.reg /\ map' = h.map /\ faults' = faults + h.bad
           /\ ok => ReadBack(w, t, s)
  <2>1. PICK h \in Programmed(w, t, s) :
          reg' = h.reg /\ map' = h.map /\ faults' = faults + h.bad
    BY <1>2, Zenon
  <2>2. /\ h.reg \in Regs /\ h.map \in Maps /\ faults + h.bad \in 0 .. MaxFaults
        /\ \A v \in Windows \ {w} : h.reg[v].target \in {reg[v].target, t}
    BY ProgrammedFacts, Zenon
  <2> QED
    BY <1>2, <2>1, <2>2, Zenon DEF ReadBack
<1> QED
  BY <1>1, <1>2, Zenon DEF ApertureSet

LEMMA LenOrig == ASSUME Shape PROVE Len(orig) = 2 * Len(BarOf) /\ Len(orig) \in Edges
<1>1. orig \in [1 .. 2 * Len(BarOf) -> Data] /\ 2 * Len(BarOf) \in Nat \ {0}
  BY WindowFacts DEF Shape
<1>2. Len(orig) = 2 * Len(BarOf)
  BY <1>1
<1> QED
  BY <1>1, <1>2, WindowFacts

\* The CPU's accesses through the default window as begin_testcase left it.
LEMMA DefaultLands ==
  ASSUME Shape, DefaultSet, link = "up", Honest, NEW b \in Blocks
  PROVE  Lands(Default, b) = b
<1>1. Default \in Windows /\ map[Default] = 0 /\ reg[Default].size = Size
  BY WindowFacts DEF DefaultSet, Honest
<1>2. b \in Nat /\ b < Size /\ 0 + b = b
  BY ConstantsAssumption DEF Blocks
<1> QED
  BY <1>1, <1>2, Zenon DEF Lands

LEMMA CpuPlaceFacts ==
  ASSUME Shape, NEW p \in CpuPlaces
  PROVE  /\ p \in Places
         /\ p # Host /\ p # Sram => \E b \in buf : p = Dmem(b) /\ p[2] = b /\ b \in Blocks
<1>1. \A b : Dmem(b)[2] = b
  BY Zenon DEF Dmem
<1>2. buf \subseteq Blocks
  BY Zenon DEF Shape
<1> QED
  BY <1>1, <1>2, PlaceFacts, Zenon DEF CpuPlaces, PlacesOf

LEMMA CpuWrittenFacts ==
  ASSUME Shape, NEW p \in CpuPlaces, NEW d \in Data
  PROVE  /\ CpuWritten(p, d) \in [Places -> Data]
         /\ DefaultSet /\ link = "up" /\ Honest =>
              \A q \in Places : CpuWritten(p, d)[q] = IF q = p THEN d ELSE mem[q]
<1>1. mem \in [Places -> Data] /\ p \in Places
  BY CpuPlaceFacts, Zenon DEF Shape
<1>2. Host # Sram
  BY Zenon DEF Host, Sram
<1>3. CASE p = Host \/ (p = Sram /\ link = "up")
  <2>1. CpuWritten(p, d) = [mem EXCEPT ![p] = d]
    <3> DEFINE new == [mem EXCEPT ![p] = d]
    <3>1. CpuWritten(p, d) = CASE p = Host \/ (p = Sram /\ link = "up") -> new
                               [] p = Sram /\ link # "up" -> mem
                               [] OTHER -> MmioTransfer(p[2], 1, d)
      BY Zenon DEF CpuWritten
    <3> HIDE DEF new
    <3>2. CpuWritten(p, d) = new
      BY <1>2, <1>3, <3>1, Zenon
    <3> QED
      BY <3>2, Zenon DEF new
  <2> QED
    BY <1>1, <2>1, Zenon
<1>4. CASE p = Sram /\ link # "up"
  <2>1. CpuWritten(p, d) = mem
    BY <1>2, <1>4, Zenon DEF CpuWritten
  <2> QED
    BY <1>1, <1>4, <2>1, Zenon
<1>5. CASE p # Host /\ p # Sram
  <2>1. PICK b \in buf : p = Dmem(b) /\ p[2] = b /\ b \in Blocks
    BY <1>5, CpuPlaceFacts, Zenon
  <2>2. CpuWritten(p, d) = MmioTransfer(b, 1, d)
    BY <1>5, <2>1, Zenon DEF CpuWritten
  <2>3. {b + k : k \in 0 .. 1 - 1} = {b} /\ b \in Nat
    BY <2>1, ConstantsAssumption DEF Blocks
  <2>4. CpuWritten(p, d) = Stored(Default, {b}, d) /\ {b} \in SUBSET Nat /\ Default \in Windows
    BY <2>2, <2>3, WindowFacts, Zenon DEF MmioTransfer
  <2>5. CpuWritten(p, d) \in [Places -> Data]
    <3>1. Stored(Default, {b}, d) \in [Places -> Data]
      BY <2>4, StoredFacts, Zenon
    <3> QED
      BY <2>4, <3>1, Zenon
  <2>6. ASSUME DefaultSet, link = "up", Honest, NEW q \in Places
        PROVE  CpuWritten(p, d)[q] = IF q = p THEN d ELSE mem[q]
    <3>1. Lands(Default, b) = b
      BY <2>1, <2>6, DefaultLands, Zenon
    <3> QED
      BY <2>1, <2>4, <3>1, ZenonT(60) DEF Stored
  <2> QED
    BY <2>5, <2>6, Zenon
<1> QED
  BY <1>3, <1>4, <1>5, Zenon

LEMMA CpuReadFacts ==
  ASSUME Shape, NEW p \in CpuPlaces, DefaultSet, link = "up", Honest, NEW m
  PROVE  CpuRead(m, p) = m[p]
<1>1. CASE p = Host \/ p = Sram
  BY <1>1, Zenon DEF CpuRead
<1>2. CASE p # Host /\ p # Sram
  <2>1. PICK b \in buf : p = Dmem(b) /\ p[2] = b /\ b \in Blocks
    BY <1>2, CpuPlaceFacts, Zenon
  <2>2. CpuRead(m, p) = Seen(m, Default, b)
    BY <1>2, <2>1, Zenon DEF CpuRead
  <2>3. Lands(Default, b) = b /\ b # Nowhere
    BY <2>1, DefaultLands, PlaceFacts, Zenon
  <2> QED
    BY <2>1, <2>2, <2>3, Zenon DEF Seen
<1> QED
  BY <1>1, <1>2, Zenon

-----------------------------------------------------------------------------
LEMMA InitIInv == Init => IInv
<1> SUFFICES ASSUME Init PROVE IInv
  BY Zenon
<1>1. Shape
  <2>1. /\ reg \in [Windows -> [target : 0 .. Word - 1, size : Nat]]
        /\ map \in [Windows -> 0 .. Word - 1]
    BY ConstantsAssumption DEF Init, NoWindow
  <2>2. mem \in [Places -> Data] /\ before \in [Places -> Data]
    BY DataFacts, Zenon DEF Init
  <2>3. orig \in [Edges -> Data]
    BY DataFacts, Zenon DEF Init
  <2>4. runs \in 0 .. MaxRuns /\ scans \in 0 .. MaxScans /\ faults \in 0 .. MaxFaults
    BY ConstantsAssumption DEF Init
  <2>5. buf \subseteq Blocks /\ written \subseteq Edges
    BY Zenon DEF Init
  <2> QED
    BY <2>1, <2>2, <2>3, <2>4, <2>5, Zenon DEF Init, Shape
<1>2. Flow /\ DefaultInv /\ BufInv /\ RegInv
  BY Zenon DEF Init, Flow, Steps, Passes, DefaultInv, BufInv, RegInv
<1>3. EdgeInv /\ DistinctInv /\ PlanInv /\ CpInv /\ PassMeansData
  BY Zenon DEF Init, EdgeInv, DistinctInv, PlanInv, CpInv, PassMeansData
<1> QED
  BY <1>1, <1>2, <1>3, Zenon DEF IInv

\* What stays in range.
KeepsMemory == mem' = mem /\ before' = before
KeepsDevice == UNCHANGED <<link, bars, reg, map, scans, faults>>
KeepsOwn == UNCHANGED <<buf, orig, written, runs>>

LEMMA ShapeSteps ==
  ASSUME IInv, [Next]_vars
  PROVE  Shape'
<1> USE DEF hardware, edges, copy, KeepsMemory, KeepsDevice, KeepsOwn
<1>0. Shape /\ Flow /\ BufInv /\ PlanInv
  BY Zenon DEF IInv
<1>a. ASSUME KeepsMemory, KeepsDevice, KeepsOwn PROVE Shape'
  BY <1>0, <1>a, Zenon DEF Shape
<1>b. ASSUME mem' \in [Places -> Data], before' = before, KeepsDevice, KeepsOwn PROVE Shape'
  BY <1>0, <1>b, Zenon DEF Shape
<1>c. ASSUME reg' \in Regs, map' \in Maps, faults' \in 0 .. MaxFaults, KeepsMemory, KeepsOwn,
             UNCHANGED <<link, bars, scans>>
      PROVE  Shape'
  BY <1>0, <1>c, Zenon DEF Shape, Regs, Maps
<1>1. CASE Discover
  <2>1. link' \in {"up", "reset", "down"} /\ bars' \in Mappings \cup {NoBars}
    BY <1>0, <1>1, Zenon DEF Discover, Shape
  <2>2. scans' \in 0 .. MaxScans
    BY <1>0, <1>1, ConstantsAssumption DEF Discover, Shape
  <2> QED
    BY <1>0, <1>1, <2>1, <2>2, Zenon DEF Discover, Shape
<1>2. CASE \E k \in Kinds : Start(k)
  <2>1. runs' \in 0 .. MaxRuns
    BY <1>0, <1>2, ConstantsAssumption DEF Start, Shape
  <2> QED
    BY <1>0, <1>2, <2>1, Zenon DEF Start, Shape
<1>3. CASE Begin
  <2>1. PICK ok \in BOOLEAN : ApertureSet(Default, 0, Size, ok)
    BY <1>3, Zenon DEF Begin, SetDefault
  <2>2. 0 \in 0 .. Word - 1 /\ Size \in Nat /\ Default \in Windows
    BY ConstantsAssumption, WindowFacts
  <2>3. reg' \in Regs /\ map' \in Maps /\ faults' \in 0 .. MaxFaults
    BY <1>0, <2>1, <2>2, ApertureSetFacts, Zenon
  <2> QED
    BY <1>3, <1>c, <2>3, Zenon DEF Begin
<1>4. CASE End
  <2>1. orig' \in [Edges -> Data]
    BY <1>4, DataFacts, Zenon DEF End
  <2>2. buf' \subseteq Blocks /\ written' \subseteq Edges
    BY <1>4, Zenon DEF End
  <2> QED
    BY <1>0, <1>4, <2>1, <2>2, Zenon DEF End, Shape
<1>5. CASE AllocateRanges
  <2>1. buf' \subseteq Blocks
    <3>1. \/ buf' = buf
          \/ \E o \in Blocks : o + Ranges <= Size /\ buf' = o .. o + Ranges - 1
      BY <1>5, Zenon DEF AllocateRanges, Ranges
    <3>2. Ranges \in Nat
      BY WindowFacts DEF Ranges, EdgeCount
    <3>3. ASSUME NEW o \in Blocks, o + Ranges <= Size PROVE o .. o + Ranges - 1 \subseteq Blocks
      BY <3>2, <3>3, ConstantsAssumption DEF Blocks
    <3> QED
      BY <1>0, <3>1, <3>3, Zenon DEF Shape
  <2> QED
    BY <1>0, <1>5, <2>1, Zenon DEF AllocateRanges, Shape
<1>6. CASE Configure
  <2>1. PICK ok \in BOOLEAN : ApertureSet(i, Target(i), EdgeCount, ok)
    BY <1>6, Zenon DEF Configure
  <2>2. i \in Windows
    BY <1>0, <1>6, Zenon DEF Configure, Flow
  <2>3. Target(i) \in buf
    BY <1>0, <1>6, <2>2, TargetFacts, Zenon DEF Configure, BufInv
  <2>4. Target(i) \in 0 .. Word - 1 /\ EdgeCount \in Nat
    <3>1. Target(i) \in Blocks
      BY <1>0, <2>3, Zenon DEF Shape
    <3> QED
      BY <3>1, ConstantsAssumption DEF Blocks, EdgeCount
  <2>5. reg' \in Regs /\ map' \in Maps /\ faults' \in 0 .. MaxFaults
    BY <1>0, <2>1, <2>2, <2>4, ApertureSetFacts, Zenon
  <2> QED
    BY <1>6, <1>c, <2>5, Zenon DEF Configure
<1>7. CASE Save
  <2>1. i \in Edges
    BY <1>0, <1>7, Zenon DEF Save, Flow, Passes
  <2>2. Seen(mem, WindowOf(i), EdgeOf(i)) \in Data
    <3>1. WindowOf(i) \in Windows /\ EdgeOf(i) \in Nat
      BY <2>1, EdgeFacts
    <3> QED
      BY <1>0, <3>1, SeenData, Zenon DEF Shape
  <2>3. orig' \in [Edges -> Data]
    BY <1>0, <1>7, <2>1, <2>2, Zenon DEF Save, Shape
  <2> QED
    BY <1>0, <1>7, <2>3, Zenon DEF Save, Shape
<1>8. CASE Write
  <2>1. i \in Edges
    BY <1>0, <1>8, Zenon DEF Write, Flow, Passes
  <2>2. Stored(WindowOf(i), {EdgeOf(i)}, Pattern(WindowOf(i))) \in [Places -> Data]
    <3>1. WindowOf(i) \in Windows /\ {EdgeOf(i)} \in SUBSET Nat
      BY <2>1, EdgeFacts
    <3> QED
      BY <1>0, <3>1, StoredFacts, DataFacts, Zenon
  <2>3. mem' \in [Places -> Data]
    BY <1>0, <1>8, <2>2, Zenon DEF Write, Shape
  <2>4. written' \subseteq Edges
    BY <1>0, <1>8, <2>1, Zenon DEF Write, Shape
  <2> QED
    BY <1>0, <1>8, <2>3, <2>4, Zenon DEF Write, Shape
<1>9. CASE Restore
  <2>1. i \in Edges
    BY <1>0, <1>9, Zenon DEF Restore, Flow, Passes
  <2>2. Stored(WindowOf(i), {EdgeOf(i)}, orig[i]) \in [Places -> Data]
    <3>1. WindowOf(i) \in Windows /\ {EdgeOf(i)} \in SUBSET Nat
      BY <2>1, EdgeFacts
    <3>2. orig[i] \in Data
      BY <1>0, <2>1, Zenon DEF Shape
    <3> QED
      BY <1>0, <3>1, <3>2, StoredFacts, Zenon
  <2>3. mem' \in [Places -> Data]
    BY <1>0, <1>9, <2>2, Zenon DEF Restore, Shape
  <2> QED
    BY <1>9, <1>b, <2>3, Zenon DEF Restore
<1>10. CASE AllocateCopy
  <2>1. mem' \in [Places -> Data]
    BY <1>0, <1>10, DataFacts, PlaceFacts, Zenon DEF AllocateCopy, Shape
  <2>2. buf' \subseteq Blocks
    <3>1. buf' = buf \/ \E d, r \in CopyBlocks : buf' = {d, r}
      BY <1>10, Zenon DEF AllocateCopy
    <3>2. CopyBlocks \subseteq Blocks
      BY ConstantsAssumption, Zenon DEF Blocks
    <3> QED
      BY <1>0, <3>1, <3>2, Zenon DEF Shape
  <2> QED
    BY <1>0, <1>10, <2>1, <2>2, Zenon DEF AllocateCopy, Shape
<1>11. CASE Check \/ Verify \/ ExampleReads \/ ResetFails
  BY <1>11, <1>a, Zenon DEF Check, Verify, ExampleReads, ResetFails
<1>12. CASE Prepare
  <2>1. Head(plan) \in Fills(CpuPlaces)
    BY <1>0, <1>12 DEF Prepare, PlanInv, EndsIn, CopySteps, Hops, Compares
  <2>2. Head(plan).at \in CpuPlaces /\ Head(plan).data \in Data
    BY <2>1, DataFacts, Zenon DEF Fills
  <2>3. mem' \in [Places -> Data]
    <3>1. mem' = mem \/ mem' = CpuWritten(Head(plan).at, Head(plan).data)
      BY <1>12, Zenon DEF Prepare
    <3>2. CpuWritten(Head(plan).at, Head(plan).data) \in [Places -> Data]
      BY <1>0, <2>2, CpuWrittenFacts, Zenon
    <3> QED
      BY <1>0, <3>1, <3>2, Zenon DEF Shape
  <2> QED
    BY <1>12, <1>b, <2>3, Zenon DEF Prepare
<1>13. CASE Transfer
  <2>1. Head(plan) \in Hops(CpuPlaces)
    BY <1>0, <1>13 DEF Transfer, PlanInv, EndsIn, CopySteps, Fills, Compares
  <2>2. Head(plan).at \in Places /\ Head(plan).data \in Places
    BY <1>0, <2>1, CpuPlaceFacts, PlaceFacts, Zenon DEF Hops
  <2>3. mem' \in [Places -> Data]
    BY <1>0, <1>13, <2>2, Zenon DEF Transfer, Shape
  <2> QED
    BY <1>13, <1>b, <2>3, Zenon DEF Transfer
<1>14. CASE AllocateUser
  <2>1. buf' \subseteq Blocks
    BY <1>0, <1>14, ConstantsAssumption, Zenon DEF AllocateUser, Shape, Blocks
  <2> QED
    BY <1>0, <1>14, <2>1, Zenon DEF AllocateUser, Shape
<1>15. CASE MoveWindow
  <2>1. PICK ok \in BOOLEAN, t \in Arguments, s \in {0, EdgeCount} :
          ApertureSet(Default, t, s, ok)
    BY <1>15, Zenon DEF MoveWindow
  <2>2. t \in 0 .. Word - 1 /\ s \in Nat /\ Default \in Windows
    BY ConstantsAssumption, WindowFacts DEF EdgeCount
  <2>3. reg' \in Regs /\ map' \in Maps /\ faults' \in 0 .. MaxFaults
    BY <1>0, <2>1, <2>2, ApertureSetFacts, Zenon
  <2> QED
    BY <1>15, <1>c, <2>3, Zenon DEF MoveWindow
<1>16. CASE Access
  <2>1. mem' \in [Places -> Data]
    <3>1. ASSUME NEW x \in Nat, NEW len \in Nat
          PROVE  MmioTransfer(x, len, User) \in [Places -> Data]
      <4>1. {x + k : k \in 0 .. len - 1} \in SUBSET Nat /\ Default \in Windows
        BY WindowFacts
      <4> QED
        BY <1>0, <4>1, StoredFacts, DataFacts, Zenon DEF MmioTransfer
    <3>2. PICK d \in Blocks : d + 1 \in Blocks /\ buf = {d, d + 1}
      BY <1>0, <1>16, Zenon DEF Access, BufInv
    <3>3. (CHOOSE c \in buf : c + 1 \in buf) \in Nat
      <4>1. d \in buf /\ d + 1 \in buf /\ buf \subseteq Nat
        BY <3>2, ConstantsAssumption DEF Blocks
      <4> QED
        BY <4>1, Zenon
    <3>4. ASSUME NEW offset \in Arguments
          PROVE  ((CHOOSE c \in buf : c + 1 \in buf) + offset) % Word \in Nat /\ offset \in Nat
      BY <3>3, ConstantsAssumption
    <3>5. \/ mem' = mem
          \/ \E offset, len \in Arguments : mem' =
               MmioTransfer(((CHOOSE c \in buf : c + 1 \in buf) + offset) % Word, len, User)
      BY <1>16, Zenon DEF Access
    <3>6. ASSUME NEW offset \in Arguments, NEW len \in Arguments
          PROVE  MmioTransfer(((CHOOSE c \in buf : c + 1 \in buf) + offset) % Word, len, User)
                   \in [Places -> Data]
      <4>1. len \in Nat
        BY <3>4, Zenon
      <4> QED
        BY <3>1, <3>4, <4>1, Zenon
    <3>7. CASE mem' = mem
      BY <1>0, <3>7, Zenon DEF Shape
    <3>8. CASE mem' # mem
      <4>1. PICK offset \in Arguments, len \in Arguments : mem' =
              MmioTransfer(((CHOOSE c \in buf : c + 1 \in buf) + offset) % Word, len, User)
        BY <3>5, <3>8, Zenon
      <4> QED
        BY <3>6, <4>1, Zenon
    <3> QED
      BY <3>7, <3>8, Zenon
  <2> QED
    BY <1>16, <1>b, <2>1, Zenon DEF Access
<1>17. CASE AssertReset
  <2>1. reg' \in Regs /\ map' \in Maps
    BY <1>17, ConstantsAssumption DEF AssertReset, Regs, Maps, NoWindow
  <2> QED
    BY <1>0, <1>17, <2>1, Zenon DEF AssertReset, Shape, Regs, Maps
<1>18. CASE DeassertReset
  BY <1>0, <1>18, Zenon DEF DeassertReset, Shape
<1>19. CASE UNCHANGED vars
  BY <1>19, <1>a, Zenon DEF vars
<1> QED
  BY <1>1, <1>2, <1>3, <1>4, <1>5, <1>6, <1>7, <1>8, <1>9, <1>10, <1>11, <1>12, <1>13, <1>14,
     <1>15, <1>16, <1>17, <1>18, <1>19, Zenon DEF Next

LEMMA NextEdgeFacts ==
  ASSUME Shape, i \in Edges, NEW to, NextEdge(to)
  PROVE  /\ i' \in Edges
         /\ \/ i = Len(orig) /\ pc' = to /\ i' = 1
            \/ i # Len(orig) /\ pc' = pc /\ i' = i + 1
<1>1. Len(orig) = 2 * Len(BarOf) /\ Edges = 1 .. 2 * Len(BarOf) /\ Len(BarOf) \in Nat \ {0}
  BY LenOrig, WindowFacts, Zenon
<1>2. \/ i = Len(orig) /\ pc' = to /\ i' = 1
      \/ i # Len(orig) /\ pc' = pc /\ i' = i + 1
  BY Zenon DEF NextEdge
<1> QED
  BY <1>1, <1>2

\* A window write that is reported to have succeeded, did.
LEMMA BeginFacts ==
  ASSUME IInv, Begin
  PROVE  \/ pc' = "done" /\ status' = FALSE
         \/ pc' = "allocate" /\ status' = status /\ link = "up" /\ DefaultSet'
<1>1. PICK ok \in BOOLEAN :
        /\ ApertureSet(Default, 0, Size, ok)
        /\ IF ok THEN pc' = "allocate" /\ UNCHANGED status ELSE Return(FALSE)
  BY Zenon DEF Begin, SetDefault
<1>2. 0 \in 0 .. Word - 1 /\ Size \in Nat /\ Default \in Windows
  BY ConstantsAssumption, WindowFacts
<1>3. /\ reg' \in Regs /\ map' \in Maps /\ faults' \in 0 .. MaxFaults
      /\ \A v \in Windows \ {Default} : reg'[v].target \in {reg[v].target, 0}
      /\ ok => link = "up" /\ reg'[Default] = [target |-> 0, size |-> Size]
  <2>1. Shape
    BY Zenon DEF IInv
  <2> QED
    BY <1>1, <1>2, <2>1, ApertureSetFacts, Zenon
<1> QED
  BY <1>1, <1>3, Zenon DEF Return, DefaultSet

LEMMA ConfigureFacts ==
  ASSUME IInv, Configure
  PROVE  /\ i \in Windows /\ Target(i) \in buf
         /\ \A w \in Windows \ {i} : reg'[w].target \in {reg[w].target, Target(i)}
         /\ \/ pc' = "done" /\ status' = FALSE
            \/ /\ status' = status /\ reg'[i].target = Target(i)
               /\ \/ i = Len(BarOf) /\ pc' = "save" /\ i' = 1
                  \/ i # Len(BarOf) /\ pc' = "configure" /\ i' = i + 1
<1>1. Shape /\ Flow /\ BufInv /\ pc = "configure"
  BY Zenon DEF IInv, Configure
<1>2. i \in Windows
  BY <1>1, Zenon DEF Flow
<1>3. Target(i) \in buf
  BY <1>1, <1>2, TargetFacts, Zenon DEF BufInv
<1>4. Target(i) \in 0 .. Word - 1 /\ EdgeCount \in Nat
  <2>1. Target(i) \in Blocks
    BY <1>1, <1>3, Zenon DEF Shape
  <2> QED
    BY <2>1, ConstantsAssumption DEF Blocks, EdgeCount
<1>5. PICK ok \in BOOLEAN :
        /\ ApertureSet(i, Target(i), EdgeCount, ok)
        /\ IF ~ ok THEN Return(FALSE) /\ UNCHANGED i
           ELSE /\ pc' = IF i = Len(BarOf) THEN "save" ELSE pc
                /\ i' = IF i = Len(BarOf) THEN 1 ELSE i + 1
                /\ UNCHANGED status
  BY Zenon DEF Configure
<1>6. /\ reg' \in Regs /\ map' \in Maps /\ faults' \in 0 .. MaxFaults
      /\ \A w \in Windows \ {i} : reg'[w].target \in {reg[w].target, Target(i)}
      /\ ok => link = "up" /\ reg'[i] = [target |-> Target(i), size |-> EdgeCount]
  BY <1>1, <1>2, <1>4, <1>5, ApertureSetFacts, Zenon
<1>7. ok => reg'[i].target = Target(i)
  BY <1>6
<1> QED
  BY <1>1, <1>2, <1>3, <1>5, <1>6, <1>7, Zenon DEF Return

LEMMA FlowSteps ==
  ASSUME IInv, [Next]_vars
  PROVE  Flow'
<1> USE DEF hardware, edges, copy, Passes, Return
<1>0. Shape /\ Flow
  BY Zenon DEF IInv
<1>1. CASE Discover
  BY <1>0, <1>1, Zenon DEF Discover, Flow
<1>2. CASE \E k \in Kinds : Start(k)
  BY <1>0, <1>2 DEF Start, Flow, Steps
<1>3. CASE Begin
  <2>1. pc = "begin" /\ UNCHANGED <<link, kind, i, moved>>
    BY <1>3, Zenon DEF Begin
  <2>2. \/ pc' = "done" /\ status' = FALSE
        \/ pc' = "allocate" /\ status' = status /\ link = "up"
    BY <1>3, BeginFacts, Zenon
  <2> QED
    BY <1>0, <2>1, <2>2 DEF Flow, Steps
<1>4. CASE End
  BY <1>0, <1>4, Zenon DEF End, Flow, Steps
<1>5. CASE AllocateRanges
  <2>1. 1 \in Windows
    BY SMTT(60), WindowFacts
  <2> QED
    BY <1>0, <1>5, <2>1 DEF AllocateRanges, Flow, Steps
<1>6. CASE Configure
  <2>1. 1 \in Edges /\ (i \in Windows /\ i # Len(BarOf) => i + 1 \in Windows)
    BY WindowFacts
  <2> QED
    BY <1>0, <1>6, <2>1, ConfigureFacts DEF Configure, Flow, Steps
<1>7. CASE Save
  <2>1. i \in Edges
    BY <1>0, <1>7, Zenon DEF Save, Flow
  <2>2. NextEdge("write") => i' \in Edges /\ pc' \in {pc, "write"}
    BY <1>0, <2>1, NextEdgeFacts, Zenon
  <2> QED
    BY <1>0, <1>7, <2>1, <2>2, Zenon DEF Save, Flow, Steps
<1>8. CASE Write
  <2>1. i \in Edges /\ 1 \in Edges
    BY <1>0, <1>8, WindowFacts DEF Write, Flow
  <2>2. NextEdge("check") => i' \in Edges /\ pc' \in {pc, "check"}
    BY <1>0, <2>1, NextEdgeFacts, Zenon
  <2> QED
    BY <1>0, <1>8, <2>1, <2>2, Zenon DEF Write, Flow, Steps, ToRestore
<1>9. CASE Check
  <2>1. i \in Edges /\ 1 \in Edges
    BY <1>0, <1>9, WindowFacts DEF Check, Flow
  <2>2. NextEdge("restore") =>
          /\ i' \in Edges
          /\ (i = Len(orig) /\ pc' = "restore") \/ (i # Len(orig) /\ pc' = pc)
    BY <1>0, <2>1, NextEdgeFacts, Zenon
  <2> QED
    BY <1>0, <1>9, <2>1, <2>2, Zenon DEF Check, Flow, Steps, ToRestore
<1>10. CASE Restore
  <2>1. i \in Edges
    BY <1>0, <1>10, Zenon DEF Restore, Flow
  <2>2. i' \in Edges /\ pc' \in {pc, "done"}
    BY <1>0, <1>10, <2>1, NextEdgeFacts, Zenon DEF Restore
  <2> QED
    BY <1>0, <1>10, <2>1, <2>2, Zenon DEF Restore, Flow, Steps
<1>11. CASE AllocateCopy \/ Prepare \/ Verify
  BY <1>0, <1>11, Zenon DEF AllocateCopy, Prepare, Verify, Flow, Steps
<1>12. CASE Transfer
  BY <1>0, <1>12, ZenonT(60) DEF Transfer, Flow, Steps
<1>13. CASE AllocateUser \/ MoveWindow \/ Access
  BY SMTT(60), <1>0, <1>13 DEF AllocateUser, MoveWindow, Access, Flow, Steps
<1>14. CASE ExampleReads \/ AssertReset \/ DeassertReset \/ ResetFails
  BY <1>0, <1>14 DEF ExampleReads, AssertReset, DeassertReset, ResetFails, Flow, Steps
<1>15. CASE UNCHANGED vars
  BY <1>0, <1>15, ZenonT(60) DEF vars, Flow
<1> QED
  BY <1>1, <1>2, <1>3, <1>4, <1>5, <1>6, <1>7, <1>8, <1>9, <1>10, <1>11, <1>12, <1>13, <1>14,
     <1>15, ZenonT(60) DEF Next

\* The default window stays where begin_testcase put it.
LEMMA DefaultSteps ==
  ASSUME IInv, [Next]_vars
  PROVE  DefaultInv'
<1> USE DEF hardware, edges, copy, Return
<1>0. DefaultInv
  BY Zenon DEF IInv
<1>1. CASE UNCHANGED reg /\ (pc' \in {"allocate", "copy", "access"} =>
             (pc' = pc \/ pc = "allocate") /\ (custom => custom'))
  BY <1>0, <1>1, Zenon DEF DefaultInv, DefaultSet
<1>2. CASE pc' \notin {"allocate", "copy", "access"}
  BY <1>2, Zenon DEF DefaultInv
<1>3. CASE Begin
  <2>1. pc' = "done" \/ (pc' = "allocate" /\ DefaultSet')
    BY <1>3, BeginFacts, Zenon
  <2> QED
    BY <2>1, Zenon DEF DefaultInv
<1>4. CASE MoveWindow
  BY <1>4, Zenon DEF MoveWindow, DefaultInv
<1>5. CASE Configure
  <2>1. pc' \in {"done", "save", "configure"}
    BY <1>5, ConfigureFacts, ZenonT(60)
  <2> QED
    BY <1>2, <2>1, Zenon
<1>6. CASE Discover \/ AllocateCopy \/ AllocateUser \/ UNCHANGED vars
  BY <1>1, <1>6 DEF Discover, AllocateCopy, AllocateUser, vars
<1>7. CASE Prepare \/ Transfer
  BY <1>1, <1>7, Zenon DEF Prepare, Transfer
<1>8. CASE (\E k \in Kinds : Start(k)) \/ End \/ AllocateRanges \/ Verify \/ Access
  BY <1>2, <1>8, Zenon DEF Start, End, AllocateRanges, Verify, Access
<1>9. CASE Save \/ Write \/ Check \/ Restore
  BY <1>2, <1>9, Zenon DEF Save, Write, Check, Restore, NextEdge, ToRestore
<1>10. CASE ExampleReads \/ AssertReset \/ DeassertReset \/ ResetFails
  BY <1>2, <1>10, Zenon DEF ExampleReads, AssertReset, DeassertReset, ResetFails
<1> QED
  BY <1>3, <1>4, <1>5, <1>6, <1>7, <1>8, <1>9, <1>10, Zenon DEF Next

\* The steps that leave a buffer, or a window's registers, to another one.
LEMMA BufSteps ==
  ASSUME IInv, [Next]_vars
  PROVE  BufInv'
<1> USE DEF hardware, edges, copy, Return, Passes
<1>0. BufInv
  BY Zenon DEF IInv
<1>1. CASE /\ UNCHANGED buf
           /\ pc' \in Passes \cup {"configure"} => pc \in Passes \cup {"configure"}
           /\ pc' = "access" => pc = "access"
  BY <1>0, <1>1, Zenon DEF BufInv
<1>2. CASE pc' \notin Passes \cup {"configure", "access"}
  BY <1>2, Zenon DEF BufInv
<1>3. CASE AllocateRanges
  <2>1. pc' = "done" \/ (pc' = "configure" /\
          \E o \in Blocks : o + Ranges <= Size /\ buf' = o .. o + Ranges - 1)
    BY <1>3, Zenon DEF AllocateRanges, Ranges
  <2> QED
    BY <2>1, Zenon DEF BufInv
<1>4. CASE AllocateUser
  <2>1. \E d \in Blocks : d + 1 \in Blocks /\ buf' = {d, d + 1}
    BY <1>4, ConstantsAssumption, Zenon DEF AllocateUser, Blocks
  <2> QED
    BY <1>4, <2>1, Zenon DEF AllocateUser, BufInv
<1>5. CASE Configure
  <2>1. pc = "configure" /\ pc' \in {"done", "save", "configure"} /\ UNCHANGED buf
    BY <1>5, ConfigureFacts, Zenon DEF Configure
  <2> QED
    BY <1>1, <2>1, Zenon
<1>6. CASE Save \/ Write \/ Check \/ Restore
  BY <1>1, <1>6, Zenon DEF Save, Write, Check, Restore, NextEdge, ToRestore
<1>7. CASE Discover \/ MoveWindow \/ UNCHANGED vars
  BY <1>1, <1>7, Zenon DEF Discover, MoveWindow, vars
<1>8. CASE (\E k \in Kinds : Start(k)) \/ End \/ Verify \/ Access
  BY <1>2, <1>8, Zenon DEF Start, End, Verify, Access
<1>9. CASE Begin
  <2>1. pc' \in {"done", "allocate"}
    BY <1>9, BeginFacts, Zenon
  <2> QED
    BY <1>2, <2>1, Zenon
<1>10. CASE AllocateCopy \/ Prepare \/ Transfer
  BY <1>2, <1>10, Zenon DEF AllocateCopy, Prepare, Transfer
<1>11. CASE ExampleReads \/ AssertReset \/ DeassertReset \/ ResetFails
  BY <1>2, <1>11, Zenon DEF ExampleReads, AssertReset, DeassertReset, ResetFails
<1> QED
  BY <1>3, <1>4, <1>5, <1>6, <1>7, <1>8, <1>9, <1>10, <1>11, Zenon DEF Next

LEMMA RegSteps ==
  ASSUME IInv, [Next]_vars
  PROVE  RegInv'
<1> USE DEF hardware, edges, copy, Return, Passes
<1>0. RegInv /\ Flow /\ Len(BarOf) \in Nat /\ Windows = 1 .. Len(BarOf)
  BY WindowFacts, Zenon DEF IInv
<1>1. CASE UNCHANGED <<reg, buf>> /\ pc \in Passes /\ (pc' \in Passes \cup {"done"})
  <2>1. Targets' = Targets
    BY <1>1, Zenon DEF Targets, Target
  <2> QED
    BY <1>0, <1>1, <2>1, Zenon DEF RegInv
<1>2. CASE pc' \notin Passes \cup {"configure"}
  BY <1>2, Zenon DEF RegInv
<1>3. CASE AllocateRanges
  <2>1. pc' \in {"configure", "done"} /\ i' = 1
    BY <1>0, <1>3, Zenon DEF AllocateRanges, Flow
  <2>2. \A w \in Windows : ~ (w < 1)
    BY <1>0
  <2> QED
    BY <2>1, <2>2, Zenon DEF RegInv
<1>4. CASE Configure
  <2>1. Targets' = Targets /\ pc = "configure"
    BY <1>4, Zenon DEF Configure, Targets, Target
  <2>2. i \in Windows /\ Target(i) \in Targets
    BY <1>4, ConfigureFacts, Zenon DEF Targets
  <2>3. ASSUME NEW w \in Windows, w < i PROVE reg'[w].target \in Targets
    <3>1. w # i
      BY <1>0, <2>2, <2>3
    <3>2. reg'[w].target \in {reg[w].target, Target(i)}
      BY <1>4, <3>1, ConfigureFacts, Zenon
    <3> QED
      BY <1>0, <2>1, <2>2, <2>3, <3>2, Zenon DEF RegInv
  <2>4. \/ pc' = "done"
        \/ /\ reg'[i].target \in Targets
           /\ \/ i = Len(BarOf) /\ pc' = "save" /\ i' = 1
              \/ i # Len(BarOf) /\ pc' = "configure" /\ i' = i + 1
    BY <1>4, <2>2, ConfigureFacts, Zenon
  <2>5. CASE pc' = "done"
    BY <1>2, <2>5, Zenon
  <2>6. CASE reg'[i].target \in Targets /\ i = Len(BarOf) /\ pc' = "save"
    <3>1. \A w \in Windows : w < i \/ w = i
      BY <1>0, <2>6
    <3>2. \A w \in Windows : reg'[w].target \in Targets
      BY <2>3, <2>6, <3>1, Zenon
    <3> QED
      BY <2>1, <2>6, <3>2, Zenon DEF RegInv
  <2>7. CASE reg'[i].target \in Targets /\ pc' = "configure" /\ i' = i + 1
    <3>1. \A w \in Windows : w < i + 1 => w < i \/ w = i
      BY <1>0, <2>2
    <3>2. \A w \in Windows : w < i' => reg'[w].target \in Targets
      BY <2>3, <2>7, <3>1, Zenon
    <3> QED
      BY <2>1, <2>7, <3>2, Zenon DEF RegInv
  <2> QED
    BY <2>4, <2>5, <2>6, <2>7, Zenon
<1>5. CASE Save \/ Write \/ Check \/ Restore
  BY <1>1, <1>5, Zenon DEF Save, Write, Check, Restore, NextEdge, ToRestore
<1>6. CASE UNCHANGED vars
  <2>1. UNCHANGED <<pc, i, reg, buf>>
    BY <1>6, Zenon DEF vars
  <2>2. Targets' = Targets
    BY <2>1, Zenon DEF Targets, Target
  <2> QED
    BY <1>0, <2>1, <2>2, Zenon DEF RegInv
<1>7. CASE Discover \/ MoveWindow \/ (\E k \in Kinds : Start(k)) \/ End \/ Verify \/ Access
  BY <1>2, <1>7, Zenon DEF Discover, MoveWindow, Start, End, Verify, Access
<1>8. CASE Begin
  <2>1. pc' \in {"done", "allocate"}
    BY <1>8, BeginFacts, Zenon
  <2> QED
    BY <1>2, <2>1, Zenon
<1>9. CASE AllocateCopy \/ Prepare \/ Transfer \/ AllocateUser
  BY <1>2, <1>9, Zenon DEF AllocateCopy, Prepare, Transfer, AllocateUser
<1>10. CASE ExampleReads \/ AssertReset \/ DeassertReset \/ ResetFails
  BY <1>2, <1>10, Zenon DEF ExampleReads, AssertReset, DeassertReset, ResetFails
<1> QED
  BY <1>3, <1>4, <1>5, <1>6, <1>7, <1>8, <1>9, <1>10, Zenon DEF Next

-----------------------------------------------------------------------------
\* The passes over the edges.
LEMMA SeenSame ==
  ASSUME Shape, Same, NEW w \in Windows, NEW a \in Nat
  PROVE  Seen(mem, w, a) = Seen(before, w, a)
<1>1. Lands(w, a) \in Blocks \cup {Nowhere}
  BY LandsFacts, Zenon
<1> QED
  BY <1>1, Zenon DEF Seen, Same

LEMMA EdgesKept ==
  ASSUME UNCHANGED <<link, reg, map>>
  PROVE  /\ \A w, a : Lands(w, a)' = Lands(w, a)
         /\ \A e : Place(e)' = Place(e)
         /\ mem' = mem => \A e : Matched(e)' <=> Matched(e)
         /\ before' = before =>
              /\ \A w, a : Seen(before, w, a)' = Seen(before, w, a)
              /\ \A e : orig'[e] = orig[e] => (Original(e)' <=> Original(e))
<1>1. \A w, a : Lands(w, a)' = Lands(w, a)
  BY Zenon DEF Lands
<1>2. \A e : Place(e)' = Place(e)
  BY <1>1, Zenon DEF Place
<1>3. ASSUME mem' = mem PROVE \A e : Matched(e)' <=> Matched(e)
  BY <1>1, <1>3, Zenon DEF Matched, Seen
<1>4. ASSUME before' = before
      PROVE  \A w, a : Seen(before, w, a)' = Seen(before, w, a)
  BY <1>1, <1>4, Zenon DEF Seen
<1>5. ASSUME before' = before, NEW e, orig'[e] = orig[e]
      PROVE  Original(e)' <=> Original(e)
  BY <1>4, <1>5, Zenon DEF Original
<1> QED
  BY <1>1, <1>2, <1>3, <1>4, <1>5, Zenon

\* An edge is written: the block it lands on takes the value, and no other
\* block of memory changes.
LEMMA EdgeStored ==
  ASSUME Shape, NEW e \in Edges, NEW d \in Data, NEW b \in Blocks
  PROVE  Stored(WindowOf(e), {EdgeOf(e)}, d)[Dmem(b)] =
           IF Place(e) = b THEN d ELSE mem[Dmem(b)]
<1>1. WindowOf(e) \in Windows /\ EdgeOf(e) \in Nat
  BY EdgeFacts
<1>2. Place(e) \in Blocks \cup {Nowhere}
  BY <1>1, LandsFacts, Zenon DEF Place
<1>3. Dmem(b) \in Places /\ (Dmem(b) = Dmem(Place(e)) <=> Place(e) = b)
  BY <1>2, PlaceFacts, Zenon
<1> QED
  BY <1>3, Zenon DEF Stored, Place

LEMMA SaveEdges == ASSUME IInv, Save PROVE EdgeInv'
<1>1. /\ Shape /\ Flow /\ EdgeInv /\ pc = "save" /\ kind = "aperture" /\ i \in Edges
  BY Zenon DEF IInv, Save, Flow, Passes
<1>2. Same /\ \A e \in Edges : e < i => Original(e)
  BY <1>1, Zenon DEF EdgeInv
<1>3. UNCHANGED <<link, reg, map, mem, before, kind, written>>
  BY Zenon DEF Save, hardware
<1>4. Same'
  BY <1>2, <1>3, Zenon DEF Same
<1>5. CASE pc' = "done"
  BY <1>4, <1>5, Zenon DEF EdgeInv
<1>6. CASE NextEdge("write") /\ orig' = [orig EXCEPT ![i] = Seen(mem, WindowOf(i), EdgeOf(i))]
  <2>1. ASSUME NEW e \in Edges, e = i PROVE Original(e)'
    <3>1. WindowOf(i) \in Windows /\ EdgeOf(i) \in Nat
      BY <1>1, EdgeFacts
    <3>2. Seen(mem, WindowOf(i), EdgeOf(i)) = Seen(before, WindowOf(i), EdgeOf(i))
      BY <1>1, <1>2, <3>1, SeenSame, Zenon
    <3>3. orig'[i] = Seen(before, WindowOf(i), EdgeOf(i))
      BY <1>1, <1>6, <3>2, Zenon DEF Shape
    <3>4. \A w, a : Seen(before, w, a)' = Seen(before, w, a)
      BY <1>3, EdgesKept, Zenon
    <3> QED
      BY <2>1, <3>3, <3>4, Zenon DEF Original
  <2>2. ASSUME NEW e \in Edges, e < i PROVE Original(e)'
    <3>1. orig'[e] = orig[e]
      <4>1. e # i
        BY <1>1, <2>2, WindowFacts
      <4> QED
        BY <1>1, <1>6, <4>1, Zenon DEF Shape
    <3> QED
      BY <1>2, <1>3, <2>2, <3>1, EdgesKept, Zenon
  <2>3. \/ i = Len(orig) /\ pc' = "write" /\ i' = 1
        \/ pc' = pc /\ i' = i + 1
    BY <1>1, <1>6, NextEdgeFacts, Zenon
  <2>4. CASE i = Len(orig) /\ pc' = "write"
    <3>1. \A e \in Edges : e < i \/ e = i
      BY <1>1, <2>4, LenOrig, WindowFacts
    <3>2. \A e \in Edges : Original(e)'
      BY <2>1, <2>2, <3>1, Zenon
    <3>3. Only(written)'
      BY <1>4, Zenon DEF Only, Same
    <3> QED
      BY <2>4, <3>2, <3>3, Zenon DEF EdgeInv
  <2>5. CASE pc' = pc /\ i' = i + 1
    <3>1. \A e \in Edges : e < i' => e < i \/ e = i
      BY <1>1, <2>5, WindowFacts
    <3>2. \A e \in Edges : e < i' => Original(e)'
      BY <2>1, <2>2, <3>1, Zenon
    <3> QED
      BY <1>1, <1>4, <2>5, <3>2, Zenon DEF EdgeInv
  <2> QED
    BY <2>3, <2>4, <2>5, Zenon
<1> QED
  BY <1>5, <1>6, Zenon DEF Save, Return

LEMMA WriteEdges == ASSUME IInv, Write PROVE EdgeInv'
<1>1. Shape /\ EdgeInv /\ pc = "write" /\ kind = "aperture" /\ i \in Edges
  BY Zenon DEF IInv, Write, Flow, Passes
<1>2. Only(written) /\ \A e \in Edges : Original(e)
  BY <1>1, Zenon DEF EdgeInv
<1>3. UNCHANGED <<link, reg, map, before, kind, orig>>
  BY Zenon DEF Write, hardware
<1>4. (\A e \in Edges : Original(e)') /\ \A e : Place(e)' = Place(e)
  BY <1>2, <1>3, EdgesKept, Zenon
<1>5. CASE /\ mem' = Stored(WindowOf(i), {EdgeOf(i)}, Pattern(WindowOf(i)))
           /\ written' = written \cup {i} /\ NextEdge("check")
  <2>1. Only(written)'
    <3> SUFFICES ASSUME NEW b \in Blocks, mem'[Dmem(b)] # before[Dmem(b)]
                 PROVE  \E e \in written \cup {i} : Place(e) = b
      BY <1>3, <1>4, <1>5, Zenon DEF Only
    <3>1. mem'[Dmem(b)] = IF Place(i) = b THEN Pattern(WindowOf(i)) ELSE mem[Dmem(b)]
      <4>1. Pattern(WindowOf(i)) \in Data
        BY <1>1, EdgeFacts, DataFacts, Zenon
      <4> QED
        BY <1>1, <1>5, <4>1, EdgeStored, Zenon
    <3> QED
      BY <1>2, <3>1, Zenon DEF Only
  <2>2. \/ pc' = "check" /\ i' = 1
        \/ pc' = "write"
    BY <1>1, <1>5, NextEdgeFacts, Zenon
  <2>3. \A e \in Edges : ~ (e < 1)
    BY WindowFacts
  <2> QED
    BY <1>4, <2>1, <2>2, <2>3, Zenon DEF EdgeInv
<1>6. CASE ToRestore /\ UNCHANGED <<mem, written>>
  <2>1. pc' = "restore" /\ i' = 1
    BY <1>6, Zenon DEF ToRestore
  <2>2. {e \in written : e >= 1} = written
    <3>1. written \subseteq Edges
      BY <1>1, Zenon DEF Shape
    <3>2. \A e \in Edges : e >= 1
      BY WindowFacts
    <3> QED
      BY <3>1, <3>2, Zenon
  <2>3. Only({e \in written : e >= i})'
    BY <1>2, <1>3, <1>4, <1>6, <2>1, <2>2, Zenon DEF Only
  <2> QED
    BY <1>4, <2>1, <2>3, Zenon DEF EdgeInv
<1> QED
  BY <1>5, <1>6, Zenon DEF Write

\* An edge matches: it lands, and on the pattern of its own window.
LEMMA CheckFacts ==
  ASSUME IInv, Check
  PROVE  /\ UNCHANGED <<link, reg, map, mem, before, kind, orig, written>>
         /\ pc = "check" /\ kind = "aperture" /\ i \in Edges
         /\ \/ pc' = "restore" /\ i' = 1 /\ status' = FALSE
            \/ Matched(i) /\ i = Len(orig) /\ pc' = "restore" /\ i' = 1
            \/ Matched(i) /\ pc' = "check" /\ i' = i + 1 /\ status' = FALSE
<1>1. pc = "check" /\ kind = "aperture" /\ i \in Edges /\ Shape
  BY Zenon DEF IInv, Check, Flow, Passes
<1>2. UNCHANGED <<link, reg, map, mem, before, kind, orig, written>>
  BY Zenon DEF Check, hardware, edges
<1>3. CASE ToRestore
  BY <1>1, <1>2, <1>3, Zenon DEF ToRestore
<1>4. CASE Matches /\ NextEdge("restore") /\ status' = (i = Len(orig))
  <2>1. Matched(i)
    BY <1>4, Zenon DEF Matches, Matched
  <2>2. \/ i = Len(orig) /\ pc' = "restore" /\ i' = 1
        \/ i # Len(orig) /\ pc' = pc /\ i' = i + 1
    BY <1>1, <1>4, NextEdgeFacts, Zenon
  <2> QED
    BY <1>1, <1>2, <1>4, <2>1, <2>2, Zenon
<1> QED
  BY <1>3, <1>4, Zenon DEF Check

LEMMA CheckEdges == ASSUME IInv, Check PROVE EdgeInv'
<1>1. /\ UNCHANGED <<link, reg, map, mem, before, kind, orig, written>>
      /\ pc = "check" /\ kind = "aperture" /\ i \in Edges
      /\ \/ pc' = "restore" /\ i' = 1
         \/ Matched(i) /\ pc' = "check" /\ i' = i + 1
  BY CheckFacts, Zenon
<1>2. Shape /\ Only(written) /\ (\A e \in Edges : Original(e))
      /\ (\A e \in Edges : e < i => Matched(e))
  BY <1>1, Zenon DEF IInv, EdgeInv
<1>3. (\A e \in Edges : Original(e)') /\ (\A e : Place(e)' = Place(e))
      /\ (\A e : Matched(e)' <=> Matched(e))
  BY <1>1, <1>2, EdgesKept, Zenon
<1>4. CASE pc' = "restore" /\ i' = 1
  <2>1. {e \in written : e >= 1} = written
    <3>1. written \subseteq Edges
      BY <1>2, Zenon DEF Shape
    <3>2. \A e \in Edges : e >= 1
      BY WindowFacts
    <3> QED
      BY <3>1, <3>2, Zenon
  <2>2. Only({e \in written : e >= i})'
    BY <1>1, <1>2, <1>3, <1>4, <2>1, Zenon DEF Only
  <2> QED
    BY <1>3, <1>4, <2>2, Zenon DEF EdgeInv
<1>5. CASE Matched(i) /\ pc' = "check" /\ i' = i + 1
  <2>1. \A e \in Edges : e < i' => e < i \/ e = i
    BY <1>1, <1>5, WindowFacts
  <2>2. \A e \in Edges : e < i' => Matched(e)'
    BY <1>2, <1>3, <1>5, <2>1, Zenon
  <2>3. Only(written)'
    BY <1>1, <1>2, <1>3, Zenon DEF Only
  <2> QED
    BY <1>3, <1>5, <2>2, <2>3, Zenon DEF EdgeInv
<1> QED
  BY <1>1, <1>4, <1>5, Zenon

\* Every edge is put back to what its block held, so an alias of an edge
\* restored before is left as it should be.
LEMMA RestoreEdges == ASSUME IInv, Restore PROVE EdgeInv'
<1>1. Shape /\ EdgeInv /\ pc = "restore" /\ kind = "aperture" /\ i \in Edges
  BY Zenon DEF IInv, Restore, Flow, Passes
<1>2. Only({e \in written : e >= i}) /\ \A e \in Edges : Original(e)
  BY <1>1, Zenon DEF EdgeInv
<1>3. UNCHANGED <<link, reg, map, before, kind, orig, written>>
  BY Zenon DEF Restore, hardware, edges
<1>4. (\A e \in Edges : Original(e)') /\ \A e : Place(e)' = Place(e)
  BY <1>2, <1>3, EdgesKept, Zenon
<1>5. ASSUME NEW b \in Blocks, mem'[Dmem(b)] # before[Dmem(b)]
      PROVE  \E e \in written : e >= i /\ e # i /\ Place(e) = b
  <2>1. CASE i \in written
    <3>1. orig[i] \in Data
      BY <1>1, Zenon DEF Shape
    <3>2. mem'[Dmem(b)] = IF Place(i) = b THEN orig[i] ELSE mem[Dmem(b)]
      BY <1>1, <2>1, <3>1, EdgeStored, Zenon DEF Restore, Restores
    <3>3. Place(i) = b => orig[i] = before[Dmem(b)]
      <4>1. orig[i] = Seen(before, WindowOf(i), EdgeOf(i)) /\ b # Nowhere
        BY <1>1, <1>2, PlaceFacts, Zenon DEF Original
      <4> QED
        BY <4>1, Zenon DEF Seen, Place
    <3>4. Place(i) # b /\ mem[Dmem(b)] # before[Dmem(b)]
      BY <1>5, <3>2, <3>3, Zenon
    <3> QED
      BY <1>2, <3>4, Zenon DEF Only
  <2>2. CASE i \notin written
    <3>1. mem' = mem
      BY <2>2, Zenon DEF Restore, Restores
    <3> QED
      BY <1>2, <1>5, <2>2, <3>1, Zenon DEF Only
  <2> QED
    BY <2>1, <2>2, Zenon
<1>6. \/ i = Len(orig) /\ pc' = "done" /\ i' = 1
      \/ pc' = "restore" /\ i' = i + 1
  BY <1>1, NextEdgeFacts, Zenon DEF Restore
<1>7. written \subseteq Edges
  BY <1>1, Zenon DEF Shape
<1>8. CASE i = Len(orig) /\ pc' = "done"
  <2>1. \A e \in Edges : ~ (e >= i /\ e # i)
    BY <1>1, <1>8, LenOrig, WindowFacts
  <2>2. Same'
    BY <1>3, <1>5, <1>7, <2>1, Zenon DEF Same
  <2> QED
    BY <1>8, <2>2, Zenon DEF EdgeInv
<1>9. CASE pc' = "restore" /\ i' = i + 1
  <2>1. \A e \in Edges : e >= i /\ e # i => e >= i'
    BY <1>1, <1>9, WindowFacts
  <2>2. Only({e \in written : e >= i})'
    BY <1>3, <1>4, <1>5, <1>7, <2>1, Zenon DEF Only
  <2> QED
    BY <1>4, <1>9, <2>2, Zenon DEF EdgeInv
<1> QED
  BY <1>6, <1>8, <1>9, Zenon

LEMMA EdgeSteps ==
  ASSUME IInv, [Next]_vars
  PROVE  EdgeInv'
<1> USE DEF hardware, edges, copy, Return
<1>0. EdgeInv /\ Flow
  BY Zenon DEF IInv
<1>1. CASE UNCHANGED <<mem, before, kind>> /\ pc \in {"begin", "allocate", "configure"}
           /\ pc' \in {"allocate", "configure", "done"}
  <2>1. kind = "aperture" => Same
    BY <1>0, <1>1, Zenon DEF EdgeInv
  <2>2. Same => Same'
    BY <1>1, Zenon DEF Same
  <2> QED
    BY <1>1, <2>1, <2>2, Zenon DEF EdgeInv
<1>2. CASE pc' = "idle" \/ (kind' = kind /\ kind # "aperture")
  BY <1>2, Zenon DEF EdgeInv
<1>3. CASE \E k \in Kinds : Start(k)
  <2>1. pc' = "begin" /\ before' = mem /\ mem' = mem
    BY <1>3, Zenon DEF Start
  <2>2. Same'
    BY <2>1, Zenon DEF Same
  <2> QED
    BY <2>1, <2>2, Zenon DEF EdgeInv
<1>4. CASE Begin
  <2>1. pc = "begin" /\ UNCHANGED <<mem, before, kind>>
    BY <1>4, Zenon DEF Begin
  <2>2. pc' \in {"allocate", "done"}
    BY <1>4, BeginFacts, Zenon
  <2> QED
    BY <1>1, <2>1, <2>2, Zenon
<1>5. CASE AllocateRanges
  BY <1>1, <1>5, Zenon DEF AllocateRanges
<1>6. CASE Configure
  <2>1. pc = "configure" /\ UNCHANGED <<mem, before, kind>>
    BY <1>6, Zenon DEF Configure
  <2>2. pc' \in {"configure", "done"} \/ (pc' = "save" /\ i' = 1)
    BY <1>6, ConfigureFacts, Zenon
  <2>3. CASE pc' = "save" /\ i' = 1
    <3>1. \A e \in Edges : ~ (e < 1)
      BY WindowFacts
    <3>2. kind = "aperture" => Same
      BY <1>0, <2>1, Zenon DEF EdgeInv
    <3>3. Same => Same'
      BY <2>1, Zenon DEF Same
    <3> QED
      BY <2>1, <2>3, <3>1, <3>2, <3>3, Zenon DEF EdgeInv
  <2> QED
    BY <1>1, <2>1, <2>2, <2>3, Zenon
<1>7. CASE Save \/ Write \/ Check \/ Restore
  BY <1>7, SaveEdges, WriteEdges, CheckEdges, RestoreEdges, Zenon
<1>8. CASE Discover \/ End
  BY <1>2, <1>8, Zenon DEF Discover, End
<1>9. CASE AllocateCopy \/ Prepare \/ Transfer \/ Verify
  <2>1. kind' = kind /\ kind \in CpCopies \cup DmaCopies
    BY <1>0, <1>9, Zenon DEF AllocateCopy, Prepare, Transfer, Verify, Flow
  <2> QED
    BY <1>2, <2>1, Zenon DEF CpCopies, DmaCopies
<1>10. CASE AllocateUser \/ MoveWindow \/ Access
  <2>1. kind' = kind /\ kind = "user"
    BY <1>0, <1>10, Zenon DEF AllocateUser, MoveWindow, Access, Flow
  <2> QED
    BY <1>2, <2>1, Zenon
<1>11. CASE ExampleReads \/ AssertReset \/ DeassertReset \/ ResetFails
  <2>1. kind' = kind /\ kind = "example"
    BY <1>0, <1>11, Zenon DEF ExampleReads, AssertReset, DeassertReset, ResetFails, Flow
  <2> QED
    BY <1>2, <2>1, Zenon
<1>12. CASE UNCHANGED vars
  <2>1. UNCHANGED <<link, reg, map, mem, before, kind, orig, written, pc, i>>
    BY <1>12, Zenon DEF vars
  <2>2. (\A e : Place(e)' = Place(e)) /\ (\A e : Matched(e)' <=> Matched(e))
        /\ (\A e : Original(e)' <=> Original(e))
    BY <2>1, EdgesKept, Zenon
  <2> QED
    BY <1>0, <2>1, <2>2, Zenon DEF EdgeInv, Same, Only
<1> QED
  BY <1>3, <1>4, <1>5, <1>6, <1>7, <1>8, <1>9, <1>10, <1>11, <1>12, Zenon DEF Next

\* A pattern seen through every edge: no two windows share a block.
LEMMA AllMatched ==
  ASSUME Shape, \A e \in Edges : Matched(e)
  PROVE  Distinct
<1>1. ASSUME NEW w \in Windows
      PROVE  /\ Lands(w, 0) # Nowhere /\ Lands(w, 0) = map[w] + 0
             /\ mem[Dmem(Lands(w, 0))] = Pattern(w)
  <2>1. PICK e \in Edges : WindowOf(e) = w /\ EdgeOf(e) = 0
    BY EdgeFacts, Zenon
  <2>2. Seen(mem, w, 0) = Pattern(w) /\ Pattern(w) # Ones
    BY <2>1, DataFacts, Zenon DEF Matched
  <2>3. Lands(w, 0) # Nowhere /\ mem[Dmem(Lands(w, 0))] = Pattern(w)
    BY <2>2, Zenon DEF Seen
  <2>4. 0 \in Nat
    BY Zenon
  <2> QED
    BY <2>3, <2>4, LandsFacts, Zenon
<1>2. ASSUME NEW v \in Windows, NEW w \in Windows, map[v] = map[w] PROVE v = w
  <2>1. Lands(v, 0) = Lands(w, 0)
    BY <1>1, <1>2, Zenon
  <2>2. Pattern(v) = Pattern(w)
    BY <1>1, <2>1, Zenon
  <2> QED
    BY <2>2, DataFacts, Zenon
<1> QED
  BY <1>1, <1>2, Zenon DEF Distinct

LEMMA DistinctSteps ==
  ASSUME IInv, [Next]_vars
  PROVE  DistinctInv'
<1> USE DEF hardware, edges, copy, Return
<1>0. DistinctInv /\ Flow /\ Flow' /\ Shape
  BY FlowSteps, Zenon DEF IInv
<1>1. CASE pc' \notin {"restore", "done"} \/ ~ status'
  BY <1>0, <1>1, Zenon DEF DistinctInv, Flow
<1>2. CASE UNCHANGED <<link, reg, map, kind, status>>
  <2>1. \A w, a : Lands(w, a)' = Lands(w, a)
    BY <1>2, EdgesKept, Zenon
  <2>2. Distinct => Distinct'
    BY <1>2, <2>1, Zenon DEF Distinct
  <2> QED
    BY <1>0, <1>2, <2>2, Zenon DEF DistinctInv
<1>3. CASE kind' = kind /\ kind # "aperture"
  BY <1>3, Zenon DEF DistinctInv
<1>4. CASE Check
  <2>1. /\ UNCHANGED <<link, reg, map, mem, before, kind, orig, written>>
        /\ pc = "check" /\ kind = "aperture" /\ i \in Edges
        /\ (Matched(i) /\ i = Len(orig)) \/ status' = FALSE
    BY <1>4, CheckFacts, Zenon
  <2>2. CASE status' = FALSE
    BY <1>1, <2>2, Zenon
  <2>3. CASE Matched(i) /\ i = Len(orig)
    <3>1. \A e \in Edges : e < i => Matched(e)
      BY <2>1, Zenon DEF IInv, EdgeInv
    <3>2. \A e \in Edges : e < i \/ e = i
      BY SMTT(60), <1>0, <2>1, <2>3, LenOrig, WindowFacts
    <3>3. Distinct
      BY <1>0, <2>3, <3>1, <3>2, AllMatched, Zenon
    <3>4. \A w, a : Lands(w, a)' = Lands(w, a)
      BY <2>1, EdgesKept, Zenon
    <3>5. Distinct'
      BY <2>1, <3>3, <3>4, Zenon DEF Distinct
    <3> QED
      BY <3>5, Zenon DEF DistinctInv
  <2> QED
    BY <2>1, <2>2, <2>3, Zenon
<1>5. CASE Restore
  BY <1>2, <1>5, Zenon DEF Restore
<1>6. CASE Save \/ Write
  BY <1>0, <1>1, <1>6, Zenon DEF Save, Write, ToRestore, NextEdge, Flow
<1>7. CASE Begin
  <2>1. status' = FALSE \/ pc' = "allocate"
    BY <1>7, BeginFacts, Zenon
  <2> QED
    BY <1>1, <2>1, Zenon
<1>8. CASE Configure
  <2>1. status' = FALSE \/ pc' \in {"configure", "save"}
    BY <1>8, ConfigureFacts, Zenon
  <2> QED
    BY <1>1, <2>1, Zenon
<1>9. CASE Discover \/ (\E k \in Kinds : Start(k)) \/ End \/ AllocateRanges
  BY <1>0, <1>1, <1>9, Zenon DEF Discover, Start, End, AllocateRanges, Flow
<1>10. CASE AllocateCopy \/ Prepare \/ Transfer \/ Verify
  <2>1. kind' = kind /\ kind \in CpCopies \cup DmaCopies
    BY <1>0, <1>10, Zenon DEF AllocateCopy, Prepare, Transfer, Verify, Flow
  <2> QED
    BY <1>3, <2>1, Zenon DEF CpCopies, DmaCopies
<1>11. CASE AllocateUser \/ MoveWindow \/ Access
  <2>1. kind' = kind /\ kind = "user"
    BY <1>0, <1>11, Zenon DEF AllocateUser, MoveWindow, Access, Flow
  <2> QED
    BY <1>3, <2>1, Zenon
<1>12. CASE ExampleReads \/ AssertReset \/ DeassertReset \/ ResetFails
  <2>1. kind' = kind /\ kind = "example"
    BY <1>0, <1>12, Zenon DEF ExampleReads, AssertReset, DeassertReset, ResetFails, Flow
  <2> QED
    BY <1>3, <2>1, Zenon
<1>13. CASE UNCHANGED vars
  BY <1>2, <1>13, Zenon DEF vars
<1> QED
  BY <1>4, <1>5, <1>6, <1>7, <1>8, <1>9, <1>10, <1>11, <1>12, <1>13, ZenonT(60) DEF Next

-----------------------------------------------------------------------------
\* Copies.
LEMMA TailFacts ==
  ASSUME NEW S, NEW p \in Seq(S), EndsIn(p, "compare"), Head(p).op # "compare"
  PROVE  Tail(p) \in Seq(S) /\ EndsIn(Tail(p), "compare")
<1>1. Len(p) \in Nat /\ Len(p) > 1
  BY DEF EndsIn
<1>2. Tail(p) \in Seq(S) /\ Len(Tail(p)) = Len(p) - 1 /\ Tail(p) # << >>
  BY SMTT(60), <1>1
<1>3. Tail(p)[Len(p) - 1] = p[Len(p)]
  BY <1>1
<1> QED
  BY <1>2, <1>3, Zenon DEF EndsIn

LEMMA PlanFacts ==
  ASSUME NEW k \in CpCopies \cup DmaCopies, NEW bs, NEW d \in bs, NEW r \in bs
  PROVE  /\ Plan(k, Dmem(d), Dmem(r)) \in Seq(CopySteps(PlacesOf(bs)))
         /\ EndsIn(Plan(k, Dmem(d), Dmem(r)), "compare")
<1> DEFINE ps == PlacesOf(bs)
           S == CopySteps(ps)
<1>1. Host \in ps /\ Sram \in ps /\ Dmem(d) \in ps /\ Dmem(r) \in ps
  BY Zenon DEF PlacesOf
<1> HIDE DEF ps
<1>2. /\ \A p \in ps : \A x \in {Expected, Poison} : Fill(p, x) \in S
      /\ \A p, q \in ps \cup {Imem} : Hop(p, q) \in S
      /\ \A p \in ps : Compare(p) \in S /\ Compare(p).op = "compare"
  BY Zenon DEF CopySteps, Fills, Hops, Compares, Fill, Hop, Compare
<1> HIDE DEF S
<1>3. ASSUME NEW a \in S, NEW b \in S, NEW c \in ps
      PROVE  <<a, b, Compare(c)>> \in Seq(S) /\ EndsIn(<<a, b, Compare(c)>>, "compare")
  BY <1>2 DEF EndsIn
<1>4. ASSUME NEW a \in S, NEW b \in S, NEW e \in S, NEW c \in ps
      PROVE  <<a, b, e, Compare(c)>> \in Seq(S) /\ EndsIn(<<a, b, e, Compare(c)>>, "compare")
  BY <1>2 DEF EndsIn
<1>5. \/ \E a, b \in S, c \in ps : Plan(k, Dmem(d), Dmem(r)) = <<a, b, Compare(c)>>
      \/ \E a, b, e \in S, c \in ps : Plan(k, Dmem(d), Dmem(r)) = <<a, b, e, Compare(c)>>
  <2>1. CASE k = "h2sram"
    BY <1>1, <1>2, <2>1, Zenon DEF Plan
  <2>2. CASE k = "sram2h"
    BY <1>1, <1>2, <2>2, Zenon DEF Plan
  <2>3. CASE k = "d2sram"
    BY <1>1, <1>2, <2>3, Zenon DEF Plan
  <2>4. CASE k = "sram2d"
    BY <1>1, <1>2, <2>4, Zenon DEF Plan
  <2>5. CASE k = "h2d"
    BY <1>1, <1>2, <2>5, Zenon DEF Plan
  <2>6. CASE k = "d2h"
    BY <1>1, <1>2, <2>6, Zenon DEF Plan
  <2>7. CASE k = "h2i"
    BY <1>1, <1>2, <2>7, Zenon DEF Plan
  <2>8. CASE k = "i2h"
    BY <1>1, <1>2, <2>8, ZenonT(60) DEF Plan
  <2>9. CASE k = "d2i2d"
    BY <1>1, <1>2, <2>9, Zenon DEF Plan
  <2> QED
    BY <2>1, <2>2, <2>3, <2>4, <2>5, <2>6, <2>7, <2>8, <2>9, Zenon DEF CpCopies, DmaCopies
<1>6. /\ Plan(k, Dmem(d), Dmem(r)) \in Seq(S)
      /\ EndsIn(Plan(k, Dmem(d), Dmem(r)), "compare")
  BY <1>3, <1>4, <1>5, ZenonT(60)
<1> QED
  BY <1>6, Zenon DEF S, ps

\* The other steps start no copy and change none.
LEMMA NotCopying ==
  ASSUME IInv, [Next]_vars, ~ AllocateCopy, ~ Prepare, ~ Transfer
  PROVE  pc' # "copy" \/ UNCHANGED <<plan, moved, buf, kind, mem, reg, map, pc>>
<1> USE DEF hardware, edges, copy, Return
<1>0. Flow
  BY Zenon DEF IInv
<1>1. CASE Discover \/ (\E k \in Kinds : Start(k)) \/ End \/ AllocateRanges
  BY <1>1, Zenon DEF Discover, Start, End, AllocateRanges
<1>2. CASE Begin
  BY <1>2, BeginFacts, Zenon
<1>3. CASE Configure
  BY <1>3, ConfigureFacts, Zenon
<1>4. CASE Save \/ Write \/ Check \/ Restore
  BY <1>4, Zenon DEF Save, Write, Check, Restore, NextEdge, ToRestore
<1>5. CASE Verify \/ AllocateUser \/ MoveWindow \/ Access
  BY <1>5, Zenon DEF Verify, AllocateUser, MoveWindow, Access
<1>6. CASE ExampleReads \/ AssertReset \/ DeassertReset \/ ResetFails
  BY <1>6, Zenon DEF ExampleReads, AssertReset, DeassertReset, ResetFails
<1>7. CASE UNCHANGED vars
  BY <1>7, Zenon DEF vars
<1> QED
  BY <1>1, <1>2, <1>3, <1>4, <1>5, <1>6, <1>7, Zenon DEF Next

LEMMA PlanSteps ==
  ASSUME IInv, [Next]_vars
  PROVE  PlanInv'
<1> USE DEF hardware, edges, copy, Return
<1>0. PlanInv
  BY Zenon DEF IInv
<1>1. CASE AllocateCopy
  <2>1. CASE pc' = "done"
    BY <2>1, Zenon DEF PlanInv
  <2>2. CASE pc' # "done"
    <3>1. PICK d \in CopyBlocks :
            \E r \in IF kind = "d2i2d" THEN CopyBlocks \ {d} ELSE {d} :
              plan' = Plan(kind, Dmem(d), Dmem(r)) /\ buf' = {d, r}
      BY <1>1, <2>2, Zenon DEF AllocateCopy
    <3>2. PICK r : plan' = Plan(kind, Dmem(d), Dmem(r)) /\ buf' = {d, r}
      BY <3>1, Zenon
    <3>3. kind \in CpCopies \cup DmaCopies /\ d \in buf' /\ r \in buf'
      BY <1>1, <3>2, Zenon DEF AllocateCopy
    <3>4. /\ plan' \in Seq(CopySteps(PlacesOf(buf')))
          /\ EndsIn(plan', "compare")
      BY <3>2, <3>3, PlanFacts, Zenon
    <3> QED
      BY <3>4, Zenon DEF PlanInv, CpuPlaces
  <2> QED
    BY <2>1, <2>2, Zenon
<1>2. CASE Prepare \/ Transfer
  <2>1. /\ pc = "copy" /\ Head(plan).op # "compare" /\ buf' = buf
        /\ pc' = "done" \/ plan' = Tail(plan)
    BY <1>2, Zenon DEF Prepare, Transfer
  <2>2. /\ Tail(plan) \in Seq(CopySteps(PlacesOf(buf)))
        /\ EndsIn(Tail(plan), "compare")
    BY <1>0, <2>1, TailFacts, Zenon DEF PlanInv, CpuPlaces
  <2>3. CASE pc' = "done"
    BY <2>3 DEF PlanInv
  <2>4. CASE plan' = Tail(plan)
    BY <2>1, <2>2, <2>4, Zenon DEF PlanInv, CpuPlaces
  <2> QED
    BY <2>1, <2>3, <2>4, Zenon
<1>3. CASE ~ AllocateCopy /\ ~ Prepare /\ ~ Transfer
  <2>1. pc' # "copy" \/ UNCHANGED <<plan, buf, pc>>
    BY <1>3, NotCopying, Zenon
  <2> QED
    BY <1>0, <2>1, Zenon DEF PlanInv, CpuPlaces
<1> QED
  BY <1>1, <1>2, <1>3, Zenon

LEMMA HonestKept ==
  ASSUME UNCHANGED <<reg, map>>
  PROVE  Honest' <=> Honest
BY Zenon DEF Honest

\* A CP copy begins.
LEMMA CpAllocated ==
  ASSUME IInv, AllocateCopy
  PROVE  CpInv'
<1> USE DEF hardware, edges, copy, Return
<1>1. CASE pc' = "done" \/ kind \notin CpCopies
  BY <1>1, Zenon DEF CpInv, AllocateCopy
<1>2. CASE pc' # "done" /\ kind \in CpCopies
  <2>1. PICK d \in CopyBlocks :
          \E r \in IF kind = "d2i2d" THEN CopyBlocks \ {d} ELSE {d} :
            plan' = Plan(kind, Dmem(d), Dmem(r)) /\ buf' = {d, r}
    BY <1>2, Zenon DEF AllocateCopy
  <2>2. PICK r : plan' = Plan(kind, Dmem(d), Dmem(r)) /\ buf' = {d, r}
    BY <2>1, Zenon
  <2>3. moved' /\ Host \in CpuPlaces' /\ Sram \in CpuPlaces' /\ Dmem(d) \in CpuPlaces'
    <3>1. pc = "allocate" /\ moved' = moved /\ Flow
      BY Zenon DEF AllocateCopy, IInv
    <3>2. d \in buf'
      BY <2>2, Zenon
    <3> QED
      BY <3>1, <3>2, Zenon DEF Flow, CpuPlaces, PlacesOf
  <2>4. Host # Sram /\ Dmem(d) # Sram
    BY Zenon DEF Host, Sram, Dmem
  <2>5. \E s, t \in {Host, Sram, Dmem(d)} :
          /\ s # t
          /\ \/ plan' = <<Fill(t, Poison), Fill(s, Expected), Hop(s, t), Compare(t)>>
             \/ plan' = <<Fill(s, Expected), Fill(t, Poison), Hop(s, t), Compare(t)>>
    <3>1. CASE kind = "h2sram"
      BY <2>2, <2>4, <3>1, Zenon DEF Plan
    <3>2. CASE kind = "sram2h"
      BY <2>2, <2>4, <3>2, Zenon DEF Plan
    <3>3. CASE kind = "d2sram"
      BY <2>2, <2>4, <3>3, Zenon DEF Plan
    <3>4. CASE kind = "sram2d"
      BY <2>2, <2>4, <3>4, Zenon DEF Plan
    <3> QED
      BY <1>2, <3>1, <3>2, <3>3, <3>4, Zenon DEF CpCopies
  <2>6. \E s, t \in CpuPlaces' : s # t /\ CpSteps(s, t)'
    BY <2>3, <2>5, Zenon DEF CpSteps
  <2> QED
    BY <2>6, Zenon DEF CpInv
<1> QED
  BY <1>1, <1>2, Zenon

\* A place of a CP copy is filled: a poisoned destination stays poisoned.
LEMMA CpPrepared ==
  ASSUME IInv, Prepare
  PROVE  CpInv'
<1> USE DEF hardware, edges, copy, Return
<1>0. /\ pc = "copy" /\ Head(plan).op = "fill" /\ UNCHANGED <<reg, map, kind, buf, moved>>
      /\ pc' # "done" =>
           plan' = Tail(plan) /\ mem' = CpuWritten(Head(plan).at, Head(plan).data)
  BY Zenon DEF Prepare
<1>1. CASE pc' = "done" \/ kind \notin CpCopies
  BY <1>0, <1>1, Zenon DEF CpInv
<1>2. CASE pc' # "done" /\ kind \in CpCopies
  <2>1. PICK s, t \in CpuPlaces : s # t /\ CpSteps(s, t)
    BY <1>0, <1>2, Zenon DEF IInv, CpInv
  <2>2. Shape /\ DefaultSet /\ link = "up"
    BY <1>0, Zenon DEF IInv, DefaultInv, Flow
  <2>3. /\ plan' = Tail(plan) /\ mem' = CpuWritten(Head(plan).at, Head(plan).data)
        /\ (Honest' <=> Honest) /\ s \in Places /\ t \in Places
    BY <1>0, <1>2, <2>1, <2>2, HonestKept, CpuPlaceFacts, Zenon
  <2>4. ASSUME NEW p \in CpuPlaces, NEW x \in {Poison, Expected}, Honest,
               mem' = CpuWritten(p, x)
        PROVE  \A q \in Places : mem'[q] = IF q = p THEN x ELSE mem[q]
    <3>1. x \in Data
      BY DataFacts, Zenon
    <3>2. /\ CpuWritten(p, x) \in [Places -> Data]
          /\ DefaultSet /\ link = "up" /\ Honest =>
               \A q \in Places : CpuWritten(p, x)[q] = IF q = p THEN x ELSE mem[q]
      BY <2>2, <3>1, CpuWrittenFacts, ZenonT(60)
    <3> QED
      BY <2>2, <2>4, <3>2, Zenon
  <2>5. CpSteps(s, t)'
    <3>1. CASE plan = <<Fill(t, Poison), Fill(s, Expected), Hop(s, t), Compare(t)>> /\ moved
      <4>0. Head(plan) = Fill(t, Poison)
            /\ Tail(plan) = <<Fill(s, Expected), Hop(s, t), Compare(t)>>
        BY <3>1
      <4>1. plan' = <<Fill(s, Expected), Hop(s, t), Compare(t)>> /\ mem' = CpuWritten(t, Poison)
        <5>1. Head(plan).at = t /\ Head(plan).data = Poison
          BY <4>0 DEF Fill
        <5> QED
          BY <2>3, <4>0, <5>1, Zenon
      <4>2. Honest' => mem'[t] = Poison
        BY <2>3, <2>4, <4>1, Zenon
      <4> QED
        BY <1>0, <3>1, <4>1, <4>2, Zenon DEF CpSteps
    <3>2. CASE plan = <<Fill(s, Expected), Hop(s, t), Compare(t)>> /\ moved
               /\ (Honest => mem[t] = Poison)
      <4>0. Head(plan) = Fill(s, Expected) /\ Tail(plan) = <<Hop(s, t), Compare(t)>>
        BY <3>2
      <4>1. plan' = <<Hop(s, t), Compare(t)>> /\ mem' = CpuWritten(s, Expected)
        <5>1. Head(plan).at = s /\ Head(plan).data = Expected
          BY <4>0 DEF Fill
        <5> QED
          BY <2>3, <4>0, <5>1, Zenon
      <4>2. Honest' => mem'[t] = Poison
        BY <2>1, <2>3, <2>4, <3>2, <4>1, Zenon
      <4> QED
        BY <1>0, <3>2, <4>1, <4>2, Zenon DEF CpSteps
    <3>3. CASE plan = <<Fill(s, Expected), Fill(t, Poison), Hop(s, t), Compare(t)>> /\ moved
      <4>0. Tail(plan) = <<Fill(t, Poison), Hop(s, t), Compare(t)>>
        BY <3>3
      <4>1. plan' = <<Fill(t, Poison), Hop(s, t), Compare(t)>>
        BY <2>3, <4>0, Zenon
      <4> QED
        BY <1>0, <3>3, <4>1, Zenon DEF CpSteps
    <3>4. CASE plan = <<Fill(t, Poison), Hop(s, t), Compare(t)>> /\ moved
      <4>0. Head(plan) = Fill(t, Poison) /\ Tail(plan) = <<Hop(s, t), Compare(t)>>
        BY <3>4
      <4>1. plan' = <<Hop(s, t), Compare(t)>> /\ mem' = CpuWritten(t, Poison)
        <5>1. Head(plan).at = t /\ Head(plan).data = Poison
          BY <4>0 DEF Fill
        <5> QED
          BY <2>3, <4>0, <5>1, Zenon
      <4>2. Honest' => mem'[t] = Poison
        BY <2>3, <2>4, <4>1, Zenon
      <4> QED
        BY <1>0, <3>4, <4>1, <4>2, Zenon DEF CpSteps
    <3>5. plan # <<Hop(s, t), Compare(t)>> /\ plan # <<Compare(t)>>
      BY <1>0 DEF Hop, Compare
    <3> QED
      BY <2>1, <3>1, <3>2, <3>3, <3>4, <3>5, Zenon DEF CpSteps
  <2>6. CpuPlaces' = CpuPlaces
    BY <1>0, Zenon DEF CpuPlaces
  <2> QED
    BY <2>1, <2>5, <2>6, Zenon DEF CpInv
<1> QED
  BY <1>1, <1>2, Zenon

\* The engine's turn: a destination it did not reach keeps the poison.
LEMMA CpTransferred ==
  ASSUME IInv, Transfer
  PROVE  CpInv'
<1> USE DEF hardware, edges, copy, Return
<1>0. /\ pc = "copy" /\ Head(plan).op = "move" /\ UNCHANGED <<reg, map, kind, buf>>
      /\ pc' = "done" \/ plan' = Tail(plan)
      /\ moved' \/ mem' = mem \/ ~ moved
  BY Zenon DEF Transfer
<1>1. CASE pc' = "done" \/ kind \notin CpCopies
  BY <1>0, <1>1, Zenon DEF CpInv
<1>2. CASE pc' # "done" /\ kind \in CpCopies
  <2>1. PICK s, t \in CpuPlaces : s # t /\ CpSteps(s, t)
    BY <1>0, <1>2, Zenon DEF IInv, CpInv
  <2>2. plan = <<Hop(s, t), Compare(t)>> /\ moved /\ (Honest => mem[t] = Poison)
    <3>1. /\ plan # <<Fill(t, Poison), Fill(s, Expected), Hop(s, t), Compare(t)>>
          /\ plan # <<Fill(s, Expected), Hop(s, t), Compare(t)>>
          /\ plan # <<Fill(s, Expected), Fill(t, Poison), Hop(s, t), Compare(t)>>
          /\ plan # <<Fill(t, Poison), Hop(s, t), Compare(t)>>
          /\ plan # <<Compare(t)>>
      BY <1>0 DEF Fill, Compare
    <3> QED
      BY <2>1, <3>1, ZenonT(60) DEF CpSteps
  <2>3. plan' = <<Compare(t)>> /\ (Honest' <=> Honest)
    <3>1. Tail(plan) = <<Compare(t)>>
      BY <2>2
    <3> QED
      BY <1>0, <1>2, <3>1, HonestKept, Zenon
  <2>4. CpSteps(s, t)'
    BY <1>0, <2>2, <2>3, Zenon DEF CpSteps
  <2>5. CpuPlaces' = CpuPlaces
    BY <1>0, Zenon DEF CpuPlaces
  <2> QED
    BY <2>1, <2>4, <2>5, Zenon DEF CpInv
<1> QED
  BY <1>1, <1>2, Zenon

LEMMA CpInvSteps ==
  ASSUME IInv, [Next]_vars
  PROVE  CpInv'
<1>1. CASE ~ AllocateCopy /\ ~ Prepare /\ ~ Transfer
  <2>1. pc' # "copy" \/ UNCHANGED <<plan, moved, buf, kind, mem, reg, map, pc>>
    BY <1>1, NotCopying, Zenon
  <2>2. CASE pc' # "copy"
    BY <2>2, Zenon DEF CpInv
  <2>3. CASE UNCHANGED <<plan, moved, buf, kind, mem, reg, map, pc>>
    <3>1. CpInv /\ (Honest' <=> Honest)
      BY <2>3, HonestKept, Zenon DEF IInv
    <3>2. CpuPlaces' = CpuPlaces /\ \A s, t : CpSteps(s, t) => CpSteps(s, t)'
      BY <2>3, <3>1, ZenonT(60) DEF CpuPlaces, CpSteps
    <3> QED
      BY <2>3, <3>1, <3>2, Zenon DEF CpInv
  <2> QED
    BY <2>1, <2>2, <2>3, Zenon
<1> QED
  BY <1>1, CpAllocated, CpPrepared, CpTransferred, Zenon

\* A copy that compares equal: the destination holds the pattern, and after a
\* CP copy the engine brought it.
LEMMA VerifyData ==
  ASSUME IInv, Verify, status'
  PROVE  PassMeansData'
<1> USE DEF hardware, edges, copy, Return
<1>1. /\ pc = "copy" /\ Head(plan).op = "compare" /\ CpuRead(mem, Head(plan).at) = Expected
      /\ UNCHANGED <<link, reg, map, mem, kind, plan, moved>>
  BY Zenon DEF Verify
<1>2. /\ Shape /\ DefaultSet /\ link = "up" /\ kind \in CpCopies \cup DmaCopies
  BY <1>1, Zenon DEF IInv, DefaultInv, Flow
<1>3. Head(plan).at \in CpuPlaces
  <2>1. plan \in Seq(CopySteps(CpuPlaces)) /\ plan # << >>
    BY <1>1, Zenon DEF IInv, PlanInv, EndsIn
  <2>2. Head(plan) \in CopySteps(CpuPlaces)
    BY <2>1
  <2> QED
    BY <1>1, <2>2, Zenon DEF CopySteps, Fills, Hops, Compares
<1>4. Honest' <=> Honest
  BY <1>1, HonestKept, Zenon
<1>5. Honest => mem[Head(plan).at] = Expected
  BY <1>1, <1>2, <1>3, CpuReadFacts, Zenon
<1>6. ASSUME kind \in CpCopies, Honest PROVE moved
  <2>1. PICK s, t \in CpuPlaces : s # t /\ CpSteps(s, t)
    BY <1>1, <1>6, ZenonT(60) DEF IInv, CpInv
  <2>2. /\ plan # <<Fill(t, Poison), Fill(s, Expected), Hop(s, t), Compare(t)>>
        /\ plan # <<Fill(s, Expected), Hop(s, t), Compare(t)>>
        /\ plan # <<Fill(s, Expected), Fill(t, Poison), Hop(s, t), Compare(t)>>
        /\ plan # <<Fill(t, Poison), Hop(s, t), Compare(t)>>
        /\ plan # <<Hop(s, t), Compare(t)>>
    BY <1>1 DEF Fill, Hop
  <2>3. plan = <<Compare(t)>> /\ (~ moved => mem[t] = Poison)
    BY <1>6, <2>1, <2>2, Zenon DEF CpSteps
  <2>4. Head(plan).at = t
    BY <2>3 DEF Compare
  <2> QED
    BY <1>5, <1>6, <2>3, <2>4, DataFacts, Zenon
<1>7. kind # "example"
  BY <1>2, Zenon DEF CpCopies, DmaCopies
<1> QED
  BY <1>1, <1>2, <1>4, <1>5, <1>6, <1>7, Zenon DEF PassMeansData

LEMMA PassSteps ==
  ASSUME IInv, [Next]_vars
  PROVE  PassMeansData'
<1> USE DEF hardware, edges, copy, Return
<1>0. Flow /\ PassMeansData
  BY Zenon DEF IInv
<1>1. CASE pc' # "done" \/ ~ status'
  BY <1>1, Zenon DEF PassMeansData
<1>2. CASE Verify
  BY <1>1, <1>2, VerifyData, Zenon
<1>3. CASE Restore \/ Access
  <2>1. link' = "up" /\ kind' = kind /\ kind \in {"aperture", "user"}
    BY <1>0, <1>3, Zenon DEF Restore, Access, Flow, Passes
  <2> QED
    BY <2>1, Zenon DEF PassMeansData, CpCopies, DmaCopies
<1>4. CASE DeassertReset
  <2>1. link' = "down" /\ kind' = "example"
    BY <1>0, <1>4, Zenon DEF DeassertReset, Flow
  <2> QED
    BY <2>1, Zenon DEF PassMeansData, CpCopies, DmaCopies
<1>5. CASE Begin
  BY <1>1, <1>5, BeginFacts, Zenon
<1>6. CASE Configure
  <2>1. pc' # "done" \/ ~ status'
    BY <1>6, ConfigureFacts, Zenon
  <2> QED
    BY <1>1, <2>1, Zenon
<1>7. CASE Save \/ Write \/ Check
  <2>1. pc' # "done" \/ ~ status'
    BY <1>7, Zenon DEF Save, Write, Check, NextEdge, ToRestore
  <2> QED
    BY <1>1, <2>1
<1>8. CASE Discover \/ (\E k \in Kinds : Start(k)) \/ End \/ AllocateRanges
  <2>1. pc' # "done" \/ ~ status'
    BY <1>8, Zenon DEF Discover, Start, End, AllocateRanges
  <2> QED
    BY <1>1, <2>1
<1>9. CASE AllocateCopy \/ Prepare \/ Transfer
  <2>1. pc' # "done" \/ ~ status'
    BY <1>9, Zenon DEF AllocateCopy, Prepare, Transfer
  <2> QED
    BY <1>1, <2>1
<1>10. CASE AllocateUser \/ MoveWindow \/ ExampleReads \/ AssertReset \/ ResetFails
  <2>1. pc' # "done" \/ ~ status'
    BY <1>10, Zenon DEF AllocateUser, MoveWindow, ExampleReads, AssertReset, ResetFails
  <2> QED
    BY <1>1, <2>1
<1>11. CASE UNCHANGED vars
  <2>1. UNCHANGED <<pc, status, link, kind, reg, map, mem, plan, moved>>
    BY <1>11, Zenon DEF vars
  <2>2. Honest' <=> Honest
    BY <2>1, HonestKept, Zenon
  <2> QED
    BY <1>0, <2>1, <2>2, Zenon DEF PassMeansData
<1> QED
  BY <1>2, <1>3, <1>4, <1>5, <1>6, <1>7, <1>8, <1>9, <1>10, <1>11, ZenonT(60) DEF Next

LEMMA NextIInv ==
  ASSUME IInv, [Next]_vars
  PROVE  IInv'
BY ShapeSteps, FlowSteps, DefaultSteps, BufSteps, RegSteps, EdgeSteps, DistinctSteps, PlanSteps,
   CpInvSteps, PassSteps, Zenon DEF IInv

\* The inductive invariant holds in every reachable state.
THEOREM Invariance == Spec => []IInv
<1>1. Init => IInv
  BY InitIInv, Zenon
<1>2. IInv /\ [Next]_vars => IInv'
  BY NextIInv, Zenon
<1> QED
  BY <1>1, <1>2, PTL DEF Spec

\* "Restore every written edge": whatever the hardware does with the windows,
\* and whichever step of the aperture testcase fails, memory is as it was when
\* the testcase is done.
THEOREM ApertureRestores == Spec => []MemoryRestored
<1>1. IInv => MemoryRestored
  <2> SUFFICES ASSUME IInv PROVE MemoryRestored
    BY Zenon
  <2>1. /\ link \in {"up", "reset", "down"} /\ bars \in Mappings \cup {NoBars}
        /\ mem \in [Places -> Data] /\ buf \subseteq Blocks /\ written \subseteq Edges
        /\ \A w \in Windows : map[w] \in 0 .. Word - 1 /\ reg[w].target \in 0 .. Word - 1
    BY Zenon DEF IInv, Shape
  <2>2. runs <= MaxRuns /\ scans <= MaxScans /\ faults <= MaxFaults
    BY ConstantsAssumption DEF IInv, Shape
  <2>3. TypeOK
    BY <2>1, <2>2, Zenon DEF TypeOK
  <2>4. pc = "done" /\ kind = "aperture" => Same
    BY Zenon DEF IInv, EdgeInv
  <2> QED
    BY <2>3, <2>4, Zenon DEF MemoryRestored, Same
<1> QED
  BY <1>1, Invariance, PTL

\* "so cross-window interference is visible": when the aperture testcase
\* passes, every window translates and no two of them to the same block, for
\* every number of windows and every fault of the hardware's translation.
THEOREM PassedWindowsDistinct == Spec => []PassMeansDistinct
<1>1. IInv => PassMeansDistinct
  BY Zenon DEF IInv, DistinctInv, Distinct, PassMeansDistinct
<1> QED
  BY <1>1, Invariance, PTL

\* A testcase that passes did what it reports: cp_copy and dma_copy find the
\* pattern in the destination itself, and after cp_copy the engine moved it.
THEOREM PassedCopyMoved == Spec => []PassMeansData
<1>1. IInv => PassMeansData
  BY Zenon DEF IInv
<1> QED
  BY <1>1, Invariance, PTL

-----------------------------------------------------------------------------
\* Whose memory a step changes.

\* The edges of a range lie in the testcase's buffer.
LEMMA EdgeOwned ==
  ASSUME IInv, Honest, pc \in Passes, NEW b \in Blocks, Place(i) = b
  PROVE  b \in buf
<1>1. Shape /\ kind = "aperture" /\ i \in Edges
  BY Zenon DEF IInv, Flow
<1>2. WindowOf(i) \in Windows /\ EdgeOf(i) \in {0, 1} /\ EdgeOf(i) \in Nat
  BY <1>1, EdgeFacts
<1>3. b # Nowhere
  BY PlaceFacts, Zenon
<1>4. b = reg[WindowOf(i)].target + EdgeOf(i)
  BY <1>1, <1>2, <1>3, LandsFacts, Zenon DEF Place, Honest
<1>5. PICK o \in Blocks : o + Ranges <= Size /\ buf = o .. o + Ranges - 1
  BY Zenon DEF IInv, BufInv
<1>6. PICK v \in Windows : reg[WindowOf(i)].target = Target(v)
  BY <1>2, Zenon DEF IInv, RegInv, Targets
<1>7. Target(v) \in Nat /\ Target(v) \in buf /\ Target(v) + 1 \in buf
  BY <1>5, TargetFacts, Zenon
<1>8. b = Target(v) + 0 \/ b = Target(v) + 1
  BY <1>2, <1>4, <1>6, Zenon
<1> QED
  BY <1>7, <1>8

LEMMA EdgeChanges ==
  ASSUME IInv, Honest, pc \in Passes, NEW d \in Data, NEW b \in Blocks,
         Stored(WindowOf(i), {EdgeOf(i)}, d)[Dmem(b)] # mem[Dmem(b)]
  PROVE  b \in buf
<1>1. Shape /\ i \in Edges
  BY Zenon DEF IInv, Flow
<1>2. Place(i) = b
  BY <1>1, EdgeStored, Zenon
<1> QED
  BY <1>2, EdgeOwned, Zenon

\* A place of a copy in device memory is one of its buffers.
LEMMA PlaceOwned ==
  ASSUME IInv, NEW b \in Blocks, Dmem(b) \in CpuPlaces \cup {Imem}
  PROVE  b \in buf
<1>1. \A c : Dmem(b) = Dmem(c) => b = c
  BY Zenon DEF Dmem
<1>2. Dmem(b) # Host /\ Dmem(b) # Sram /\ Dmem(b) # Imem
  BY PlaceFacts, Zenon
<1> QED
  BY <1>1, <1>2, Zenon DEF CpuPlaces, PlacesOf

LEMMA PlanHead ==
  ASSUME IInv, pc = "copy"
  PROVE  /\ Head(plan).op = "fill" =>
              Head(plan).at \in CpuPlaces /\ Head(plan).data \in {Expected, Poison}
         /\ Head(plan).op = "move" => Head(plan).data \in CpuPlaces \cup {Imem}
<1>1. plan \in Seq(CopySteps(CpuPlaces)) /\ plan # << >>
  BY Zenon DEF IInv, PlanInv, EndsIn
<1>2. Head(plan) \in CopySteps(CpuPlaces)
  BY <1>1
<1> QED
  BY <1>2, Zenon DEF CopySteps, Fills, Hops, Compares

LEMMA CopyChanges ==
  ASSUME IInv, Honest, Prepare \/ Transfer, NEW b \in Blocks, mem'[Dmem(b)] # mem[Dmem(b)]
  PROVE  b \in buf
<1>1. Shape /\ DefaultSet /\ link = "up" /\ pc = "copy" /\ mem \in [Places -> Data]
  BY Zenon DEF IInv, DefaultInv, Flow, Shape, Prepare, Transfer
<1>2. Dmem(b) \in Places
  BY PlaceFacts, Zenon
<1>3. CASE Prepare
  <2>1. Head(plan).op = "fill" /\ mem' = CpuWritten(Head(plan).at, Head(plan).data)
    BY <1>3, Zenon DEF Prepare
  <2>2. Head(plan).at \in CpuPlaces /\ Head(plan).data \in Data
    BY <1>1, <2>1, PlanHead, DataFacts, Zenon
  <2>3. mem'[Dmem(b)] = IF Dmem(b) = Head(plan).at THEN Head(plan).data ELSE mem[Dmem(b)]
    <3>1. /\ CpuWritten(Head(plan).at, Head(plan).data) \in [Places -> Data]
          /\ DefaultSet /\ link = "up" /\ Honest =>
               \A q \in Places : CpuWritten(Head(plan).at, Head(plan).data)[q] =
                 IF q = Head(plan).at THEN Head(plan).data ELSE mem[q]
      BY <1>1, <2>2, CpuWrittenFacts, ZenonT(60)
    <3> QED
      BY <1>1, <1>2, <2>1, <3>1, Zenon
  <2> QED
    BY <2>2, <2>3, PlaceOwned, Zenon
<1>4. CASE Transfer
  <2>1. Head(plan).op = "move" /\ mem' = [mem EXCEPT ![Head(plan).data] = mem[Head(plan).at]]
    BY <1>4, Zenon DEF Transfer
  <2>2. Head(plan).data \in CpuPlaces \cup {Imem} /\ Dmem(b) = Head(plan).data
    BY <1>1, <1>2, <2>1, PlanHead, Zenon
  <2> QED
    BY <2>2, PlaceOwned, Zenon
<1> QED
  BY <1>3, <1>4, Zenon

LEMMA DefaultStored ==
  ASSUME Shape, DefaultSet, link = "up", Honest, NEW as \in SUBSET Blocks, NEW b \in Blocks,
         Stored(Default, as, User)[Dmem(b)] # mem[Dmem(b)]
  PROVE  b \in as
<1>1. Dmem(b) \in Places
  BY PlaceFacts, Zenon
<1>2. PICK a \in as : Dmem(b) = Dmem(Lands(Default, a))
  BY <1>1, Zenon DEF Stored
<1>3. a \in Blocks /\ Lands(Default, a) = a
  BY DefaultLands, Zenon
<1>4. a = b
  BY <1>2, <1>3, PlaceFacts, Zenon
<1> QED
  BY <1>4, Zenon

LEMMA SmallRemainder ==
  ASSUME NEW n \in Nat, NEW x \in 0 .. n - 1
  PROVE  x % n = x
OBVIOUS

\* mem_write of a testcase: the range it asks for lies in its buffer, and the
\* default window takes each block to itself.
LEMMA AccessChanges ==
  ASSUME IInv, Honest, ~ custom, Access, NEW b \in Blocks, mem'[Dmem(b)] # mem[Dmem(b)]
  PROVE  b \in buf
<1> DEFINE first == CHOOSE d \in buf : d + 1 \in buf
<1>1. Shape /\ DefaultSet /\ link = "up" /\ Default \in Windows
  BY WindowFacts, Zenon DEF IInv, DefaultInv, Flow, Access
<1>2. PICK d \in Blocks : d + 1 \in Blocks /\ buf = {d, d + 1}
  BY Zenon DEF IInv, BufInv, Access
<1>3. first = d /\ d \in Nat /\ d + 1 < Size /\ Size < Word /\ Size \in Nat /\ Word \in Nat
  <2>1. d \in Int /\ d + 1 + 1 # d /\ d + 1 + 1 # d + 1
    BY SMTT(60), ConstantsAssumption DEF Blocks
  <2>2. d \in buf /\ d + 1 \in buf /\ \A c \in buf : c + 1 \in buf => c = d
    BY <1>2, <2>1, Zenon
  <2>3. first = d
    BY <2>2, Zenon
  <2>4. d \in Nat /\ d + 1 < Size /\ Size < Word /\ Size \in Nat /\ Word \in Nat
    BY <1>2, ConstantsAssumption DEF Blocks
  <2> QED
    BY <2>3, <2>4, Zenon
<1> HIDE DEF first
<1>4. PICK offset, len \in Arguments :
        /\ Transfers(first, 2, offset, len, Written)
        /\ mem' = MmioTransfer((first + offset) % Word, len, User)
  BY Zenon DEF Access, first
<1>5. /\ offset \in Nat /\ len \in Nat /\ len # 0 /\ offset <= 2 /\ len <= 2 - offset
  BY <1>4, ConstantsAssumption DEF Transfers, IsValidRange
<1>6. (first + offset) % Word = d + offset
  <2>1. first + offset = d + offset /\ d + offset \in 0 .. Word - 1
    BY SMTT(60), <1>3, <1>5
  <2> QED
    BY <1>3, <2>1, SmallRemainder, Zenon
<1>7. ASSUME NEW k \in 0 .. len - 1 PROVE d + offset + k \in buf
  BY <1>2, <1>3, <1>5
<1>8. buf \subseteq Blocks
  BY <1>2, Zenon
<1> DEFINE as == {d + offset + k : k \in 0 .. len - 1}
<1>9. mem' = Stored(Default, as, User) /\ as \in SUBSET buf
  BY <1>4, <1>6, <1>7, Zenon DEF MmioTransfer
<1> HIDE DEF as
<1>10. as \in SUBSET Blocks
  BY <1>8, <1>9, Zenon
<1>11. b \in as
  BY <1>1, <1>9, <1>10, DefaultStored, Zenon
<1> QED
  BY <1>9, <1>11, Zenon

LEMMA OwnMemory ==
  ASSUME IInv, Next, Honest, ~ custom, NEW b \in Blocks, mem'[Dmem(b)] # mem[Dmem(b)]
  PROVE  b \in buf
<1> USE DEF hardware, edges, copy
<1>1. CASE Write
  <2>1. pc \in Passes /\ mem' = Stored(WindowOf(i), {EdgeOf(i)}, Pattern(WindowOf(i)))
    BY <1>1, Zenon DEF Write, Passes
  <2>2. Pattern(WindowOf(i)) \in Data
    BY <2>1, EdgeFacts, DataFacts, Zenon DEF IInv, Flow
  <2> QED
    BY <2>1, <2>2, EdgeChanges, Zenon
<1>2. CASE Restore
  <2>1. pc \in Passes /\ mem' = Stored(WindowOf(i), {EdgeOf(i)}, orig[i])
    BY <1>2, Zenon DEF Restore, Passes
  <2>2. orig[i] \in Data
    BY <2>1, Zenon DEF IInv, Flow, Shape
  <2> QED
    BY <2>1, <2>2, EdgeChanges, Zenon
<1>3. CASE AllocateCopy
  <2>1. mem' = [mem EXCEPT ![Host] = Old(0)]
    BY <1>3, Zenon DEF AllocateCopy
  <2>2. Dmem(b) \in Places /\ Dmem(b) # Host /\ mem \in [Places -> Data]
    BY PlaceFacts, Zenon DEF IInv, Shape
  <2> QED
    BY <2>1, <2>2, Zenon
<1>4. CASE Prepare \/ Transfer
  BY <1>4, CopyChanges, Zenon
<1>5. CASE Access
  BY <1>5, AccessChanges, Zenon
<1>6. CASE Discover \/ (\E k \in Kinds : Start(k)) \/ Begin \/ End \/ AllocateRanges
           \/ Configure \/ Save \/ Check
  BY <1>6, Zenon DEF Discover, Start, Begin, End, AllocateRanges, Configure, Save, Check
<1>7. CASE Verify \/ AllocateUser \/ MoveWindow \/ ExampleReads \/ AssertReset
           \/ DeassertReset \/ ResetFails
  BY <1>7, Zenon DEF Verify, AllocateUser, MoveWindow, ExampleReads, AssertReset, DeassertReset,
                     ResetFails
<1> QED
  BY <1>1, <1>2, <1>3, <1>4, <1>5, <1>6, <1>7, ZenonT(60) DEF Next

\* A testcase changes only the device memory it allocated, whatever windows
\* earlier testcases left behind and whatever offset and length it passes to
\* mem_write: begin_testcase programs the default window, MemBuffer::transfer
\* checks the range, and the aperture testcase's ranges lie in its allocation.
THEOREM OthersMemorySafe == Spec => OwnMemoryOnly
<1>1. IInv /\ [Next]_vars =>
        [Honest /\ ~ custom =>
           \A b \in Blocks : mem'[Dmem(b)] # mem[Dmem(b)] => b \in buf]_vars
  <2> SUFFICES ASSUME IInv, [Next]_vars, Honest, ~ custom, NEW b \in Blocks,
                      mem'[Dmem(b)] # mem[Dmem(b)], vars' # vars
               PROVE  b \in buf
    BY Zenon
  <2> QED
    BY OwnMemory, Zenon
<1> QED
  BY <1>1, Invariance, PTL DEF Spec, OwnMemoryOnly
=============================================================================
