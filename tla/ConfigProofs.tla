---------------------------- MODULE ConfigProofs ----------------------------
(***************************************************************************)
(* Proofs about Config, for every set of files of the assumed shape: what  *)
(* the validators accept can be built, no tick of an accepted generator    *)
(* can fail once the seeding is done, and the store stays what the file    *)
(* says.  The invariant follows the last binding that wrote a slot.        *)
(***************************************************************************)
EXTENDS Config, DataLemmas

-----------------------------------------------------------------------------
(* The sequence of all bindings.                                           *)

(* What FlattenSeq computes for the first n of some sequences.             *)
IsFlat(f, seqs, n) == f = [i \in 1..n |-> IF i = 1 THEN seqs[i] ELSE f[i - 1] \o seqs[i]]

LEMMA FlatExists ==
  ASSUME NEW seqs
  PROVE  \A n \in Nat : \E f : IsFlat(f, seqs, n)
<1> DEFINE T == {n \in Nat : \E f : IsFlat(f, seqs, n)}
<1>1. 0 \in T
  <2> DEFINE f == [i \in 1..0 |-> seqs[i]]
  <2>1. f = [i \in 1..0 |-> IF i = 1 THEN seqs[i] ELSE f[i - 1] \o seqs[i]]
    OBVIOUS
  <2> QED
    BY <2>1 DEF IsFlat
<1>2. ASSUME NEW n \in Nat, n \in T PROVE n + 1 \in T
  <2>1. PICK f : IsFlat(f, seqs, n)
    BY <1>2
  <2> DEFINE g == [i \in 1..n + 1 |-> IF i = 1 THEN seqs[i] ELSE f[i - 1] \o seqs[i]]
  <2>2. f = [i \in 1..n |-> IF i = 1 THEN seqs[i] ELSE f[i - 1] \o seqs[i]]
    BY <2>1 DEF IsFlat
  <2>3. \A i \in 1..n : f[i] = IF i = 1 THEN seqs[i] ELSE f[i - 1] \o seqs[i]
    <3> SUFFICES ASSUME NEW i \in 1..n
                 PROVE  f[i] = IF i = 1 THEN seqs[i] ELSE f[i - 1] \o seqs[i]
      OBVIOUS
    <3> QED
      BY <2>2, Zenon
  <2>4. \A i \in 1..n : g[i] = f[i]
    <3>1. \A i \in 1..n : i \in 1..n + 1
      OBVIOUS
    <3> QED
      BY <2>3, <3>1
  <2>5. \A i \in 1..n + 1 : i # 1 => i - 1 \in 1..n
    OBVIOUS
  <2>6. g = [i \in 1..n + 1 |-> IF i = 1 THEN seqs[i] ELSE g[i - 1] \o seqs[i]]
    BY <2>4, <2>5
  <2> HIDE DEF g
  <2>7. \E h : IsFlat(h, seqs, n + 1)
    BY <2>6 DEF IsFlat
  <2> QED
    BY <2>7
<1> HIDE DEF T
<1>3. \A n \in Nat : n \in T
  BY <1>1, <1>2, SetInduction
<1> QED
  BY <1>3 DEF T

(* Flattening sequences over S yields a sequence over S.                   *)
LEMMA FlattenIsSeq ==
  ASSUME NEW S, NEW n \in Nat, NEW seqs \in [1..n -> Seq(S)]
  PROVE  FlattenSeq(seqs) \in Seq(S)
<1>1. Len(seqs) = n
  BY FunctionIsSeq
<1>2. CASE n = 0
  <2>1. FlattenSeq(seqs) = seqs
    BY <1>1, <1>2 DEF FlattenSeq
  <2>2. seqs \in [1..0 -> S]
    BY <1>2
  <2> QED
    BY <2>1, <2>2, FunctionIsSeq
<1>3. CASE n # 0
  <2> DEFINE f == CHOOSE f :
                    f = [i \in 1..Len(seqs) |-> IF i = 1 THEN seqs[i] ELSE f[i - 1] \o seqs[i]]
             T == {m \in Nat : m + 1 \in 1..n => f[m + 1] \in Seq(S)}
  <2>1. FlattenSeq(seqs) = f[n]
    BY SMTT(30), <1>1, <1>3 DEF FlattenSeq
  <2>2. f = [i \in 1..n |-> IF i = 1 THEN seqs[i] ELSE f[i - 1] \o seqs[i]]
    <3>1. \E g : IsFlat(g, seqs, n)
      BY FlatExists
    <3>2. \E g : g = [i \in 1..Len(seqs) |-> IF i = 1 THEN seqs[i] ELSE g[i - 1] \o seqs[i]]
      BY <1>1, <3>1 DEF IsFlat
    <3>3. f = [i \in 1..Len(seqs) |-> IF i = 1 THEN seqs[i] ELSE f[i - 1] \o seqs[i]]
      BY <3>2, Zenon
    <3> QED
      BY <1>1, <3>3
  <2> HIDE DEF f
  <2>3. \A i \in 1..n : f[i] = IF i = 1 THEN seqs[i] ELSE f[i - 1] \o seqs[i]
    <3> SUFFICES ASSUME NEW i \in 1..n
                 PROVE  f[i] = IF i = 1 THEN seqs[i] ELSE f[i - 1] \o seqs[i]
      OBVIOUS
    <3> QED
      BY <2>2, Zenon
  <2>4. 0 \in T
    BY <1>3, <2>3
  <2>5. ASSUME NEW m \in Nat, m \in T PROVE m + 1 \in T
    <3> SUFFICES ASSUME (m + 1) + 1 \in 1..n PROVE f[(m + 1) + 1] \in Seq(S)
      OBVIOUS
    <3>1. m + 1 \in 1..n /\ (m + 1) + 1 # 1 /\ ((m + 1) + 1) - 1 = m + 1
      OBVIOUS
    <3>2. f[m + 1] \in Seq(S) /\ seqs[(m + 1) + 1] \in Seq(S)
      BY <2>5, <3>1
    <3>3. f[(m + 1) + 1] = f[m + 1] \o seqs[(m + 1) + 1]
      BY <2>3, <3>1
    <3> QED
      BY <3>2, <3>3, ConcatProperties
  <2>6. n - 1 \in T
    <3> HIDE DEF T
    <3>1. n - 1 \in Nat
      BY <1>3
    <3> QED
      BY <2>4, <2>5, <3>1, SetInduction
  <2>7. (n - 1) + 1 = n /\ n \in 1..n
    BY <1>3
  <2> QED
    BY <2>1, <2>6, <2>7
<1> QED
  BY <1>2, <1>3

-----------------------------------------------------------------------------
(* What a file is, and what the validators make of it.                     *)

(* A generator's arguments are integers or text.                           *)
IsGenerator(g) ==
  g.addr \in Int /\ \A p \in DOMAIN g.args : g.args[p] \in {Text} \cup Int

LEMMA ShapeOfFile ==
  ASSUME config \in Configs
  PROVE  /\ Len(config) \in Nat /\ DOMAIN config = 1..Len(config)
         /\ \A d \in DOMAIN config, r \in Regions :
              LET region == config[d].regions[r]
              IN  /\ region.size \in Int /\ region.init \in Seq(Int)
                  /\ region.generators \in Seq(ToSet(region.generators))
                  /\ \A g \in ToSet(region.generators) : IsGenerator(g)
<1>1. config \in Seq(ToSet(config))
  BY ConfigsAssumption
<1>2. Len(config) \in Nat /\ DOMAIN config = 1..Len(config)
  BY <1>1, LenProperties
<1>3. \A d \in DOMAIN config : config[d] \in ToSet(config)
  BY DEF ToSet
<1> QED
  BY <1>2, <1>3, ConfigsAssumption DEF IsGenerator

(* A binding of the file, and where it comes from.                         *)
IsBinding(b) ==
  /\ b.device \in DOMAIN config /\ b.region \in RegisterRegions /\ b.region \in Regions
  /\ b.generator \in ToSet(config[b.device].regions[b.region].generators)

BindingsFrom(d, r) ==
  {[device |-> d, region |-> r, generator |-> g] : g \in ToSet(config[d].regions[r].generators)}
AllBindings == UNION {UNION {BindingsFrom(d, r) : r \in RegisterRegions} : d \in DOMAIN config}

LEMMA BindingsInAre ==
  ASSUME config \in Configs, NEW d \in DOMAIN config, NEW r \in RegisterRegions
  PROVE  BindingsIn(d, r) \in Seq(AllBindings)
<1>1. r \in Regions
  BY DEF RegisterRegions, Regions
<1>2. PICK gens : gens = config[d].regions[r].generators
  OBVIOUS
<1>3. gens \in Seq(ToSet(gens)) /\ Len(gens) \in Nat /\ DOMAIN gens = 1..Len(gens)
  BY <1>1, <1>2, ShapeOfFile, LenProperties
<1>4. \A i \in 1..Len(gens) : gens[i] \in ToSet(gens)
  BY <1>3 DEF ToSet
<1>5. \A i \in 1..Len(gens) :
        [device |-> d, region |-> r, generator |-> gens[i]] \in AllBindings
  <2>1. \A i \in 1..Len(gens) :
          [device |-> d, region |-> r, generator |-> gens[i]] \in BindingsFrom(d, r)
    BY <1>2, <1>4 DEF BindingsFrom
  <2>2. BindingsFrom(d, r) \subseteq AllBindings
    <3> SUFFICES ASSUME NEW b \in BindingsFrom(d, r) PROVE b \in AllBindings
      OBVIOUS
    <3>1. b \in UNION {BindingsFrom(d, q) : q \in RegisterRegions}
      OBVIOUS
    <3> QED
      BY <3>1 DEF AllBindings
  <2> QED
    BY <2>1, <2>2, Zenon
<1>6. BindingsIn(d, r) =
        [i \in 1..Len(gens) |-> [device |-> d, region |-> r, generator |-> gens[i]]]
  BY <1>2, <1>3 DEF BindingsIn
<1>7. BindingsIn(d, r) \in [1..Len(gens) -> AllBindings]
  BY <1>5, <1>6
<1> QED
  BY <1>3, <1>7, FunctionIsSeq

LEMMA BindingsAre ==
  ASSUME config \in Configs
  PROVE  /\ bindings \in Seq(AllBindings)
         /\ Len(bindings) \in Nat /\ DOMAIN bindings = 1..Len(bindings)
         /\ \A i \in DOMAIN bindings : IsBinding(bindings[i])
<1>1. \A d \in DOMAIN config : BindingsOf(d) \in Seq(AllBindings)
  <2> SUFFICES ASSUME NEW d \in DOMAIN config PROVE BindingsOf(d) \in Seq(AllBindings)
    OBVIOUS
  <2>1. BindingsIn(d, HOLDING_REGISTERS) \in Seq(AllBindings)
        /\ BindingsIn(d, INPUT_REGISTERS) \in Seq(AllBindings)
    BY BindingsInAre DEF RegisterRegions
  <2> QED
    BY <2>1, ConcatProperties DEF BindingsOf
<1>2. PICK seqs : seqs = [d \in DOMAIN config |-> BindingsOf(d)]
  OBVIOUS
<1>3. PICK n \in Nat : DOMAIN config = 1..n
  BY ShapeOfFile
<1>4. seqs \in [1..n -> Seq(AllBindings)]
  BY <1>1, <1>2, <1>3
<1>5. bindings \in Seq(AllBindings)
  BY <1>2, <1>4, FlattenIsSeq DEF bindings
<1>6. Len(bindings) \in Nat /\ DOMAIN bindings = 1..Len(bindings)
  BY <1>5, LenProperties
<1>7. \A i \in DOMAIN bindings : bindings[i] \in AllBindings
  BY <1>5, <1>6, ElementOfSeq
<1>8. \A b \in AllBindings : IsBinding(b)
  <2> SUFFICES ASSUME NEW d \in DOMAIN config, NEW r \in RegisterRegions,
                      NEW b \in BindingsFrom(d, r)
               PROVE  IsBinding(b)
    BY DEF AllBindings
  <2>1. r \in Regions
    BY DEF RegisterRegions, Regions
  <2>2. PICK g \in ToSet(config[d].regions[r].generators) :
          b = [device |-> d, region |-> r, generator |-> g]
    BY DEF BindingsFrom
  <2> QED
    BY <2>1, <2>2 DEF IsBinding
<1> QED
  BY <1>5, <1>6, <1>7, <1>8

-----------------------------------------------------------------------------
(* What the validators promise.                                            *)

LEMMA MaxIsNat == UINT16_MAX \in Nat
BY DEF UINT16_MAX

LEMMA AcceptedMeans ==
  ASSUME config \in Configs, Accepted
  PROVE  \A d \in DOMAIN config, r \in Regions :
           LET region == config[d].regions[r]
           IN  /\ region.size \in Nat /\ region.init \in Seq(Int)
               /\ Len(region.init) \in Nat /\ Len(region.init) <= region.size
               /\ r \in BitRegions => ToSet(region.init) \subseteq {0, 1}
               /\ r \in RegisterRegions => ToSet(region.init) \subseteq 0..UINT16_MAX
               /\ \A g \in ToSet(region.generators) :
                    g.addr \in Nat /\ g.addr < region.size /\ Makes(g.fn, g.args)
<1> SUFFICES ASSUME NEW d \in DOMAIN config, NEW r \in Regions
             PROVE  LET region == config[d].regions[r]
                    IN  /\ region.size \in Nat /\ region.init \in Seq(Int)
                        /\ Len(region.init) \in Nat /\ Len(region.init) <= region.size
                        /\ r \in BitRegions => ToSet(region.init) \subseteq {0, 1}
                        /\ r \in RegisterRegions => ToSet(region.init) \subseteq 0..UINT16_MAX
                        /\ \A g \in ToSet(region.generators) :
                             g.addr \in Nat /\ g.addr < region.size /\ Makes(g.fn, g.args)
  OBVIOUS
<1>1. PICK region : region = config[d].regions[r]
  OBVIOUS
<1>2. DeviceAccepted(config[d])
  BY DEF Accepted
<1>3. /\ r \in BitRegions => ToSet(region.init) \subseteq {0, 1}
      /\ r \in RegisterRegions => ToSet(region.init) \subseteq 0..UINT16_MAX
      /\ RegionAccepted(region)
  BY <1>1, <1>2 DEF DeviceAccepted
<1>4. region.init \in Seq(Int) /\ Len(region.init) \in Nat
  BY <1>1, ShapeOfFile, LenProperties
<1>5. region.size \in Nat /\ Len(region.init) <= region.size
  BY <1>3, MaxIsNat DEF RegionAccepted, BoundsAccepted
<1>6. \A g \in ToSet(region.generators) :
        g.addr \in Nat /\ g.addr < region.size /\ Makes(g.fn, g.args)
  BY <1>3, MaxIsNat DEF RegionAccepted, BoundsAccepted
<1> QED
  BY <1>1, <1>3, <1>4, <1>5, <1>6

(* A binding of an accepted file names a slot of a block.                  *)
LEMMA BindingAccepted ==
  ASSUME config \in Configs, Accepted, NEW i \in DOMAIN bindings
  PROVE  LET b == bindings[i]
         IN  /\ b.device \in DOMAIN config /\ b.region \in RegisterRegions
             /\ b.region \in Regions
             /\ b.generator.addr \in Nat
             /\ b.generator.addr < config[b.device].regions[b.region].size
             /\ IsGenerator(b.generator) /\ Makes(b.generator.fn, b.generator.args)
<1>1. PICK b : b = bindings[i]
  OBVIOUS
<1>2. IsBinding(b)
  BY <1>1, BindingsAre
<1>3. PICK d, r, g : d = b.device /\ r = b.region /\ g = b.generator
  OBVIOUS
<1>4. /\ d \in DOMAIN config /\ r \in RegisterRegions /\ r \in Regions
      /\ g \in ToSet(config[d].regions[r].generators)
  BY <1>2, <1>3 DEF IsBinding
<1>5. IsGenerator(g)
  BY <1>4, ShapeOfFile
<1>6. g.addr \in Nat /\ g.addr < config[d].regions[r].size /\ Makes(g.fn, g.args)
  BY <1>4, AcceptedMeans
<1> QED
  BY <1>1, <1>3, <1>4, <1>5, <1>6

-----------------------------------------------------------------------------
(* The generators.                                                         *)

LEMMA ClampIsWord ==
  ASSUME NEW n \in Int
  PROVE  ClampU16(n) \in 0..UINT16_MAX
BY MaxIsNat DEF ClampU16

LEMMA ClampIsMonotonic ==
  ASSUME NEW m \in Int, NEW n \in Int, m <= n
  PROVE  ClampU16(m) <= ClampU16(n)
BY MaxIsNat DEF ClampU16

(* A constant or a sine has integers to compute with, a walk too, and      *)
(* bounds in their order.                                                  *)
LEMMA ArgumentsOf ==
  ASSUME NEW g, IsGenerator(g), Makes(g.fn, g.args), ~SampleRaises(g)
  PROVE  \/ g.fn = "constant" /\ g.args.value \in Int
         \/ g.fn = "sine" /\ g.args.mean \in Int /\ g.args.amp \in Int
         \/ /\ g.fn = "random_walk" /\ g.args.step \in Int
            /\ g.args.min \in Int /\ g.args.max \in Int /\ g.args.min <= g.args.max
<1>1. PICK args : args = g.args
  OBVIOUS
<1>2. \A p \in DOMAIN args : args[p] # Text => args[p] \in Int
  BY <1>1 DEF IsGenerator
<1>3. Parameters[g.fn] \subseteq DOMAIN args
  BY <1>1 DEF Makes
<1>4. CASE g.fn = "constant"
  <2>1. "value" \in DOMAIN args
    BY <1>3, <1>4 DEF Parameters
  <2>2. args["value"] # Text
    BY <1>1, <1>4 DEF Makes
  <2> QED
    BY <1>1, <1>2, <1>4, <2>1, <2>2
<1>5. CASE g.fn = "sine"
  <2>1. "mean" \in DOMAIN args /\ "amp" \in DOMAIN args
    BY <1>3, <1>5 DEF Parameters
  <2>2. args["mean"] # Text /\ args["amp"] # Text
    BY <1>1, <1>5 DEF SampleRaises
  <2> QED
    BY <1>1, <1>2, <1>5, <2>1, <2>2
<1>6. CASE g.fn = "random_walk"
  <2>1. "step" \in DOMAIN args /\ "min" \in DOMAIN args /\ "max" \in DOMAIN args
    BY <1>3, <1>6 DEF Parameters
  <2>2. args["start"] # Text /\ args["step"] # Text
    BY <1>1, <1>6 DEF SampleRaises
  <2>3. args["min"] # Text /\ args["max"] # Text /\ args["min"] <= args["max"]
    BY <1>1, <1>6, <2>2 DEF Makes
  <2> QED
    BY <1>1, <1>2, <1>6, <2>1, <2>2, <2>3
<1>7. g.fn \in {"constant", "sine", "random_walk"}
  BY DEF Makes, Parameters
<1> QED
  BY <1>4, <1>5, <1>6, <1>7

(* Whatever the sine and wherever the walk is, a sample is a 16-bit word   *)
(* in the range of its generator.                                          *)
LEMMA SampleInRange ==
  ASSUME NEW g, IsGenerator(g), Makes(g.fn, g.args), ~SampleRaises(g),
         NEW walk \in Int, NEW s \in {-1, 0, 1}, NEW sample \in Samples(g, walk, s)
  PROVE  /\ sample.value \in 0..UINT16_MAX /\ sample.walk \in Int
         /\ InRange(sample.value, g)
<1>1. CASE g.fn = "constant" /\ g.args.value \in Int
  <2>1. sample = [value |-> ClampU16(g.args.value), walk |-> walk]
    BY <1>1 DEF Samples
  <2>2. sample.value = ClampU16(g.args.value) /\ sample.walk = walk
    BY <2>1
  <2>3. InRange(sample.value, g)
    BY <1>1, <2>2 DEF InRange
  <2> QED
    BY <1>1, <2>2, <2>3, ClampIsWord
<1>2. CASE g.fn = "sine" /\ g.args.mean \in Int /\ g.args.amp \in Int
  <2>0. PICK m \in Int, a \in Int : m = g.args.mean /\ a = g.args.amp
    BY <1>2
  <2>1. sample = [value |-> ClampU16(m + s * a), walk |-> walk]
    BY <1>2, <2>0 DEF Samples
  <2>2. sample.value = ClampU16(m + s * a) /\ sample.walk = walk
    BY <2>1
  <2>3. m + s * a \in {m - a, m, m + a}
    <3>1. CASE s = -1
      BY <3>1
    <3>2. CASE s = 0
      BY <3>2
    <3>3. CASE s = 1
      BY <3>3
    <3> QED
      BY <3>1, <3>2, <3>3
  <2>4. sample.value \in {ClampU16(m - a), ClampU16(m), ClampU16(m + a)}
    BY <2>2, <2>3, Zenon
  <2>5. InRange(sample.value, g)
    BY <1>2, <2>0, <2>4 DEF InRange
  <2>6. m - a \in Int /\ m + a \in Int
    OBVIOUS
  <2>7. sample.value \in 0..UINT16_MAX
    BY <2>4, <2>6, ClampIsWord
  <2> QED
    BY <2>2, <2>5, <2>7
<1>3. CASE /\ g.fn = "random_walk" /\ g.args.step \in Int
           /\ g.args.min \in Int /\ g.args.max \in Int /\ g.args.min <= g.args.max
  <2>1. PICK w : /\ w \in {Bound(walk - g.args.step, g.args), Bound(walk + g.args.step, g.args)}
                 /\ sample = [value |-> ClampU16(w), walk |-> w]
    BY <1>3 DEF Samples
  <2>2. w \in Int /\ g.args.min <= w /\ w <= g.args.max
    BY <1>3, <2>1 DEF Bound
  <2>3. sample.value = ClampU16(w) /\ sample.walk = w
    BY <2>1
  <2>4. ClampU16(g.args.min) <= ClampU16(w) /\ ClampU16(w) <= ClampU16(g.args.max)
    BY <1>3, <2>2, ClampIsMonotonic
  <2>5. InRange(sample.value, g)
    BY <1>3, <2>3, <2>4 DEF InRange
  <2> QED
    BY <2>2, <2>3, <2>5, ClampIsWord
<1> QED
  BY <1>1, <1>2, <1>3, ArgumentsOf

(* Only a text can make sample() fail.                                     *)
LEMMA OnlyTextFails ==
  ASSUME NEW g, Makes(g.fn, g.args), SampleRaises(g)
  PROVE  Text \in {g.args[p] : p \in DOMAIN g.args}
<1>1. Parameters[g.fn] \subseteq DOMAIN g.args
  BY DEF Makes
<1>2. CASE g.fn = "sine"
  <2>1. "mean" \in DOMAIN g.args /\ "amp" \in DOMAIN g.args
    BY <1>1, <1>2 DEF Parameters
  <2>2. g.args["mean"] = Text \/ g.args["amp"] = Text
    BY <1>2 DEF SampleRaises
  <2> QED
    BY <2>1, <2>2
<1>3. CASE g.fn = "random_walk"
  <2>1. "start" \in DOMAIN g.args /\ "step" \in DOMAIN g.args
    BY <1>1, <1>3 DEF Parameters
  <2>2. g.args["start"] = Text \/ g.args["step"] = Text
    BY <1>3 DEF SampleRaises
  <2> QED
    BY <2>1, <2>2
<1> QED
  BY <1>2, <1>3 DEF SampleRaises

-----------------------------------------------------------------------------
(* The invariant.                                                          *)

(* A walk is a number, and there is one for each binding.                  *)
Built ==
  /\ Accepted
  /\ DOMAIN devices = DOMAIN config
  /\ \A d \in DOMAIN config :
       IsDevice(devices[d], [r \in Regions |-> config[d].regions[r].size], 0..UINT16_MAX)
  /\ walks \in [DOMAIN bindings -> Int]
  /\ bindings = <<>> \/ turn \in DOMAIN bindings

(* The generator of the i-th binding computes with numbers only.           *)
Computes(i) == ~SampleRaises(bindings[i].generator)

InitialValue(d, r, address) ==
  LET spec == config[d].regions[r]
  IN  IF address < Len(spec.init)
      THEN IF r \in BitRegions THEN spec.init[address + 1] = 1 ELSE spec.init[address + 1]
      ELSE IF r \in BitRegions THEN FALSE ELSE 0

(* The value is in the range of the last of these bindings.                *)
OfTheLast(value, B) ==
  \E i \in B : InRange(value, bindings[i].generator) /\ \A j \in B : j <= i

(* Of the bindings B of a slot, those that had their turn this round have  *)
(* written it in their order, and while serving the last of the round      *)
(* before has, when none had its turn.                                     *)
LastWritten(value, B, now, stage) ==
  LET past == {i \in B : i < now}
  IN  /\ past # {} => OfTheLast(value, past)
      /\ stage = "serve" /\ B # {} /\ past = {} => OfTheLast(value, B)

SlotIs(value, d, r, address) ==
  LET bound == BoundTo(d, r, address)
  IN  /\ bound = {} => value = InitialValue(d, r, address)
      /\ LastWritten(value, bound, turn, phase)

Written ==
  \A d \in DOMAIN config, r \in Regions : \A address \in 0..(config[d].regions[r].size - 1) :
    SlotIs(devices[d][r][address + 1], d, r, address)

Stage ==
  \/ phase \in {"load", "rejected"} /\ devices = <<>>
  \/ phase = "seed" /\ bindings # <<>> /\ Built /\ Written
       /\ \A i \in DOMAIN bindings : i < turn => Computes(i)
  \/ phase = "serve" /\ Built /\ Written
       /\ \A i \in DOMAIN bindings : Computes(i)
  \/ phase = "raised" /\ Built /\ \E i \in DOMAIN bindings : ~Computes(i)

IInv == config \in Configs /\ Stage

(* The bindings are those of the file, which never changes.                *)
LEMMA SameBindings ==
  ASSUME config' = config
  PROVE  /\ bindings' = bindings
         /\ \A d, r, address : /\ BoundTo(d, r, address)' = BoundTo(d, r, address)
                               /\ InitialValue(d, r, address)' = InitialValue(d, r, address)
<1>1. bindings' = bindings
  BY DEF bindings, BindingsOf, BindingsIn
<1>2. \A d, r, address : BoundTo(d, r, address)' = BoundTo(d, r, address)
  BY <1>1 DEF BoundTo
<1>3. \A d, r, address : InitialValue(d, r, address)' = InitialValue(d, r, address)
  BY DEF InitialValue
<1> QED
  BY <1>1, <1>2, <1>3

LEMMA InvInit == Init => IInv
BY DEF Init, IInv, Stage

-----------------------------------------------------------------------------
(* Build.                                                                  *)

(* A block that is built has its size and the initial values of the file.  *)
LEMMA BlockIsInitial ==
  ASSUME config \in Configs, Accepted, NEW d \in DOMAIN config, NEW r \in Regions
  PROVE  LET region == config[d].regions[r]
             block  == BlockOf(region, r \in BitRegions)
         IN  /\ block \in [1..region.size -> IF r \in BitRegions THEN BOOLEAN
                                                                 ELSE 0..UINT16_MAX]
             /\ \A address \in 0..(region.size - 1) :
                  block[address + 1] = InitialValue(d, r, address)
<1>1. PICK region : region = config[d].regions[r]
  OBVIOUS
<1>2. PICK size \in Nat, init \in Seq(Int), n \in Nat :
        size = region.size /\ init = region.init /\ n = Len(init) /\ n <= size
  BY <1>1, AcceptedMeans
<1>3. DOMAIN init = 1..n /\ \A i \in 1..n : init[i] \in ToSet(init)
  BY <1>2, LenProperties DEF ToSet
<1>4. \A address \in 0..(size - 1) : address + 1 \in 1..size /\ (address < n <=> address + 1 <= n)
                                     /\ (address < n => address + 1 \in 1..n)
  BY <1>2
<1>5. CASE r \in BitRegions
  <2>1. \A i \in 1..n : init[i] \in {0, 1}
    BY <1>1, <1>2, <1>3, <1>5, AcceptedMeans
  <2>2. PICK bits : bits = [i \in DOMAIN init |-> init[i] # 0]
    OBVIOUS
  <2>3. bits \in [1..n -> BOOLEAN]
    BY <1>3, <2>2
  <2>4. Len(bits) = n
    BY <2>3, FunctionIsSeq
  <2>5. BlockOf(region, r \in BitRegions) = [i \in 1..size |-> IF i <= n THEN bits[i] ELSE FALSE]
    <3>1. bits = [i \in DOMAIN region.init |-> region.init[i] # 0]
      BY <1>2, <2>2
    <3>2. BlockOf(region, r \in BitRegions) = NewBlock(region.size, bits, FALSE)
      BY <1>5, <3>1 DEF BlockOf
    <3> QED
      BY <1>2, <2>4, <3>2 DEF NewBlock
  <2>6. \A i \in 1..size : i <= n => i \in 1..n
    BY <1>2
  <2>7. [i \in 1..size |-> IF i <= n THEN bits[i] ELSE FALSE] \in [1..size -> BOOLEAN]
    BY <2>3, <2>6
  <2>8. \A i \in 1..n : bits[i] = (init[i] = 1)
    <3>1. \A i \in 1..n : bits[i] = (init[i] # 0)
      BY <1>3, <2>2, Zenon
    <3>2. \A i \in 1..n : (init[i] # 0) <=> (init[i] = 1)
      BY <2>1
    <3> QED
      BY <3>1, <3>2
  <2>9. ASSUME NEW address \in 0..(size - 1)
        PROVE  (IF address + 1 <= n THEN bits[address + 1] ELSE FALSE) =
                 InitialValue(d, r, address)
    <3>1. InitialValue(d, r, address) = IF address < n THEN init[address + 1] = 1 ELSE FALSE
      BY <1>1, <1>2, <1>5 DEF InitialValue
    <3> QED
      BY <1>4, <2>8, <3>1
  <2> QED
    BY <1>1, <1>2, <1>4, <1>5, <2>5, <2>7, <2>9
<1>6. CASE r \notin BitRegions
  <2>1. r \in RegisterRegions
    BY <1>6 DEF Regions, BitRegions, RegisterRegions
  <2>2. \A i \in 1..n : init[i] \in 0..UINT16_MAX
    BY <1>1, <1>2, <1>3, <2>1, AcceptedMeans
  <2>3. BlockOf(region, r \in BitRegions) = [i \in 1..size |-> IF i <= n THEN init[i] ELSE 0]
    BY <1>2, <1>6 DEF BlockOf, NewBlock
  <2>4. [i \in 1..size |-> IF i <= n THEN init[i] ELSE 0] \in [1..size -> 0..UINT16_MAX]
    BY <1>2, <2>2, MaxIsNat
  <2>5. ASSUME NEW address \in 0..(size - 1)
        PROVE  (IF address + 1 <= n THEN init[address + 1] ELSE 0) = InitialValue(d, r, address)
    <3>1. InitialValue(d, r, address) = IF address < n THEN init[address + 1] ELSE 0
      BY <1>1, <1>2, <1>6 DEF InitialValue
    <3> QED
      BY <1>4, <3>1
  <2> QED
    BY <1>1, <1>2, <1>4, <1>6, <2>3, <2>4, <2>5
<1> QED
  BY <1>5, <1>6

(* A walk starts at a number.                                              *)
LEMMA WalkStarts ==
  ASSUME NEW g, IsGenerator(g), Makes(g.fn, g.args)
  PROVE  (IF g.fn = "random_walk" /\ g.args.start # Text
          THEN Bound(g.args.start, g.args) ELSE 0) \in Int
<1> SUFFICES ASSUME g.fn = "random_walk", g.args.start # Text
             PROVE  Bound(g.args.start, g.args) \in Int
  OBVIOUS
<1>1. PICK args : args = g.args
  OBVIOUS
<1>2. \A p \in DOMAIN args : args[p] # Text => args[p] \in Int
  BY <1>1 DEF IsGenerator
<1>3. "start" \in DOMAIN args /\ "min" \in DOMAIN args /\ "max" \in DOMAIN args
  BY <1>1 DEF Makes, Parameters
<1>4. args["start"] # Text /\ args["min"] # Text /\ args["max"] # Text
  BY <1>1 DEF Makes
<1>5. args.start \in Int /\ args.min \in Int /\ args.max \in Int
  BY <1>2, <1>3, <1>4
<1> QED
  BY <1>1, <1>5 DEF Bound

LEMMA BuildOk == IInv /\ Build => IInv'
<1> SUFFICES ASSUME IInv, Build PROVE IInv'
  OBVIOUS
<1>1. config \in Configs /\ Accepted /\ config' = config /\ turn' = 1
  BY DEF IInv, Build
<1>2. bindings' = bindings
      /\ \A d, r, address : /\ BoundTo(d, r, address)' = BoundTo(d, r, address)
                            /\ InitialValue(d, r, address)' = InitialValue(d, r, address)
  BY <1>1, SameBindings
<1>3. Len(bindings) \in Nat /\ DOMAIN bindings = 1..Len(bindings)
  BY <1>1, BindingsAre
<1>4. BlocksFit /\ Stored = "serve"
  BY <1>1, AcceptedMeans DEF BlocksFit, Stored, Accepted
<1>5. phase' = IF bindings = <<>> THEN "serve" ELSE "seed"
  BY <1>4 DEF Build
<1>6. Accepted'
  BY <1>1 DEF Accepted, UnitsDiffer
<1>7. \A d \in DOMAIN config, r \in Regions :
        devices'[d][r] = BlockOf(config[d].regions[r], r \in BitRegions)
  BY DEF Build
<1>8. DOMAIN devices' = DOMAIN config
  BY DEF Build
<1>9. \A d \in DOMAIN config :
        IsDevice(devices'[d], [r \in Regions |-> config[d].regions[r].size], 0..UINT16_MAX)
  <2> SUFFICES ASSUME NEW d \in DOMAIN config
               PROVE  IsDevice(devices'[d], [r \in Regions |-> config[d].regions[r].size],
                               0..UINT16_MAX)
    OBVIOUS
  <2>1. \A r \in Regions :
          devices'[d][r] \in [1..config[d].regions[r].size ->
                                IF r \in BitRegions THEN BOOLEAN ELSE 0..UINT16_MAX]
    BY <1>1, <1>7, BlockIsInitial
  <2>2. DOMAIN devices'[d] = Regions
    BY DEF Build
  <2> QED
    BY <2>1, <2>2 DEF IsDevice
<1>10. walks' \in [DOMAIN bindings -> Int]
  <2> DEFINE start(i) == LET g == bindings[i].generator
                         IN  IF g.fn = "random_walk" /\ g.args.start # Text
                             THEN Bound(g.args.start, g.args) ELSE 0
  <2>1. \A i \in DOMAIN bindings : start(i) \in Int
    BY <1>1, BindingAccepted, WalkStarts
  <2>2. walks' = [i \in DOMAIN bindings |-> start(i)]
    BY DEF Build
  <2> QED
    BY <2>1, <2>2
<1>11. bindings = <<>> \/ 1 \in DOMAIN bindings
  <2>1. CASE Len(bindings) = 0
    <3>1. bindings \in Seq(AllBindings)
      BY <1>1, BindingsAre
    <3> QED
      BY <2>1, <3>1, EmptySeq
  <2> QED
    BY <1>3, <2>1
<1>12. Built'
  BY <1>1, <1>2, <1>6, <1>8, <1>9, <1>10, <1>11 DEF Built
<1>13. Written'
  <2> SUFFICES ASSUME NEW d \in DOMAIN config, NEW r \in Regions,
                      NEW address \in 0..(config[d].regions[r].size - 1)
               PROVE  SlotIs(devices[d][r][address + 1], d, r, address)'
    BY <1>1 DEF Written
  <2>1. devices'[d][r][address + 1] = InitialValue(d, r, address)
    BY <1>1, <1>7, BlockIsInitial
  <2>2. BoundTo(d, r, address) \subseteq DOMAIN bindings
    BY DEF BoundTo
  <2>3. \A i \in DOMAIN bindings : ~(i < 1)
    BY <1>3
  <2>4. {i \in BoundTo(d, r, address) : i < 1} = {}
    BY <2>2, <2>3
  <2>5. phase' = "serve" => BoundTo(d, r, address) = {}
    BY <1>5, <2>2
  <2> QED
    BY <1>1, <1>2, <2>1, <2>4, <2>5 DEF SlotIs, LastWritten
<1>14. CASE bindings = <<>>
  BY <1>1, <1>2, <1>5, <1>12, <1>13, <1>14 DEF IInv, Stage
<1>15. CASE bindings # <<>>
  <2>1. \A i \in DOMAIN bindings : ~(i < 1)
    BY <1>3
  <2> QED
    BY <1>1, <1>2, <1>5, <1>12, <1>13, <1>15, <2>1 DEF IInv, Stage
<1> QED
  BY <1>14, <1>15

-----------------------------------------------------------------------------
(* The updates.                                                            *)

(* The slot of a binding is in a block, so an update raises only if its    *)
(* generator cannot compute.                                               *)
LEMMA OnlySamplesRaise ==
  ASSUME config \in Configs, Built, NEW i \in DOMAIN bindings
  PROVE  UpdateRaises(bindings[i]) <=> ~Computes(i)
<1>1. PICK b, d, r, a : /\ b = bindings[i] /\ d = b.device /\ r = b.region
                        /\ a = b.generator.addr
  OBVIOUS
<1>2. d \in DOMAIN config /\ r \in Regions /\ a \in Nat /\ a < config[d].regions[r].size
  BY <1>1, BindingAccepted DEF Built
<1>3. PICK size \in Nat : size = config[d].regions[r].size
  BY <1>2, AcceptedMeans DEF Built
<1>4. PICK S : devices[d][r] \in [1..size -> S]
  BY <1>2, <1>3 DEF Built, IsDevice
<1>5. Len(devices[d][r]) = size
  BY <1>4, FunctionIsSeq
<1>6. InBlock(devices[d][r], a, 1)
  BY <1>2, <1>3, <1>5 DEF InBlock
<1> QED
  BY <1>1, <1>6 DEF UpdateRaises, Computes

(* The last of the binding numbers up to t, when t is one of them.         *)
LEMMA LastIsTurn ==
  ASSUME NEW n \in Nat, NEW t \in 1..n, NEW B, B \subseteq 1..n, t \in B, NEW value,
         InRange(value, bindings[t].generator)
  PROVE  /\ OfTheLast(value, {i \in B : i < t + 1})
         /\ t = n => OfTheLast(value, B)
<1>1. t \in {i \in B : i < t + 1} /\ \A i \in B : i < t + 1 => i <= t
  OBVIOUS
<1>2. t = n => \A i \in B : i <= t
  OBVIOUS
<1> QED
  BY <1>1, <1>2 DEF OfTheLast

(* A slot that the binding of this turn does not write, and the one that   *)
(* it writes, when the turn passes to the next one.                        *)
LEMMA SlotMoves ==
  ASSUME NEW n \in Nat, turn \in 1..n, turn' = IF turn = n THEN 1 ELSE turn + 1,
         phase' = "serve" /\ phase # "serve" => turn = n,
         NEW B \in SUBSET (1..n), NEW old, LastWritten(old, B, turn, phase),
         NEW new, turn \in B => InRange(new, bindings[turn].generator),
         turn \notin B => new = old
  PROVE  LastWritten(new, B, turn', phase')
<1> PICK t, u, stage, next : t = turn /\ u = turn' /\ stage = phase /\ next = phase'
  OBVIOUS
<1> SUFFICES /\ {i \in B : i < u} # {} => OfTheLast(new, {i \in B : i < u})
             /\ next = "serve" /\ B # {} /\ {i \in B : i < u} = {} => OfTheLast(new, B)
  BY DEF LastWritten
<1>1. /\ {i \in B : i < t} # {} => OfTheLast(old, {i \in B : i < t})
      /\ stage = "serve" /\ B # {} /\ {i \in B : i < t} = {} => OfTheLast(old, B)
  BY DEF LastWritten
<1>2. \A i \in B : i \in Int /\ 1 <= i /\ i <= n
  OBVIOUS
<1>3. CASE t \in B
  <2>1. OfTheLast(new, {i \in B : i < t + 1}) /\ (t = n => OfTheLast(new, B))
    BY <1>3, LastIsTurn
  <2>2. CASE t = n
    <3>1. \A i \in B : ~(i < u)
      BY <1>2, <2>2
    <3> QED
      BY <2>1, <2>2, <3>1
  <2>3. CASE t # n
    <3>1. t \in {i \in B : i < u} /\ u = t + 1
      BY <1>3, <2>3
    <3> QED
      BY <2>1, <3>1
  <2> QED
    BY <2>2, <2>3
<1>4. CASE t \notin B
  <2>1. new = old
    BY <1>4
  <2>2. CASE t = n
    <3>1. \A i \in B : ~(i < u) /\ i < t
      BY <1>2, <1>4, <2>2
    <3>2. {i \in B : i < u} = {} /\ {i \in B : i < t} = B
      BY <3>1
    <3> QED
      BY <1>1, <2>1, <3>2
  <2>3. CASE t # n
    <3>1. \A i \in B : i < u <=> i < t
      BY <1>2, <1>4, <2>3
    <3>2. {i \in B : i < u} = {i \in B : i < t}
      BY <3>1
    <3> QED
      BY <1>1, <2>1, <2>3, <3>2
  <2> QED
    BY <2>2, <2>3
<1> QED
  BY <1>3, <1>4

LEMMA UpdateOk ==
  ASSUME config \in Configs, Built, Written, bindings # <<>>,
         config' = config, NEW s \in {-1, 0, 1}, Update(s),
         phase' = "serve" /\ phase # "serve" => turn = Len(bindings)
  PROVE  Built' /\ Written' /\ Computes(turn)
<1>1. bindings' = bindings
      /\ \A d, r, address : /\ BoundTo(d, r, address)' = BoundTo(d, r, address)
                            /\ InitialValue(d, r, address)' = InitialValue(d, r, address)
  BY SameBindings
<1>2. PICK n \in Nat : n = Len(bindings) /\ DOMAIN bindings = 1..n
  BY BindingsAre
<1>3. turn \in 1..n
  BY <1>2 DEF Built
<1>4. PICK b, D, R, A : b = bindings[turn] /\ D = b.device /\ R = b.region
                        /\ A = b.generator.addr
  OBVIOUS
<1>5. /\ D \in DOMAIN config /\ R \in RegisterRegions /\ R \in Regions
      /\ A \in Nat /\ A < config[D].regions[R].size
      /\ IsGenerator(b.generator) /\ Makes(b.generator.fn, b.generator.args)
  BY <1>2, <1>3, <1>4, BindingAccepted DEF Built
<1>6. Computes(turn) /\ ~SampleRaises(b.generator)
  BY <1>4 DEF Update, UpdateRaises, Computes
<1>7. PICK sample \in Samples(b.generator, walks[turn], s) :
        /\ devices' = [devices EXCEPT ![D][R] = SetSlot(@, A, sample.value)]
        /\ walks' = [walks EXCEPT ![turn] = sample.walk]
  BY <1>4 DEF Update
<1>8. walks[turn] \in Int
  BY <1>2, <1>3 DEF Built
<1>9. PICK v, w : v = sample.value /\ w = sample.walk
  OBVIOUS
<1>10. v \in 0..UINT16_MAX /\ w \in Int /\ InRange(v, b.generator)
  BY <1>5, <1>6, <1>8, <1>9, SampleInRange
<1>11. turn' = IF turn = n THEN 1 ELSE turn + 1
  <2>1. turn' = (turn % n) + 1
    BY <1>2 DEF Update
  <2>2. CASE turn = n
    BY <1>3, <2>1, <2>2
  <2>3. CASE turn # n
    BY <1>3, <2>1, <2>3
  <2> QED
    BY <2>2, <2>3
<1>12. PICK size : size = [d \in DOMAIN config |-> [r \in Regions |-> config[d].regions[r].size]]
  OBVIOUS
<1>13. \A d \in DOMAIN config, r \in Regions :
         size[d][r] = config[d].regions[r].size /\ size[d][r] \in Nat
  BY <1>12, AcceptedMeans DEF Built
<1>14. \A d \in DOMAIN config : IsDevice(devices[d], size[d], 0..UINT16_MAX)
  BY <1>12 DEF Built
<1>15. PICK block : block = SetSlot(devices[D][R], A, v)
  OBVIOUS
<1>16. devices[D][R] \in [1..size[D][R] -> 0..UINT16_MAX]
  <2>1. R \notin BitRegions
    BY <1>5 DEF RegisterRegions, BitRegions, COILS, DISCRETE_INPUTS, HOLDING_REGISTERS,
                INPUT_REGISTERS
  <2> QED
    BY <1>5, <1>14, <2>1 DEF IsDevice
<1>17. A + 1 \in 1..size[D][R]
  BY <1>5, <1>13
<1>18. /\ block \in [1..size[D][R] -> 0..UINT16_MAX]
       /\ \A i \in 1..size[D][R] : block[i] = IF i = A + 1 THEN v ELSE devices[D][R][i]
  BY <1>10, <1>15, <1>16, <1>17 DEF SetSlot
<1>19. DOMAIN devices = DOMAIN config /\ \A d \in DOMAIN config : DOMAIN devices[d] = Regions
  BY <1>14 DEF Built, IsDevice
<1>20. /\ DOMAIN devices' = DOMAIN config
       /\ \A d \in DOMAIN config :
            /\ DOMAIN devices'[d] = Regions
            /\ \A r \in Regions : devices'[d][r] = IF d = D /\ r = R THEN block ELSE devices[d][r]
  BY <1>5, <1>7, <1>9, <1>15, <1>19
<1>21. \A d \in DOMAIN config : IsDevice(devices'[d], size[d], 0..UINT16_MAX)
  <2>1. R \notin BitRegions
    BY <1>5 DEF RegisterRegions, BitRegions, COILS, DISCRETE_INPUTS, HOLDING_REGISTERS,
                INPUT_REGISTERS
  <2> QED
    BY <1>14, <1>18, <1>20, <2>1 DEF IsDevice
<1>22. Accepted'
  BY DEF Accepted, UnitsDiffer, Built
<1>23. walks' \in [DOMAIN bindings -> Int]
  BY <1>7, <1>9, <1>10 DEF Built
<1>24. turn' \in 1..n
  BY <1>3, <1>11
<1>25. Built'
  BY <1>1, <1>2, <1>12, <1>20, <1>21, <1>22, <1>23, <1>24 DEF Built
<1>26. Written'
  <2> SUFFICES ASSUME NEW d \in DOMAIN config, NEW r \in Regions,
                      NEW address \in 0..(config[d].regions[r].size - 1)
               PROVE  SlotIs(devices[d][r][address + 1], d, r, address)'
    BY DEF Written
  <2>1. PICK B, old, new : /\ B = BoundTo(d, r, address)
                           /\ old = devices[d][r][address + 1]
                           /\ new = devices'[d][r][address + 1]
    OBVIOUS
  <2>2. B \in SUBSET (1..n)
    BY <1>2, <2>1 DEF BoundTo
  <2>3. turn \in B <=> d = D /\ r = R /\ address = A
    BY <1>2, <1>3, <1>4, <2>1 DEF BoundTo
  <2>4. address + 1 \in 1..size[d][r] /\ (address + 1 = A + 1 <=> address = A)
    BY <1>5, <1>13
  <2>5. IF turn \in B THEN new = v ELSE new = old
    BY <1>18, <1>20, <2>1, <2>3, <2>4
  <2>6. SlotIs(old, d, r, address)
    BY <2>1 DEF Written
  <2>7. LastWritten(old, B, turn, phase) /\ (B = {} => old = InitialValue(d, r, address))
    BY <2>1, <2>6 DEF SlotIs
  <2>8. IF turn \in B THEN InRange(new, bindings[turn].generator) ELSE new = old
    BY <1>4, <1>10, <2>5
  <2>9. LastWritten(new, B, turn', phase')
    BY <1>2, <1>3, <1>11, <2>2, <2>7, <2>8, SlotMoves
  <2>10. \A T : OfTheLast(new, T)' <=> OfTheLast(new, T)
    BY <1>1 DEF OfTheLast
  <2>11. B = {} => new = InitialValue(d, r, address)
    BY <2>5, <2>7
  <2> QED
    BY <1>1, <2>1, <2>9, <2>10, <2>11 DEF SlotIs, LastWritten
<1> QED
  BY <1>6, <1>25, <1>26

LEMMA RejectOk == IInv /\ Reject => IInv'
BY DEF IInv, Stage, Reject

LEMMA SeedOk == IInv /\ Seed => IInv'
<1> SUFFICES ASSUME IInv, Seed PROVE IInv'
  OBVIOUS
<1>1. /\ config \in Configs /\ bindings # <<>> /\ Built /\ Written
      /\ \A i \in DOMAIN bindings : i < turn => Computes(i)
  BY SMTT(30) DEF IInv, Stage, Seed
<1>2. PICK n \in Nat : n = Len(bindings) /\ DOMAIN bindings = 1..n
  BY <1>1, BindingsAre
<1>0. Stored = "serve"
  BY <1>1 DEF Built, Accepted, Stored
<1>3. /\ config' = config /\ Update(0) /\ turn \in 1..n
      /\ phase = "seed" /\ phase' = IF turn = n THEN "serve" ELSE "seed"
  BY <1>0, <1>1, <1>2 DEF Seed, Built
<1>4. Built' /\ Written' /\ Computes(turn)
  BY <1>1, <1>2, <1>3, UpdateOk
<1>5. bindings' = bindings /\ \A i : Computes(i)' <=> Computes(i)
  BY <1>3, SameBindings DEF Computes
<1>6. \A i \in 1..n : i <= turn => Computes(i)
  <2>1. \A i \in 1..n : i <= turn => i < turn \/ i = turn
    BY <1>3
  <2> QED
    BY <1>1, <1>2, <1>4, <2>1
<1>7. CASE turn = n
  <2>1. phase' = "serve" /\ \A i \in 1..n : i <= turn
    BY <1>3, <1>7
  <2> QED
    BY <1>1, <1>2, <1>3, <1>4, <1>5, <1>6, <2>1 DEF IInv, Stage
<1>8. CASE turn # n
  <2>0. phase' = "seed" /\ turn' = (turn % n) + 1
    BY <1>2, <1>3, <1>8 DEF Update
  <2>1. phase' = "seed" /\ turn' = turn + 1
    BY <1>3, <1>8, <2>0
  <2>2. \A i \in 1..n : i < turn' => i <= turn
    BY <1>3, <2>1
  <2> QED
    BY <1>1, <1>2, <1>3, <1>4, <1>5, <1>6, <2>1, <2>2 DEF IInv, Stage
<1> QED
  BY <1>7, <1>8

LEMMA TickOk == \A s \in {-1, 0, 1} : IInv /\ Tick(s) => IInv'
<1> SUFFICES ASSUME NEW s \in {-1, 0, 1}, IInv, Tick(s) PROVE IInv'
  OBVIOUS
<1>1. /\ config \in Configs /\ bindings # <<>> /\ Built /\ Written
      /\ \A i \in DOMAIN bindings : Computes(i)
      /\ config' = config /\ phase' = "serve" /\ phase = "serve" /\ Update(s)
  BY DEF IInv, Stage, Tick
<1>2. Built' /\ Written'
  BY <1>1, UpdateOk
<1>3. bindings' = bindings /\ \A i : Computes(i)' <=> Computes(i)
  BY <1>1, SameBindings DEF Computes
<1> QED
  BY <1>1, <1>2, <1>3 DEF IInv, Stage

(* Only a seeding fails, and then a generator cannot compute.              *)
LEMMA FailOk == IInv /\ Fail => IInv'
<1> SUFFICES ASSUME IInv, Fail PROVE IInv'
  OBVIOUS
<1>1. config \in Configs /\ Built /\ bindings # <<>> /\ turn \in DOMAIN bindings
  BY DEF IInv, Stage, Fail, Built
<1>2. ~Computes(turn)
  BY <1>1, OnlySamplesRaise DEF Fail
<1>3. phase # "serve"
  BY <1>1, <1>2 DEF IInv, Stage
<1>4. phase' = "raised" /\ UNCHANGED <<config, devices, walks, turn>>
  BY <1>3 DEF Fail
<1>5. bindings' = bindings /\ Computes(turn)' = Computes(turn)
  BY <1>4, SameBindings DEF Computes
<1>6. Built'
  BY <1>1, <1>4, <1>5 DEF Built, Accepted, UnitsDiffer
<1> QED
  BY <1>1, <1>2, <1>4, <1>5, <1>6 DEF IInv, Stage

LEMMA StutterOk == IInv /\ UNCHANGED vars => IInv'
<1> SUFFICES ASSUME IInv, UNCHANGED vars PROVE IInv'
  OBVIOUS
<1>1. /\ bindings' = bindings
      /\ \A d, r, address : /\ BoundTo(d, r, address)' = BoundTo(d, r, address)
                            /\ InitialValue(d, r, address)' = InitialValue(d, r, address)
  BY SameBindings DEF vars
<1>2. Built' <=> Built
  BY <1>1 DEF Built, Accepted, UnitsDiffer, vars
<1>3. \A i : Computes(i)' <=> Computes(i)
  BY <1>1 DEF Computes
<1>4. \A value, d, r, address : SlotIs(value, d, r, address)' <=> SlotIs(value, d, r, address)
  BY <1>1 DEF SlotIs, LastWritten, OfTheLast, vars
<1>5. Written' <=> Written
  BY <1>4 DEF Written, vars
<1> QED
  BY <1>1, <1>2, <1>3, <1>5 DEF IInv, Stage, vars

-----------------------------------------------------------------------------
(* The results.                                                            *)

(* The invariant holds for all files of the assumed shape.                 *)
THEOREM IInvHolds == Spec => []IInv
<1>1. IInv /\ [Next]_vars => IInv'
  BY RejectOk, BuildOk, SeedOk, TickOk, FailOk, StutterOk DEF Next
<1> QED
  BY <1>1, InvInit, PTL DEF Spec

(* Whatever is configured, registers hold 16-bit words, bits are Booleans, *)
(* and blocks keep their sizes: ClampU16 and the validators see to it      *)
(* (config.py, generators.py).                                             *)
THEOREM TypeCorrect == Spec => []TypeOK
<1>1. IInv => TypeOK
  BY DEF IInv, Stage, Built, TypeOK
<1> QED
  BY <1>1, IInvHolds, PTL

(* An accepted file is built and seeded unless a text stands where a       *)
(* generator computes, and once it serves the generator task never dies of *)
(* an update (build_datastore, GeneratorBinding.update).                   *)
THEOREM AcceptedFilesRun == Spec => []WhatIsAcceptedRuns
<1>1. IInv => WhatIsAcceptedRuns
  <2> SUFFICES ASSUME IInv PROVE WhatIsAcceptedRuns
    OBVIOUS
  <2>1. phase # "dead"
    BY DEF IInv, Stage
  <2>2. ASSUME phase = "raised"
        PROVE  \E i \in DOMAIN bindings :
                 LET args == bindings[i].generator.args
                 IN  Text \in {args[p] : p \in DOMAIN args}
    <3>1. config \in Configs /\ Accepted
      BY <2>2 DEF IInv, Stage, Built
    <3>2. PICK i \in DOMAIN bindings : ~Computes(i)
      BY <2>2 DEF IInv, Stage
    <3>3. PICK g : g = bindings[i].generator
      OBVIOUS
    <3>4. Makes(g.fn, g.args) /\ SampleRaises(g)
      BY <3>1, <3>2, <3>3, BindingAccepted DEF Computes
    <3>5. Text \in {g.args[p] : p \in DOMAIN g.args}
      BY <3>4, OnlyTextFails
    <3> QED
      BY <3>3, <3>5
  <2> QED
    BY <2>1, <2>2 DEF WhatIsAcceptedRuns
<1> QED
  BY <1>1, IInvHolds, PTL

(* What StoreIsAsConfigured says of one slot.                              *)
AsConfigured(value, d, r, address) ==
  LET bound == BoundTo(d, r, address)
  IN  IF bound = {}
      THEN value = InitialValue(d, r, address)
      ELSE \E i \in bound : /\ InRange(value, bindings[i].generator)
                            /\ turn = 1 => \A j \in bound : j <= i

(* A slot without generator keeps the initial value of the file for ever,  *)
(* one with generators is in the range of one of them, and of the last of  *)
(* them between two rounds (GeneratorBinding.update, ModbusServer's        *)
(* _run_generators).                                                       *)
THEOREM StoreAlwaysAsConfigured == Spec => []StoreIsAsConfigured
<1>1. IInv => StoreIsAsConfigured
  <2> SUFFICES ASSUME IInv, phase = "serve", NEW d \in DOMAIN config, NEW r \in Regions,
                      NEW address \in 0..(config[d].regions[r].size - 1)
               PROVE  AsConfigured(devices[d][r][address + 1], d, r, address)
    BY DEF StoreIsAsConfigured, AsConfigured, InitialValue
  <2> PICK value, bound : value = devices[d][r][address + 1] /\ bound = BoundTo(d, r, address)
    OBVIOUS
  <2> SUFFICES IF bound = {}
               THEN value = InitialValue(d, r, address)
               ELSE \E i \in bound : /\ InRange(value, bindings[i].generator)
                                     /\ turn = 1 => \A j \in bound : j <= i
    BY DEF AsConfigured
  <2>1. config \in Configs /\ SlotIs(value, d, r, address)
    BY DEF IInv, Stage, Written
  <2>2. /\ bound = {} => value = InitialValue(d, r, address)
        /\ LastWritten(value, bound, turn, "serve")
    BY <2>1 DEF SlotIs
  <2>3. CASE {i \in bound : i < turn} # {}
    <3>1. OfTheLast(value, {i \in bound : i < turn})
      BY <2>2, <2>3 DEF LastWritten
    <3>2. PICK i \in bound : i < turn /\ InRange(value, bindings[i].generator)
      BY <3>1 DEF OfTheLast
    <3>3. i \in Nat /\ i >= 1
      BY <2>1, BindingsAre DEF BoundTo
    <3>4. turn # 1
      BY <3>2, <3>3
    <3> QED
      BY <3>2, <3>4
  <2>4. CASE {i \in bound : i < turn} = {} /\ bound # {}
    <3>1. OfTheLast(value, bound)
      BY <2>2, <2>4 DEF LastWritten
    <3> QED
      BY <2>4, <3>1 DEF OfTheLast
  <2>5. CASE bound = {}
    BY <2>2, <2>5
  <2> QED
    BY <2>3, <2>4, <2>5
<1> QED
  BY <1>1, IInvHolds, PTL
=============================================================================
