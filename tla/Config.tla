------------------------------- MODULE Config -------------------------------
(***************************************************************************)
(* From a configuration file to a device that is alive: the validation and *)
(* build_datastore of modbus_sim/config.py, the generators of              *)
(* modbus_sim/generators.py, and the ticks that move the registers.        *)
(*                                                                         *)
(* A configuration is a sequence of devices, [unit_id, regions]; a region  *)
(* is [size, init, generators], an init that is missing being <<>>; a      *)
(* generator is [addr, fn, args].  An argument is an integer or Text, any  *)
(* YAML value that is not a number.                                        *)
(***************************************************************************)
EXTENDS Datastore, SequencesExt

CONSTANTS
  Configs,  \* the files that are loaded
  Text      \* an argument that is not a number

UINT16_MAX == 65535

(* What pydantic leaves to the validators: the shape of a file, its fields *)
(* being any integers, and the arguments of a generator integers or Text.  *)
ASSUME ConfigsAssumption ==
  \A c \in Configs :
    /\ c \in Seq(ToSet(c))
    /\ \A spec \in ToSet(c), r \in Regions :
         LET region == spec.regions[r]
         IN  /\ region.size \in Int /\ region.init \in Seq(Int)
             /\ region.generators \in Seq(ToSet(region.generators))
             /\ \A g \in ToSet(region.generators) :
                  /\ g.addr \in Int
                  /\ \A p \in DOMAIN g.args : g.args[p] \in {Text} \cup Int

VARIABLES
  config,   \* the file
  phase,    \* "load", then "rejected" or "raised", or "seed", "serve" and "dead"
  devices,  \* the devices, in the order of the file
  walks,    \* walks[i]: RandomWalk._value of the i-th binding, if it has one
  turn      \* the binding to seed or to tick next

vars == <<config, phase, devices, walks, turn>>

-----------------------------------------------------------------------------
(* generators.py.                                                          *)

(* Mutant of ClampU16: the upper bound is one too high. *)
ClampU16PlusOne(value) ==
  IF value < 0 THEN 0 ELSE IF value > UINT16_MAX + 1 THEN UINT16_MAX + 1 ELSE value

ClampU16(value) == IF value < 0 THEN 0 ELSE IF value > UINT16_MAX THEN UINT16_MAX ELSE value

Bound(value, args) ==
  IF value < args.min THEN args.min ELSE IF value > args.max THEN args.max ELSE value

Parameters == [constant    |-> {"value"},
               sine        |-> {"mean", "amp", "period_s"},
               random_walk |-> {"start", "step", "min", "max"}]
Optional   == [constant |-> {}, sine |-> {}, random_walk |-> {"seed"}]

(* make_generator raises no TypeError and no ValueError.  RandomWalk       *)
(* compares its bounds and its start, which three texts allow.             *)
Makes(fn, args) ==
  /\ fn \in DOMAIN Parameters
  /\ Parameters[fn] \subseteq DOMAIN args
  /\ DOMAIN args \subseteq Parameters[fn] \cup Optional[fn]
  /\ \/ fn = "constant" /\ args.value # Text
     \/ fn = "sine" /\ args.period_s # Text /\ args.period_s > 0
     \/ fn = "random_walk" /\ Text \notin {args.start, args.min, args.max}
                           /\ args.min <= args.max
     \/ fn = "random_walk" /\ {args.start, args.min, args.max} = {Text}

(* sample() computes with what Makes did not look at. *)
SampleRaises(g) ==
  \/ g.fn = "sine" /\ Text \in {g.args.mean, g.args.amp}
  \/ g.fn = "random_walk" /\ Text \in {g.args.start, g.args.step}

(* What sample() may return when the sine is s, with the walk's new value. *)
Samples(g, walk, s) ==
  CASE g.fn = "constant"    -> {[value |-> ClampU16(g.args.value), walk |-> walk]}
    [] g.fn = "sine"        -> {[value |-> ClampU16(g.args.mean + s * g.args.amp), walk |-> walk]}
    [] g.fn = "random_walk" ->
         {[value |-> ClampU16(w), walk |-> w] :
            w \in {Bound(walk - g.args.step, g.args), Bound(walk + g.args.step, g.args)}}

-----------------------------------------------------------------------------
(* The models of config.py, and what their validators let through.         *)

(* Mutant of BoundsAccepted: the last address is one too high. *)
BoundsAcceptedPlusOne(region) ==
  /\ Len(region.init) <= region.size
  /\ \A g \in ToSet(region.generators) : g.addr <= region.size

BoundsAccepted(region) ==
  /\ Len(region.init) <= region.size
  /\ \A g \in ToSet(region.generators) : g.addr < region.size

RegionAccepted(region) ==
  /\ region.size \in 0..(UINT16_MAX + 1)
  /\ \A g \in ToSet(region.generators) : g.addr \in 0..UINT16_MAX /\ Makes(g.fn, g.args)
  /\ BoundsAccepted(region)

DeviceAccepted(spec) ==
  /\ spec.unit_id \in 1..247
  /\ \A r \in Regions : RegionAccepted(spec.regions[r])
  /\ \A r \in BitRegions : /\ spec.regions[r].generators = <<>>
                           /\ ToSet(spec.regions[r].init) \subseteq {0, 1}
  /\ \A r \in RegisterRegions : ToSet(spec.regions[r].init) \subseteq 0..UINT16_MAX

UnitsDiffer == \A i, j \in DOMAIN config : config[i].unit_id = config[j].unit_id => i = j

Accepted == (\A i \in DOMAIN config : DeviceAccepted(config[i])) /\ UnitsDiffer

-----------------------------------------------------------------------------
(* build_datastore.                                                        *)

(* Mutant of NewBlock: the initial values come last. *)
NewBlockFilledFirst(size, values, fill) ==
  [i \in 1..size |-> IF i > size - Len(values) THEN values[i - size + Len(values)] ELSE fill]

NewBlock(size, values, fill) ==
  [i \in 1..size |-> IF i <= Len(values) THEN values[i] ELSE fill]

BlockOf(region, bits) ==
  IF bits THEN NewBlock(region.size, [i \in DOMAIN region.init |-> region.init[i] # 0], FALSE)
          ELSE NewBlock(region.size, region.init, 0)

(* MemoryBlock refuses more values than it has slots. *)
BlocksFit ==
  \A d \in DOMAIN config, r \in Regions :
    Len(config[d].regions[r].init) <= config[d].regions[r].size

(* DataStore comes last, and its add() refuses a unit id that it has. *)
Stored == IF UnitsDiffer THEN "serve" ELSE "raised"

BindingsIn(d, region) ==
  [i \in DOMAIN config[d].regions[region].generators |->
     [device |-> d, region |-> region, generator |-> config[d].regions[region].generators[i]]]

BindingsOf(d) == BindingsIn(d, HOLDING_REGISTERS) \o BindingsIn(d, INPUT_REGISTERS)

bindings == FlattenSeq([d \in DOMAIN config |-> BindingsOf(d)])

Init ==
  /\ config \in Configs
  /\ phase = "load"
  /\ devices = <<>> /\ walks = <<>> /\ turn = 0

Reject ==
  /\ phase = "load" /\ ~Accepted
  /\ phase' = "rejected"
  /\ UNCHANGED <<config, devices, walks, turn>>

(* The blocks of all devices and the generators. *)
Build ==
  /\ phase = "load" /\ Accepted
  /\ phase' = IF ~BlocksFit THEN "raised" ELSE IF bindings = <<>> THEN Stored ELSE "seed"
  /\ devices' = [d \in DOMAIN config |->
                   [r \in Regions |-> BlockOf(config[d].regions[r], r \in BitRegions)]]
  /\ walks' = [i \in DOMAIN bindings |->
                 LET g == bindings[i].generator
                 IN  IF g.fn = "random_walk" /\ g.args.start # Text
                     THEN Bound(g.args.start, g.args) ELSE 0]
  /\ turn' = 1
  /\ UNCHANGED config

UpdateRaises(b) ==
  \/ SampleRaises(b.generator)
  \/ ~InBlock(devices[b.device][b.region], b.generator.addr, 1)

(* GeneratorBinding.update for the binding whose turn it is. *)
Update(s) ==
  LET b == bindings[turn]
  IN  /\ ~UpdateRaises(b)
      /\ \E sample \in Samples(b.generator, walks[turn], s) :
           /\ devices' = [devices EXCEPT ![b.device][b.region] =
                            SetSlot(@, b.generator.addr, sample.value)]
           /\ walks' = [walks EXCEPT ![turn] = sample.walk]
      /\ turn' = (turn % Len(bindings)) + 1

(* At t = 0 every sine is 0. *)
Seed ==
  /\ phase = "seed"
  /\ Update(0)
  /\ phase' = IF turn = Len(bindings) THEN Stored ELSE "seed"
  /\ UNCHANGED config

(* The second after second of _run_generators, binding by binding. *)
Tick(s) ==
  /\ phase = "serve" /\ bindings # <<>>
  /\ Update(s)
  /\ UNCHANGED <<config, phase>>

(* An update raises: build_datastore fails, or the generator task dies. *)
Fail ==
  /\ phase \in {"seed", "serve"} /\ bindings # <<>>
  /\ UpdateRaises(bindings[turn])
  /\ phase' = IF phase = "seed" THEN "raised" ELSE "dead"
  /\ UNCHANGED <<config, devices, walks, turn>>

Next == Reject \/ Build \/ Seed \/ Fail \/ \E s \in {-1, 0, 1} : Tick(s)

Spec == Init /\ [][Next]_vars

-----------------------------------------------------------------------------
(* Once there are devices their bits are bits and their registers 16-bit   *)
(* words, whatever was configured and however long the generators run.     *)
TypeOK ==
  /\ phase \in {"load", "rejected", "seed", "serve", "raised", "dead"}
  /\ \A d \in DOMAIN devices :
       IsDevice(devices[d], [r \in Regions |-> config[d].regions[r].size], 0..UINT16_MAX)

(* Of what the validators accept only a text where a generator computes    *)
(* makes build_datastore raise; never an address, an initial value or a    *)
(* unit id.  And the seeding finds all of those: once the server serves,   *)
(* no tick kills the generator task.                                       *)
WhatIsAcceptedRuns ==
  /\ phase # "dead"
  /\ phase = "raised" =>
       \E i \in DOMAIN bindings :
         LET args == bindings[i].generator.args
         IN  Text \in {args[p] : p \in DOMAIN args}

(* The values that the generator of a binding may give its register. *)
InRange(value, g) ==
  CASE g.fn = "constant"    -> value = ClampU16(g.args.value)
    [] g.fn = "sine"        -> value \in {ClampU16(g.args.mean - g.args.amp), ClampU16(g.args.mean),
                                          ClampU16(g.args.mean + g.args.amp)}
    [] g.fn = "random_walk" -> ClampU16(g.args.min) <= value /\ value <= ClampU16(g.args.max)

BoundTo(d, r, address) ==
  {i \in DOMAIN bindings : /\ bindings[i].device = d /\ bindings[i].region = r
                           /\ bindings[i].generator.addr = address}

(* What clients find is what the file says: a slot without generator has   *)
(* its initial value for ever, one with generators a value in the range of *)
(* one of them, and between two rounds of ticks of the last one.           *)
StoreIsAsConfigured ==
  phase = "serve" =>
    \A d \in DOMAIN config, r \in Regions :
      LET spec == config[d].regions[r]
      IN  \A address \in 0..(spec.size - 1) :
            LET value == devices[d][r][address + 1]
                bound == BoundTo(d, r, address)
            IN  IF bound = {}
                THEN value = IF address < Len(spec.init)
                             THEN IF r \in BitRegions THEN spec.init[address + 1] = 1
                                                      ELSE spec.init[address + 1]
                             ELSE IF r \in BitRegions THEN FALSE ELSE 0
                ELSE \E i \in bound :
                       /\ InRange(value, bindings[i].generator)
                       /\ turn = 1 => \A j \in bound : j <= i
=============================================================================
