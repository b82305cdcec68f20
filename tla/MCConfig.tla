------------------------------ MODULE MCConfig ------------------------------
(***************************************************************************)
(* Files with one region that varies, in sizes, initial values and         *)
(* generators on both sides of every bound, and files with two devices.    *)
(***************************************************************************)
EXTENDS Config

Fixed(v)     == [fn |-> "constant", args |-> [value |-> v]]
Wave(m, a, p) == [fn |-> "sine", args |-> [mean |-> m, amp |-> a, period_s |-> p]]
Walk(s, d, l, h) ==
  [fn |-> "random_walk", args |-> [start |-> s, step |-> d, min |-> l, max |-> h]]

Functions == {Fixed(-1), Fixed(7), Fixed(UINT16_MAX + 1), Fixed(Text),
              Wave(UINT16_MAX, 2, 1), Wave(1, 2, 0), Wave(Text, 2, 1), Wave(1, Text, 1),
              Wave(1, 2, Text),
              Walk(9, 2, -1, 3), Walk(0, 3, 5, 4), Walk(UINT16_MAX, 4, UINT16_MAX - 9, UINT16_MAX + 3),
              Walk(1, Text, 0, 3), Walk(Text, 1, 0, 3), Walk(Text, 1, Text, Text),
              [fn |-> "random_walk", args |-> [start |-> 1, step |-> 1, min |-> 0, max |-> 2,
                                               seed |-> 42]],
              [fn |-> "square", args |-> [value |-> 1]],
              [fn |-> "sine", args |-> [value |-> 1]]}

At(addr, f) == [addr |-> addr, fn |-> f.fn, args |-> f.args]
Generators  == {At(addr, f) : addr \in {-1, 0, 1, 2}, f \in Functions}
Sound       == {At(0, Fixed(7)), At(1, Walk(9, 2, -1, 3)), At(0, Wave(UINT16_MAX, 2, 1)),
                At(1, Wave(1, Text, 1))}

Region(size, init, generators) == [size |-> size, init |-> init, generators |-> generators]
Empty == Region(0, <<>>, <<>>)
Inits == {<<>>, <<1>>, <<0, 1>>, <<-1>>, <<2, UINT16_MAX>>, <<UINT16_MAX + 1>>, <<1, 1, 1>>}

Varied == {Region(size, init, <<>>) : size \in {-1, 0, 2}, init \in Inits}
            \cup {Region(2, <<1, 1>>, <<g>>) : g \in Generators}
            \cup {Region(2, <<>>, <<g, h>>) : g, h \in Sound}
            \cup {Region(size, <<>>, <<At(1, Fixed(7))>>) : size \in {1, UINT16_MAX + 2}}

DeviceWith(unit_id, region, spec) ==
  [unit_id |-> unit_id, regions |-> [r \in Regions |-> IF r = region THEN spec ELSE Empty]]

MCConfigs ==
  {<<DeviceWith(1, r, spec)>> : r \in Regions, spec \in Varied}
    \cup {<<DeviceWith(u, HOLDING_REGISTERS, Region(1, <<5>>, <<At(0, Walk(1, 1, 0, 2))>>)),
            DeviceWith(v, INPUT_REGISTERS, Region(2, <<>>, <<g>>))>> :
            u \in {0, 1, 247}, v \in {1, 248}, g \in Sound}
=============================================================================
