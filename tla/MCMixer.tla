------------------------------- MODULE MCMixer -------------------------------
(***************************************************************************)
(* Mixer with a card of five controls: a volume of two channels, an        *)
(* enumeration, a switch, two bytes and a channel status.                  *)
(***************************************************************************)
EXTENDS Mixer

Plain == [type |-> "BOOLEAN", count |-> 1, min |-> 0, max |-> 1, names |-> <<>>]

MCCard == << [Plain EXCEPT !.type = "INTEGER", !.count = 2, !.min = -1, !.max = 2],
             [Plain EXCEPT !.type = "ENUMERATED", !.names = <<"a", "b", "c">>],
             Plain,
             [Plain EXCEPT !.type = "BYTES", !.count = 2],
             [Plain EXCEPT !.type = "IEC958", !.max = 255] >>

\* In and out of every range, and larger than a byte.
MCValue == {-1, 0, 2, 257}
MCPercent == {-1, 0, 34, 100, 101}
MCArray == {<<1>>, <<0, 1>>, <<1, 2>>, <<1, 1, 1>>}
=============================================================================
