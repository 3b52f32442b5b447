--------------------------- MODULE MCChannelImport ---------------------------
(* Small instances of ChannelImport for TLC.                               *)
EXTENDS ChannelImport, TLC

CONSTANTS i1, i2, i3, h1, h2

\* An address twice; three addresses, which take two statements to look up;
\* addresses refused, names and groups that lines leave out or that stand far from
\* their address.
MCPlaylists == {
    <<Extinf("n1", "g1"), Address("u1"), Address("u1")>>,
    <<Extinf("n2", Absent), Extinf(Absent, "g1"), Ignored, Address("lo"),
      Extinf("n1", "g1"), Extinf("n2", Absent), Address("file"),
      Address("u1"), Address("u2")>> }

Symmetry == Permutations({i1, i2, i3}) \cup Permutations({h1, h2})

\* Contents that no playlist brings.
MCSubmitted == [url : {"u1", "u2"}, about : {[name |-> "n2", group |-> "g1"]}]
=============================================================================
