--------------------------- MODULE MCDebateStream ---------------------------
(* Small instances of DebateStream. *)
EXTENDS DebateStream

CONSTANTS s1, s2, d1, i1, i2

TwoStreams == {s1, s2}
OneStream == {s1}
OneDecided == {d1}
NoDecided == {}
TwoInterrupts == {i1, i2}
AllAboutFirst == [i \in {i1, i2} |-> s1]
=============================================================================
