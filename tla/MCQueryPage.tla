---------------------------- MODULE MCQueryPage ----------------------------
(* QueryPage on two short files whose lines are of every relevant kind.     *)
EXTENDS QueryPage

CONSTANTS Kinds, OtherKinds, MaxFirst, MaxOther

Line(hit, time, size) == [hit |-> hit, time |-> time, size |-> size]

\* No keyword; early, late and later than the time range; without timestamp.
KindOf(name) ==
  CASE name = "plain" -> Line(FALSE, None, 1)
    [] name = "early" -> Line(TRUE, 1, 1)
    [] name = "late" -> Line(TRUE, 2, 2)
    [] name = "outside" -> Line(TRUE, 3, 1)
    [] name = "untimed" -> Line(TRUE, None, 1)

AllLines == {KindOf(k) : k \in Kinds}

FirstFile == UNION {[1..n -> AllLines] : n \in 0..MaxFirst}
OtherFile == UNION {[1..n -> {KindOf(k) : k \in OtherKinds}] : n \in 0..MaxOther}

AllFiles == {<<first, other>> : first \in FirstFile, other \in OtherFile}

NewLines == {KindOf("early")}
NoLines == {}
=============================================================================
