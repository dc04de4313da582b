------------------------------- MODULE MCScouts -------------------------------
(* Near-collinear and near-cocircular sites whose products need rounding.   *)
EXTENDS Scouts

Grid(lo, hi) == {<<x, y>> : x \in lo..hi, y \in lo..hi}

Around(p, step) ==
  {<<p[1] + step * x, p[2] + step * y>> : x \in -2..2, y \in -2..2}

(* Coordinates above 64 are even: numbers of the format. *)
MCLineSites ==
  {<<<<0, 0>>, <<26, 13>>, q>> : q \in Around(<<29, 18>>, 3)}
  \cup {<<<<-106, -49>>, <<3, 33>>, q>> : q \in Around(<<124, 124>>, 2)}
  \cup {<<<<-32, -15>>, b, <<45, -94>>>> : b \in Around(<<-30, -17>>, 1)}
  \cup {<<<<-102, 5>>, b, <<76, -94>>>> : b \in Around(<<-19, -41>>, 1)}
  \cup {<<<<-48, 2>>, b, <<-108, -63>>>> : b \in Around(<<-35, 16>>, 1)}

(* Points about a circle of radius 5, and about sites where rounding turns *)
(* the sign of Stage A or of the oracle.                                    *)
MCCircleSites ==
  {<<<<5, 0>>, <<4, 3>>, <<3, 4>>, p>> : p \in Grid(-6, 6)}
  \cup {<<<<-8, 0>>, <<10, -2>>, <<11, -4>>, p>> : p \in Around(<<-10, -9>>, 1)}
  \cup {<<<<5, 1>>, <<-8, 4>>, <<-11, 7>>, p>> : p \in Around(<<12, 4>>, 1)}
  \cup {<<<<7, -7>>, <<10, 10>>, <<-12, 10>>, p>> : p \in Around(<<-11, -5>>, 1)}

MCFollowers ==
  {Open(<<<<-32, -15>>, <<-30, -17>>, <<45, -94>>>>),
   Open(<<<<5, 0>>, <<4, 3>>, <<3, 4>>, <<0, 5>>>>)}
=============================================================================
