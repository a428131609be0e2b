---------------------------- MODULE MCWorkstation ----------------------------
(* Instances of Workstation. *)
EXTENDS Workstation, TLC

N(v) == [num |-> TRUE, val |-> v]
W(v) == [num |-> FALSE, val |-> v]
V(major, minor, patch, pre) == [core |-> <<major, minor, patch>>, pre |-> pre]

V190    == V(1, 9, 0, <<>>)
V110rc2 == V(1, 10, 0, <<W(1), N(2)>>)
V110rc10 == V(1, 10, 0, <<W(1), N(10)>>)
V110x   == V(1, 10, 0, <<N(10), W(0)>>)
V110    == V(1, 10, 0, <<>>)

R(tag, archive, sums) == [tag |-> tag, archive |-> archive, sums |-> sums]
MCReleases == {R(V110rc10, TRUE, "listed"), R(V110x, TRUE, "listed"),
               R(V110, TRUE, "listed"), R(V190, TRUE, "listed"),
               R(V110, FALSE, "listed"), R(V110, TRUE, "missing"),
               R(None, TRUE, "unlisted")}
MCInstalled == {V190, V110rc2, V110, Dev}

MCCommands(n, m, u, pol) ==
    {[op |-> "connect", name |-> n, url |-> u], [op |-> "connect", name |-> m, url |-> u],
     [op |-> "enable", name |-> None, tuned |-> FALSE],
     [op |-> "enable", name |-> n, tuned |-> TRUE],
     [op |-> "disable", name |-> n],
     [op |-> "apply", name |-> None, policy |-> pol],
     [op |-> "use", name |-> n]}
CONSTANTS n1, n2, u1, pol1
MCCmds == MCCommands(n1, n2, u1, pol1)

MCSymmetry == Permutations(Procs)
=============================================================================
