---------------------------- MODULE VectorUnitMC ----------------------------
(* Programs made of the pieces the kernels of yololite are made of.        *)
EXTENDS VectorUnit

Cmd(type, lanes, n, chain, src1, src2, dst, gamma) ==
  [type |-> type, lanes |-> lanes, n |-> n, chain |-> chain, blocking |-> FALSE,
   src1 |-> src1, src2 |-> src2, dst |-> dst, gamma |-> gamma, sync |-> FALSE]

Load(n, adr) == Cmd("load", {2}, n, TRUE, adr, "none", "none", 0)
Store(n, l) == Cmd("store", {2}, n, FALSE, "none", "none", "left", l)
Proc(lanes, n, chain, src1, src2) == Cmd("proc", lanes, n, chain, src1, src2, "none", 0)

Synced(p) == <<[p[1] EXCEPT !.sync = TRUE]>> \o Tail(p)

\* loads for both lanes; results of a lane stored; a lane feeds the other;
\* loads from addresses a lane computes; load, compute and store; both
\* lanes work, one keeping the unit from fetching meanwhile.
Pieces(n) ==
  {<<Load(n, "none"), Proc({0, 1}, n, FALSE, "ls", "none")>>,
   <<Proc({1}, n, TRUE, "none", "none"), Store(n, 1)>>,
   <<Proc({0}, n, TRUE, "none", "none"), Proc({1}, n, FALSE, "none", "left")>>,
   <<Proc({0}, n, TRUE, "none", "none"), Load(n, "ileft"), Proc({1}, n, FALSE, "ls", "none")>>,
   <<Load(n, "none"), Proc({0}, n, TRUE, "ls", "none"), Store(n, 0)>>,
   <<[Proc({0, 1}, n, FALSE, "none", "none") EXCEPT !.blocking = TRUE]>>}

Readers(p, c, s) == {l \in p[c].lanes : \E o \in Chained(p[c]) : Source(l, p[c], o) = s}

\* Without a wait between its commands a program leaves a FIFO to the same
\* readers, and gives none of them work of its own if they are two.
Disciplined(p) ==
  \A s \in Lanes, c \in DOMAIN p :
    /\ \A d \in DOMAIN p : {{}, Readers(p, c, s), Readers(p, d, s)} = {{}, Readers(p, c, s)}
                           \/ Readers(p, c, s) = {}
    /\ Readers(p, c, s) = {0, 1} =>
         \A d \in 1 .. c : p[d].lanes \cap {0, 1} \in {{}, {0, 1}}

Long == <<Proc({1}, 12, TRUE, "none", "none"), Store(12, 1)>>

Pairs ==
  {IF Disciplined(p \o q) THEN p \o q ELSE p \o Synced(q) : p \in Pieces(3), q \in Pieces(3)}

\* Addresses from the load/store lane, from the other lane for two operands,
\* and from the other lane together with data from the load/store lane, as in
\* the tests of apps/indirect_addressing.
Scatters(n) ==
  LET offsets == Proc({0}, n, TRUE, "none", "none")
      scatter == Proc({1}, n, FALSE, "none", "none")
  IN {<<Load(n, "none"), [scatter EXCEPT !.dst = "ils"]>>,
      <<offsets, [scatter EXCEPT !.dst = "ileft", !.src1 = "ileft"]>>,
      <<offsets, Load(n, "none"), [scatter EXCEPT !.dst = "ileft", !.src2 = "ls"]>>}

\* The second half of the offsets and of the data comes late: the lane waits
\* for an offset and for data at once.
Late ==
  <<Proc({0}, 3, TRUE, "none", "none"), Load(2, "none"),
    [Proc({1}, 4, FALSE, "none", "ls") EXCEPT !.dst = "ileft"],
    Proc({0}, 6, FALSE, "none", "none"), Proc({0}, 1, TRUE, "none", "none"), Load(2, "none")>>

MCPrograms == Pairs \cup Scatters(4) \cup {Long, Late}

\* Lane 1 still works when it waits for the addresses it takes from lane 0.
OffsetPrograms ==
  {<<Proc({0, 1}, 2, FALSE, "none", "none"), Proc({0}, 2, TRUE, "none", "none"),
     Proc({1}, 2, FALSE, "ileft", "none")>>}

\* Lane 1 adds what lane 0 and the load/store lane give.
TwoSourcePrograms ==
  {<<Proc({0}, 2, TRUE, "none", "none"), Load(2, "none"), Proc({1}, 2, FALSE, "ls", "left")>>}
=============================================================================
