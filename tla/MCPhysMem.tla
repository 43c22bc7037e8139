------------------------------ MODULE MCPhysMem ------------------------------
(* PhysMem on small memory maps.                                           *)
EXTENDS PhysMem

usable(b, n) == [base |-> b, pages |-> n, usable |-> TRUE]
reserved(b, n) == [base |-> b, pages |-> n, usable |-> FALSE]

\* Regions of 1 frame (skipped), 2 frames (its estimate overshoots), more; a
\* reserved frame or an area's header after the one that overshoots; in and out of
\* order.
MCMemMaps ==
  { <<usable(1, 2), reserved(3, 1), usable(4, 6), usable(10, 1), usable(11, 8)>>,
    <<usable(8, 7), usable(2, 2), usable(4, 4)>>,
    <<usable(9, 7), usable(2, 2), reserved(4, 1), usable(5, 4)>>,
    <<reserved(0, 1), usable(1, 1), reserved(2, 2)>> }
MCW == 32

\* The estimate of pmm_init against the frames a region really has beside its
\* header: it is right or one too high, and too high exactly for these regions.
ASSUME \A n \in 2 .. 65500 :
  LET excess == NumFree(n) + HeaderPages(n) - n
  IN  /\ excess \in {0, 1}
      /\ excess = 1 <=> n = 2 \/ n \in 32449 .. 32771 \/ n \in 65217 .. 65500
=============================================================================
