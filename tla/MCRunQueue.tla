----------------------------- MODULE MCRunQueue -----------------------------
(* Instances of RunQueue for TLC. *)
EXTENDS RunQueue, TLC

CONSTANTS m1, m2, r1, w1, w2, c1, p1, p2

\* Two messages of one run; m2 may be one an earlier release queued.
SameRun == (m1 :> r1) @@ (m2 :> r1)
SameTenant == (m1 :> "t1") @@ (m2 :> "t1")
SameUser == (m1 :> "u1") @@ (m2 :> "u1")

WorkerSymmetry == Permutations(Worker)

=============================================================================
