----------------------------- MODULE MCFirestore -----------------------------
(***************************************************************************)
(* Instances of Firestore for TLC: two documents, two fields.              *)
(***************************************************************************)
EXTENDS Firestore, TLC

CONSTANTS a, b, n, m

Fields(x, y) == n :> x @@ m :> y

Update(d, fields, mask, incs, pre) ==
  [fields |-> fields, mask |-> mask, incs |-> incs, pre |-> pre, op |-> "update", doc |-> d]
Transform(d, incs, pre) == [Update(d, Blank, None, incs, pre) EXCEPT !.op = "transform"]
Delete(d, pre)          == [Update(d, Blank, None, {}, pre) EXCEPT !.op = "delete"]

\* A document made only if it is missing together with a counter; a masked
\* update with an increment; a move from one document to the other; one
\* counter raised twice.
MCCommits ==
  { <<Update(a, Fields(0, None), None, {}, "missing"), Transform(b, {n}, "none")>>,
    <<Update(a, Fields(None, 1), {m}, {n}, "exists")>>,
    <<Delete(a, "none"), Update(b, Fields(0, 1), None, {}, "exists")>>,
    <<Transform(a, {n}, "none"), Transform(a, {n}, "none")>> }

MCBatches ==
  { <<Delete(b, "none"), Update(a, Fields(1, None), {n}, {}, "exists")>> }

MCContents == {Fields(0, 1)}

\* Two clients that create the same document.
Creations == {<<Update(a, Fields(0, None), None, {}, "missing")>>}
NoBatches == {}

HandlerSymmetry == Permutations(Handler)
=============================================================================
