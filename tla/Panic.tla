-------------------------------- MODULE Panic ---------------------------------
(***************************************************************************)
(* Code that runs on a machine w, a record whose field kernel is "running" *)
(* or says why the kernel has panicked.  What an operator makes of a       *)
(* machine that has panicked is of no account.                             *)
(***************************************************************************)
EXTENDS Sequences, SequencesExt

panics(w, why) == IF w.kernel = "running" THEN [w EXCEPT !.kernel = why] ELSE w

\* One piece of code after another, unless the kernel has panicked: Op is
\* given the machine that w stands for.
then(w, Op(_)) == CHOOSE r \in {IF v.kernel = "running" THEN Op(v) ELSE v : v \in {w}} : TRUE

\* A loop over seq, which a panic ends.
loop(Op(_, _), w, seq) == FoldLeft(LAMBDA v, x : IF v.kernel = "running" THEN Op(v, x) ELSE v, w, seq)
=============================================================================
