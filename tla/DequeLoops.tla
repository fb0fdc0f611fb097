----------------------------- MODULE DequeLoops -----------------------------
(* The loops that shorten a deque, a sequence whose head is the front. *)
EXTENDS Integers, Sequences, SequencesExt

\* while(!q.empty() && Gone(q.back())) q.pop_back(), and the same at the front
PopBackWhile(q, Gone(_)) ==
  SubSeq(q, 1, Max({0} \cup {i \in DOMAIN q : ~Gone(q[i])}))
PopFrontWhile(q, Gone(_)) ==
  SubSeq(q, Min({Len(q) + 1} \cup {i \in DOMAIN q : ~Gone(q[i])}), Len(q))
=============================================================================
