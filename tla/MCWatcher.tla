----------------------------- MODULE MCWatcher -----------------------------
(* A config that names one content folder, and another one once it is edited. *)
EXTENDS Watcher

CONSTANTS conf, posts, pages

MCMaxEdits == [f \in {conf, posts, pages} |-> IF f = conf THEN 1 ELSE 2]
MCNames == [v \in 0..1 |-> IF v = 0 THEN {posts} ELSE {pages}]

=============================================================================
