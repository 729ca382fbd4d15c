-------------------------- MODULE MCViteDevServer --------------------------
(* A dev server with a content file and its config.  The first edit of the    *)
(* config drops the folder of the file, the second one names it again.        *)
EXTENDS ViteDevServer

CONSTANTS post, config

MCMaxEdits == [f \in {post, config} |-> 2]
MCNamed == [v \in 0..2 |-> IF v = 1 THEN {} ELSE {post}]

=============================================================================
