--------------------------- MODULE MCOutputWriter ---------------------------
(* A small output folder for OutputWriter: two documents, one of which is   *)
(* renamed in its case only.  MCCaseSensitive and MCLower are the two kinds  *)
(* of file system: one keeps the two names apart, the other does not.       *)
EXTENDS OutputWriter, TLC

CONSTANTS post, Post, page, index

MCFiles == {post, Post, page, index}
MCRank == [f \in MCFiles |-> IF f = index THEN 2 ELSE 0]

MCTexts == {"post", "Post", "page1", "page2", "index1", "index2"}
MCImports ==
    [t \in MCTexts |-> CASE t = "index1" -> {post, page}
                         [] t = "index2" -> {Post}
                         [] OTHER -> {}]
\* Sizes never tell two texts apart.
MCSize == [t \in MCTexts |-> 1]
MCLower == [f \in MCFiles |-> IF f = Post THEN post ELSE f]
MCCaseSensitive == [f \in MCFiles |-> f]

MCPlan(files) == [f \in MCFiles |-> IF f \in DOMAIN files THEN files[f]
                                                          ELSE Nothing]
MCPlans ==
    {MCPlan((post :> "post") @@ (page :> "page1") @@ (index :> "index1")),
     MCPlan((Post :> "Post") @@ (index :> "index2")),
     MCPlan((Post :> "Post") @@ (page :> "page2") @@ (index :> "index2"))}

\* A session whose manifest is not the one on disk reads it again before it
\* uses anything else it remembers, except that it once looked at the files.
MCView ==
    <<disk, manifest, job, touched,
      [s \in Sessions |->
          IF mem[s].known \/ s = writer THEN mem[s]
          ELSE [NewState EXCEPT !.verified = mem[s].verified]]>>
MCSymmetry == Permutations(Sessions)

MCLegacyFiles == {Post, index}

=============================================================================
