------------------------- MODULE OutputWriterProofs -------------------------
(***************************************************************************)
(* What the diff writer keeps true for every number of sessions, every set *)
(* of files and plans and every file system: the types, a manifest that    *)
(* never vouches for the wrong text, no file that a later build would not  *)
(* find, and index files that point at what is there.  On a file system    *)
(* that tells names apart by their case: a build that has nothing to do    *)
(* leaves what it planned on disk, and so does one that succeeds.          *)
(***************************************************************************)
EXTENDS OutputWriter, TLAPS

\* A session that knows the manifest has the one on disk in memory.
KnownIsCurrent ==
    \A s \in Sessions :
        mem[s].known => manifest # None /\ mem[s].manifest = manifest

\* The session that writes knows the manifest, or knows that there is none.
WriterKnows == writer # None => mem[writer].manifest = manifest

\* From the first write on there is a manifest, and it lists every file still
\* to be written with an unknown hash.
PendingUnknown ==
    /\ \A f \in pending : recorded[f] = Unknown
    /\ pc \in {"write", "sweep", "rescue"} =>
          /\ manifest # None
          /\ \A f \in pending : manifest[f] = Unknown

\* What the manifest is going to say is as truthful as what it says...
RecordedTruthful ==
    writer # None =>
        \A f \in Files :
            recorded[f] \in Texts => disk[f] \in NoText \cup {recorded[f]}

\* ...and as complete.
RecordedComplete ==
    writer # None => \A f \in Files : Present(f) => recorded[f] # Nothing

Inv ==
    /\ TypeOK
    /\ KnownIsCurrent
    /\ WriterKnows
    /\ PendingUnknown
    /\ RecordedTruthful
    /\ RecordedComplete
    /\ ManifestTruthful
    /\ NothingOrphaned

----------------------------------------------------------------------------
(* Facts about the operators.                                              *)

LEMMA Types ==
    /\ Empty \in Listing
    /\ Plans \subseteq Listing
    /\ NewState \in States
    /\ None \notin Sessions /\ None \notin Listing
    /\ Unknown \notin Texts /\ Nothing \notin Texts /\ Unknown # Nothing
    /\ Texts \cap NoText = {}
  BY Markers, PlansAreComplete
     DEF Empty, Listing, NewState, States, Unknown, Nothing, NoText, Absent,
         Deleted, UserTexts

\* Looking at the manifest leaves a session in a state of the right type, in
\* which the manifest in memory is the one on disk.
LEMMA CurrentFacts ==
    ASSUME TypeOK, KnownIsCurrent, NEW s \in Sessions
    PROVE  /\ Current(s) \in States
           /\ Current(s).manifest = manifest
           /\ Current(s).known <=> manifest # None
  BY Types DEF TypeOK, KnownIsCurrent, Current, States

\* Folder entries that come and go change nothing but what a session thinks
\* of the folders.
LEMMA TouchFacts ==
    ASSUME TypeOK, NEW hidden \in SUBSET Sessions
    PROVE  /\ Touch(hidden) \in [Sessions -> States]
           /\ \A s \in Sessions : /\ Touch(hidden)[s].manifest = mem[s].manifest
                                  /\ Touch(hidden)[s].known = mem[s].known
  BY DEF TypeOK, Touch, States

LEMMA AdoptedFacts ==
    ASSUME TypeOK
    PROVE  /\ AdoptLegacy \in Listing
           /\ \A f \in Files : AdoptLegacy[f] \notin Texts
  BY Types DEF AdoptLegacy, Listing

LEMMA SavedFacts ==
    ASSUME TypeOK, KnownIsCurrent, WriterKnows, writer # None,
           NEW own \in States
    PROVE  /\ Saved(own) \in [Sessions -> States]
           /\ \A s \in Sessions : Saved(own)[s].known =>
                 Saved(own)[s].manifest = recorded
           /\ recorded # None
  <1>1. recorded \in Listing /\ recorded # None
    BY Types DEF TypeOK
  <1>2. Saved(own) \in [Sessions -> States]
    BY <1>1 DEF Saved, TypeOK, States
  <1>3. ASSUME NEW s \in Sessions, Saved(own)[s].known
        PROVE  Saved(own)[s].manifest = recorded
    <2>1. CASE s = writer
      BY <2>1, <1>1 DEF Saved, TypeOK, States
    <2>2. CASE s # writer /\ ManifestIsSaved
      BY <2>2, <1>3 DEF Saved, ManifestIsSaved, KnownIsCurrent, WriterKnows
    <2>3. CASE s # writer /\ ~ManifestIsSaved
      BY <2>3, <1>3 DEF Saved, TypeOK, States
    <2>4. QED
      BY <2>1, <2>2, <2>3
  <1>4. QED
    BY <1>1, <1>2, <1>3

----------------------------------------------------------------------------

LEMMA InitInv == Init => Inv
  <1> SUFFICES ASSUME Init PROVE Inv
    OBVIOUS
  <1>1. TypeOK
    <2>1. disk \in [Files -> Texts \cup NoText]
      BY PlansAreComplete DEF Init, LegacyDisks, NoText
    <2>2. mem \in [Sessions -> States]
      BY Types DEF Init
    <2>3. QED
      BY <2>1, <2>2, Types DEF Init, TypeOK
  <1>2. KnownIsCurrent /\ WriterKnows /\ PendingUnknown
    BY DEF Init, KnownIsCurrent, WriterKnows, PendingUnknown, NewState
  <1>3. RecordedTruthful /\ RecordedComplete /\ ManifestTruthful
    BY DEF Init, RecordedTruthful, RecordedComplete, ManifestTruthful
  <1>4. NothingOrphaned
    <2>1. CASE disk = [f \in Files |-> Absent]
      BY <2>1 DEF Init, NothingOrphaned, Present
    <2>2. CASE disk \in LegacyDisks
      <3>1. PICK q \in Plans :
                /\ Planned(q) \subseteq LegacyFiles
                /\ disk = [f \in Files |-> IF q[f] = Nothing THEN Absent
                                                             ELSE q[f]]
        BY <2>2 DEF LegacyDisks
      <3>2. \A f \in Files : Present(f) <=> f \in Planned(q)
        BY <3>1, Types, PlansAreComplete
           DEF Present, Planned, NoText, Absent, Deleted
      <3>3. Adoptable
        BY <3>1, <3>2, PlansAreComplete DEF Adoptable, Planned
      <3>4. QED
        BY <3>3 DEF Init, NothingOrphaned
    <2>3. QED
      BY <2>1, <2>2 DEF Init
  <1>5. QED
    BY <1>1, <1>2, <1>3, <1>4 DEF Inv

----------------------------------------------------------------------------
(* A step at a time.                                                       *)

LEMMA BeginWriteInv ==
    ASSUME Inv, NEW s \in Sessions, NEW p \in Plans, BeginWrite(s, p)
    PROVE  Inv'
  <1> DEFINE state == Current(s)
             previous == IF state.manifest # None THEN state.manifest
                                                  ELSE AdoptLegacy
  <1> USE DEF Inv
  <1>1. /\ state \in States
        /\ state.manifest = manifest
        /\ state.known <=> manifest # None
    BY CurrentFacts
  <1>2. /\ previous \in Listing
        /\ manifest = None => previous = AdoptLegacy
        /\ manifest # None => previous = manifest
    BY <1>1, AdoptedFacts DEF TypeOK
  <1> DEFINE todo == {f \in Planned(p) :
                        \/ previous[f] # p[f]
                        \/ ~Intact(f, p[f], ~state.verified,
                                   IF ~state.verified THEN "changed"
                                   ELSE state.folders)}
  <1>3. /\ writer = None
        /\ writer' = s
        /\ plan' = p
        /\ pending' = todo
        /\ stale' = StaleFiles(previous, p)
        /\ recorded' = RecordAtStart(previous, todo)
        /\ mem' = [mem EXCEPT ![s] = [state EXCEPT !.revision = None]]
        /\ pc' = IF todo = {} THEN "write" ELSE "list"
        /\ stopped' = FALSE
        /\ touched' = FALSE
        /\ UNCHANGED <<disk, manifest>>
    BY DEF BeginWrite
  <1>4. /\ todo \subseteq Planned(p)
        /\ todo \subseteq Files
        /\ p \in Listing
    BY Types DEF Planned
  <1> HIDE DEF todo, previous, state
  <1>5. recorded' \in Listing
    BY <1>2, <1>3, <1>4 DEF RecordAtStart, Listing
  <1>6. mem' \in [Sessions -> States]
    BY <1>1, <1>3 DEF TypeOK, States
  <1>7. TypeOK'
    BY <1>2, <1>3, <1>4, <1>5, <1>6, Types
       DEF TypeOK, StaleFiles, Planned
  <1>8. /\ mem'[s].manifest = manifest
        /\ mem'[s].known <=> manifest # None
        /\ \A t \in Sessions \ {s} : mem'[t] = mem[t]
    BY <1>1, <1>3 DEF TypeOK, States
  <1>9. KnownIsCurrent'
    BY <1>3, <1>8 DEF KnownIsCurrent
  <1>10. WriterKnows'
    BY <1>3, <1>8 DEF WriterKnows
  <1>11. manifest = None => todo # {}
    <2>1. PICK f \in Planned(p) : Rank[f] = 2
      BY PlansAreComplete
    <2>2. p[f] \in Texts /\ f \in Files
      BY <2>1, PlansAreComplete DEF Planned
    <2>3. manifest = None => previous[f] \notin Texts
      BY <1>2, <2>2, AdoptedFacts
    <2>4. QED
      BY <2>1, <2>2, <2>3 DEF todo
  <1>12. PendingUnknown'
    BY <1>3, <1>4, <1>11 DEF PendingUnknown, RecordAtStart, TypeOK
  <1>13. RecordedTruthful'
    <2>1. \A f \in Files : recorded'[f] \in Texts =>
              recorded'[f] = previous[f] /\ manifest # None
      BY <1>2, <1>3, Types, AdoptedFacts DEF RecordAtStart
    <2>2. QED
      BY <1>2, <1>3, <2>1 DEF RecordedTruthful, ManifestTruthful
  <1>14. RecordedComplete'
    <2>1. \A f \in Files : Present(f) => previous[f] # Nothing
      BY <1>2, Types DEF NothingOrphaned, AdoptLegacy
    <2>2. QED
      BY <1>3, <2>1, Types DEF RecordedComplete, RecordAtStart, Present
  <1>15. ManifestTruthful' /\ NothingOrphaned'
    BY <1>3 DEF ManifestTruthful, NothingOrphaned, Adoptable, Present
  <1>16. QED
    BY <1>7, <1>9, <1>10, <1>12, <1>13, <1>14, <1>15

\* A write or a removal in the middle of a call.
LEMMA WriteFileInv ==
    ASSUME Inv, NEW f \in Files, WriteFile(f)
    PROVE  Inv'
  <1> USE DEF Inv
  <1>1. PICK hidden \in SUBSET Sessions : mem' = Touch(hidden)
    BY DEF WriteFile
  <1>2. f \in pending /\ plan[f] \in Texts /\ pc = "write"
    <2>1. f \in pending /\ pc = "write"
      BY DEF WriteFile, Startable
    <2>2. QED
      BY <2>1, Types, PlansAreComplete DEF TypeOK, Planned, Empty
  <1>3. writer \in Sessions /\ writer' = writer /\ manifest # None
    BY <1>2 DEF WriteFile, TypeOK, PendingUnknown
  <1>4. /\ disk' \in [Files -> Texts \cup NoText]
        /\ disk'[f] = plan[f]
        /\ \A g \in Files \ {f} : disk'[g] = disk[g] \/ disk'[g] = Absent
    BY <1>2 DEF WriteFile, TypeOK, NoText
  <1>5. /\ recorded' \in Listing
        /\ recorded'[f] = plan[f]
        /\ \A g \in Files \ {f} : recorded'[g] = recorded[g]
    BY <1>2 DEF WriteFile, TypeOK, Listing
  <1>6. TypeOK'
    BY <1>1, <1>4, <1>5, TouchFacts DEF WriteFile, TypeOK
  <1>7. KnownIsCurrent' /\ WriterKnows'
    BY <1>1, <1>3, TouchFacts DEF WriteFile, KnownIsCurrent, WriterKnows
  <1>8. PendingUnknown'
    BY <1>2, <1>3, <1>5 DEF WriteFile, PendingUnknown, TypeOK, Planned
  <1>9. RecordedTruthful'
    BY <1>3, <1>4, <1>5 DEF RecordedTruthful, NoText
  <1>10. RecordedComplete'
    BY <1>2, <1>3, <1>4, <1>5, Types DEF RecordedComplete, Present
  <1>11. manifest[f] = Unknown
    BY <1>2 DEF PendingUnknown
  <1>12. ManifestTruthful'
    BY <1>3, <1>4, <1>11, Types DEF WriteFile, ManifestTruthful, NoText
  <1>13. NothingOrphaned'
    BY <1>3, <1>4, <1>11, Types DEF WriteFile, NothingOrphaned, Present
  <1>14. QED
    BY <1>6, <1>7, <1>8, <1>9, <1>10, <1>12, <1>13

LEMMA RemoveStaleInv ==
    ASSUME Inv, NEW f \in Files, RemoveStale(f)
    PROVE  Inv'
  <1> USE DEF Inv
  <1>1. PICK hidden \in SUBSET Sessions : mem' = Touch(hidden)
    BY DEF RemoveStale
  <1>2. f \in stale /\ f \notin pending /\ pc \in {"write", "sweep"}
    BY DEF RemoveStale, Renamed, TypeOK
  <1>3. writer \in Sessions /\ writer' = writer /\ manifest # None
    BY <1>2 DEF RemoveStale, TypeOK, PendingUnknown
  <1>4. /\ disk' \in [Files -> Texts \cup NoText]
        /\ disk'[f] \in {Absent, Deleted}
        /\ \A g \in Files : disk'[g] = disk[g] \/ disk'[g] = Absent
    BY DEF RemoveStale, TypeOK, NoText, Present
  <1>5. /\ recorded' \in Listing
        /\ recorded'[f] = Nothing
        /\ \A g \in Files \ {f} : recorded'[g] = recorded[g]
    BY DEF RemoveStale, TypeOK, Listing
  <1>6. TypeOK'
    BY <1>1, <1>4, <1>5, TouchFacts DEF RemoveStale, TypeOK
  <1>7. KnownIsCurrent' /\ WriterKnows'
    BY <1>1, <1>3, TouchFacts DEF RemoveStale, KnownIsCurrent, WriterKnows
  <1>8. PendingUnknown'
    BY <1>2, <1>5 DEF RemoveStale, PendingUnknown, TypeOK, Planned
  <1>9. RecordedTruthful'
    BY <1>3, <1>4, <1>5, Types DEF RecordedTruthful, NoText
  <1>10. RecordedComplete'
    BY <1>3, <1>4, <1>5 DEF RecordedComplete, Present
  <1>11. ManifestTruthful' /\ NothingOrphaned'
    BY <1>3, <1>4
       DEF RemoveStale, ManifestTruthful, NothingOrphaned, Present, NoText
  <1>12. QED
    BY <1>6, <1>7, <1>8, <1>9, <1>10, <1>11

LEMMA RemoveStaleFailsInv ==
    ASSUME Inv, NEW f \in Files, RemoveStaleFails(f)
    PROVE  Inv'
  <1> USE DEF Inv
  <1>1. f \in stale /\ f \notin pending
    BY DEF RemoveStaleFails, Renamed, TypeOK
  <1>2. /\ recorded' \in Listing
        /\ recorded'[f] = Unknown
        /\ \A g \in Files \ {f} : recorded'[g] = recorded[g]
    BY DEF RemoveStaleFails, RecordNotRemoved, TypeOK, Listing
  <1>3. TypeOK'
    BY <1>2 DEF RemoveStaleFails, TypeOK
  <1>4. KnownIsCurrent' /\ WriterKnows'
    BY DEF RemoveStaleFails, KnownIsCurrent, WriterKnows
  <1>5. PendingUnknown'
    BY <1>1, <1>2 DEF RemoveStaleFails, PendingUnknown, TypeOK, Planned
  <1>6. RecordedTruthful' /\ RecordedComplete'
    BY <1>2, Types
       DEF RemoveStaleFails, RecordedTruthful, RecordedComplete, Present
  <1>7. ManifestTruthful' /\ NothingOrphaned'
    BY DEF RemoveStaleFails, ManifestTruthful, NothingOrphaned, Adoptable,
           Present
  <1>8. QED
    BY <1>3, <1>4, <1>5, <1>6, <1>7

\* The manifest is saved in the middle of a call...
LEMMA ListPendingInv ==
    ASSUME Inv, ListPending
    PROVE  Inv'
  <1> USE DEF Inv
  <1>1. writer \in Sessions /\ mem[writer] \in States
    BY DEF ListPending, TypeOK
  <1>2. /\ mem' \in [Sessions -> States]
        /\ \A s \in Sessions : mem'[s].known => mem'[s].manifest = manifest'
        /\ manifest' # None
        /\ mem'[writer].manifest = manifest'
    <2>1. writer # None
      BY <1>1, Types
    <2>2. mem'[writer].manifest = recorded
      BY <1>1 DEF ListPending, Saved, States
    <2>3. QED
      BY <1>1, <2>1, <2>2, SavedFacts DEF ListPending
  <1>3. TypeOK'
    BY <1>2 DEF ListPending, TypeOK
  <1>4. KnownIsCurrent' /\ WriterKnows'
    BY <1>1, <1>2 DEF ListPending, KnownIsCurrent, WriterKnows
  <1>5. PendingUnknown'
    BY <1>2 DEF ListPending, PendingUnknown
  <1>6. RecordedTruthful' /\ RecordedComplete'
    BY DEF ListPending, RecordedTruthful, RecordedComplete, Present
  <1>7. ManifestTruthful' /\ NothingOrphaned'
    BY <1>1, <1>2, Types
       DEF ListPending, ManifestTruthful, NothingOrphaned, RecordedTruthful,
           RecordedComplete, Present
  <1>8. QED
    BY <1>3, <1>4, <1>5, <1>6, <1>7

\* ...or at its end: when it succeeds, and when it fails.
LEMMA LastSaveInv ==
    ASSUME Inv, NEW own \in States, writer # None,
           manifest' = recorded, mem' = Saved(own), disk' = disk, EndCall
    PROVE  Inv'
  <1> USE DEF Inv
  <1>1. /\ mem' \in [Sessions -> States]
        /\ \A s \in Sessions : mem'[s].known => mem'[s].manifest = manifest'
        /\ manifest' # None
    BY SavedFacts
  <1>2. TypeOK'
    BY <1>1, Types DEF EndCall, TypeOK, Planned
  <1>3. KnownIsCurrent' /\ WriterKnows' /\ PendingUnknown'
    BY <1>1 DEF EndCall, KnownIsCurrent, WriterKnows, PendingUnknown
  <1>4. RecordedTruthful' /\ RecordedComplete'
    BY DEF EndCall, RecordedTruthful, RecordedComplete
  <1>5. ManifestTruthful' /\ NothingOrphaned'
    BY <1>1 DEF ManifestTruthful, NothingOrphaned, RecordedTruthful,
                RecordedComplete, Present
  <1>6. QED
    BY <1>2, <1>3, <1>4, <1>5

\* A call that ends without a save leaves the manifest it found or saved.
LEMMA EndCallInv ==
    ASSUME Inv, EndCall, UNCHANGED <<disk, manifest>>,
           mem' \in [Sessions -> States],
           \A s \in Sessions :
              \/ mem'[s].known = mem[s].known
                 /\ mem'[s].manifest = mem[s].manifest
              \/ ~mem'[s].known
    PROVE  Inv'
  <1> USE DEF Inv
  <1>1. TypeOK'
    BY Types DEF EndCall, TypeOK, Planned
  <1>2. KnownIsCurrent' /\ WriterKnows' /\ PendingUnknown'
    BY DEF EndCall, KnownIsCurrent, WriterKnows, PendingUnknown
  <1>3. RecordedTruthful' /\ RecordedComplete'
    BY DEF EndCall, RecordedTruthful, RecordedComplete
  <1>4. ManifestTruthful' /\ NothingOrphaned'
    BY DEF ManifestTruthful, NothingOrphaned, Adoptable, Present
  <1>5. QED
    BY <1>1, <1>2, <1>3, <1>4

LEMMA SaveStepsInv ==
    ASSUME Inv, SaveSteps
    PROVE  Inv'
  <1>1. CASE ListPending
    BY <1>1, ListPendingInv
  <1>2. CASE ListPendingFails
    BY <1>2, EndCallInv DEF ListPendingFails, Inv, TypeOK
  <1>3. CASE Finish
    <2>1. PICK look \in {"same", "recent"} :
              mem' = Saved([mem[writer] EXCEPT !.folders = look,
                                               !.verified = TRUE,
                                               !.revision = plan])
      BY <1>3 DEF Finish
    <2>2. writer # None /\ writer \in Sessions /\ pc = "sweep"
      BY <1>3, Types DEF Finish, Inv, TypeOK
    <2>3. [mem[writer] EXCEPT !.folders = look, !.verified = TRUE,
                              !.revision = plan] \in States
      BY <2>2 DEF Inv, TypeOK, States
    <2>4. QED
      BY <1>3, <2>1, <2>2, <2>3, LastSaveInv DEF Finish
  <1>4. CASE FinishFails
    BY <1>4
       DEF FinishFails, Inv, TypeOK, KnownIsCurrent, WriterKnows,
           PendingUnknown, RecordedTruthful, RecordedComplete,
           ManifestTruthful, NothingOrphaned, Adoptable, Present
  <1>5. CASE Rescue
    <2>1. writer # None /\ mem[writer] \in States
      BY <1>5, Types DEF Rescue, Inv, TypeOK
    <2>2. QED
      BY <1>5, <2>1, LastSaveInv DEF Rescue
  <1>6. CASE RescueFails
    BY <1>6, EndCallInv DEF RescueFails, Inv, TypeOK
  <1>7. QED
    BY <1>1, <1>2, <1>3, <1>4, <1>5, <1>6 DEF SaveSteps

\* The other sessions look at the manifest while one of them may write.
LEMMA LookInv ==
    ASSUME Inv, NEW s \in Sessions, NEW own \in States,
           own.manifest = manifest, own.known <=> manifest # None,
           mem' = [mem EXCEPT ![s] = own],
           UNCHANGED <<disk, manifest, job, touched>>
    PROVE  Inv'
  <1> USE DEF Inv
  <1>1. /\ mem' \in [Sessions -> States]
        /\ mem'[s].manifest = manifest
        /\ mem'[s].known <=> manifest # None
        /\ \A t \in Sessions \ {s} : mem'[t] = mem[t]
    BY DEF TypeOK
  <1>2. TypeOK'
    BY <1>1 DEF TypeOK, job
  <1>3. KnownIsCurrent'
    BY <1>1 DEF KnownIsCurrent
  <1>4. WriterKnows'
    BY <1>1 DEF WriterKnows, job, TypeOK
  <1>5. PendingUnknown' /\ RecordedTruthful' /\ RecordedComplete'
    BY DEF PendingUnknown, RecordedTruthful, RecordedComplete, Present, job
  <1>6. ManifestTruthful' /\ NothingOrphaned'
    BY DEF ManifestTruthful, NothingOrphaned, Adoptable, Present
  <1>7. QED
    BY <1>2, <1>3, <1>4, <1>5, <1>6

LEMMA CrashInv ==
    ASSUME Inv, NEW s \in Sessions, Crash(s)
    PROVE  Inv'
  <1>1. /\ mem' \in [Sessions -> States]
        /\ ~mem'[s].known
        /\ \A t \in Sessions \ {s} : mem'[t] = mem[t]
    BY Types DEF Crash, Inv, TypeOK, NewState
  <1>2. CASE writer = s
    BY <1>1, <1>2, EndCallInv DEF Crash
  <1>3. CASE writer # s
    <2> USE DEF Inv
    <2>1. UNCHANGED <<disk, manifest, job, touched>>
      BY <1>3 DEF Crash
    <2>2. TypeOK'
      BY <1>1, <2>1 DEF TypeOK, job
    <2>3. KnownIsCurrent' /\ WriterKnows'
      BY <1>1, <1>3, <2>1 DEF KnownIsCurrent, WriterKnows, job, TypeOK
    <2>4. PendingUnknown' /\ RecordedTruthful' /\ RecordedComplete'
      BY <2>1
         DEF PendingUnknown, RecordedTruthful, RecordedComplete, Present, job
    <2>5. ManifestTruthful' /\ NothingOrphaned'
      BY <2>1 DEF ManifestTruthful, NothingOrphaned, Adoptable, Present
    <2>6. QED
      BY <2>2, <2>3, <2>4, <2>5
  <1>4. QED
    BY <1>2, <1>3

\* What the user does to a generated file never makes the manifest lie.
LEMMA UserInv ==
    ASSUME Inv,
           \/ \E f \in UserFiles : UserEdits(f) \/ UserDeletes(f)
           \/ UserDeletesFolder
    PROVE  Inv'
  <1> USE DEF Inv
  <1>1. ASSUME NEW f \in Files, UserEdits(f)
        PROVE  Inv'
    <2>1. PICK text \in UserTexts : disk' = [disk EXCEPT ![f] = text]
      BY <1>1 DEF UserEdits
    <2>2. /\ disk' \in [Files -> Texts \cup NoText]
          /\ \A g \in Files :
                disk'[g] = disk[g] \/ (disk'[g] \in NoText /\ Present(g))
      BY <1>1, <2>1, Types DEF UserEdits, TypeOK, Present, NoText
    <2>3. TypeOK' /\ KnownIsCurrent' /\ WriterKnows' /\ PendingUnknown'
      BY <1>1, <2>2
         DEF UserEdits, TypeOK, KnownIsCurrent, WriterKnows, PendingUnknown, job
    <2>4. RecordedTruthful' /\ RecordedComplete'
      BY <1>1, <2>2
         DEF UserEdits, RecordedTruthful, RecordedComplete, Present, job
    <2>5. ManifestTruthful' /\ NothingOrphaned'
      BY <1>1, <2>2
         DEF UserEdits, ManifestTruthful, NothingOrphaned, Present
    <2>6. QED
      BY <2>3, <2>4, <2>5
  <1>2. ASSUME NEW f \in Files, UserDeletes(f)
        PROVE  Inv'
    <2>1. PICK hidden \in SUBSET Sessions : mem' = Touch(hidden)
      BY <1>2 DEF UserDeletes
    <2>2. /\ disk' \in [Files -> Texts \cup NoText]
          /\ \A g \in Files : disk'[g] = disk[g] \/ disk'[g] = Deleted
      BY <1>2 DEF UserDeletes, TypeOK, NoText
    <2>3. TypeOK'
      BY <1>2, <2>1, <2>2, TouchFacts DEF UserDeletes, TypeOK, job
    <2>4. KnownIsCurrent' /\ WriterKnows' /\ PendingUnknown'
      BY <1>2, <2>1, TouchFacts
         DEF UserDeletes, KnownIsCurrent, WriterKnows, PendingUnknown, job,
             TypeOK
    <2>5. RecordedTruthful' /\ RecordedComplete'
      BY <1>2, <2>2
         DEF UserDeletes, RecordedTruthful, RecordedComplete, Present, job,
             NoText
    <2>6. ManifestTruthful' /\ NothingOrphaned'
      BY <1>2, <2>2
         DEF UserDeletes, ManifestTruthful, NothingOrphaned, Present, NoText
    <2>7. QED
      BY <2>3, <2>4, <2>5, <2>6
  <1>3. CASE UserDeletesFolder
    <2>1. /\ mem' \in [Sessions -> States]
          /\ \A s \in Sessions : ~mem'[s].known
      BY <1>3, ZenonT(60) DEF UserDeletesFolder, TypeOK, States
    <2>2. TypeOK'
      BY <1>3, <2>1 DEF UserDeletesFolder, TypeOK, job, NoText
    <2>3. KnownIsCurrent' /\ WriterKnows' /\ PendingUnknown'
      BY <1>3, <2>1
         DEF UserDeletesFolder, KnownIsCurrent, WriterKnows, PendingUnknown,
             job, TypeOK
    <2>4. /\ RecordedTruthful' /\ RecordedComplete'
          /\ ManifestTruthful' /\ NothingOrphaned'
      BY <1>3 DEF UserDeletesFolder, RecordedTruthful, RecordedComplete,
                  ManifestTruthful, NothingOrphaned, Present, job
    <2>5. QED
      BY <2>2, <2>3, <2>4
  <1>4. QED
    BY <1>1, <1>2, <1>3, FileFacts

LEMMA PhaseInv ==
    ASSUME Inv, Stop \/ EndWrites \/ UNCHANGED vars
    PROVE  Inv'
  <1> USE DEF Inv
  <1>1. /\ UNCHANGED <<disk, manifest, mem, writer, plan, stale, recorded>>
        /\ pending' \subseteq pending
        /\ pc' = pc \/ (pc = "write" /\ pc' \in {"sweep", "rescue"})
        /\ stopped' \in BOOLEAN /\ touched' \in BOOLEAN
    BY DEF Stop, EndWrites, vars, job, Startable, TypeOK
  <1>2. TypeOK'
    BY <1>1 DEF TypeOK
  <1>3. KnownIsCurrent' /\ WriterKnows' /\ PendingUnknown'
    BY <1>1 DEF KnownIsCurrent, WriterKnows, PendingUnknown
  <1>4. RecordedTruthful' /\ RecordedComplete'
    BY <1>1 DEF RecordedTruthful, RecordedComplete, Present
  <1>5. ManifestTruthful' /\ NothingOrphaned'
    BY <1>1 DEF ManifestTruthful, NothingOrphaned, Adoptable, Present
  <1>6. QED
    BY <1>2, <1>3, <1>4, <1>5

----------------------------------------------------------------------------

LEMMA NextInv == Inv /\ [Next]_vars => Inv'
  <1> SUFFICES ASSUME Inv, [Next]_vars PROVE Inv'
    OBVIOUS
  <1>1. ASSUME NEW s \in Sessions, NEW p \in Plans, BeginWrite(s, p)
        PROVE  Inv'
    BY <1>1, BeginWriteInv
  <1>2. ASSUME NEW s \in Sessions, NEW p \in Plans, FastExit(s, p)
        PROVE  Inv'
    BY <1>2, PhaseInv DEF FastExit
  <1>3. ASSUME NEW s \in Sessions, RefuseWrite(s) \/ CheckOwnership(s)
        PROVE  Inv'
    <2>1. /\ Current(s) \in States
          /\ Current(s).manifest = manifest
          /\ Current(s).known <=> manifest # None
      BY CurrentFacts DEF Inv
    <2>2. CASE CheckOwnership(s)
      BY <2>1, <2>2, LookInv DEF CheckOwnership
    <2>3. CASE RefuseWrite(s)
      <3> DEFINE own == [Current(s) EXCEPT !.revision = None]
      <3>1. /\ own \in States
            /\ own.manifest = manifest
            /\ own.known <=> manifest # None
        BY <2>1 DEF States
      <3>2. QED
        BY <2>3, <3>1, LookInv DEF RefuseWrite
    <2>4. QED
      BY <1>3, <2>2, <2>3
  <1>4. ASSUME NEW s \in Sessions, Crash(s)
        PROVE  Inv'
    BY <1>4, CrashInv
  <1>5. CASE SaveSteps
    BY <1>5, SaveStepsInv
  <1>6. CASE Stop \/ EndWrites \/ UNCHANGED vars
    BY <1>6, PhaseInv
  <1>7. ASSUME NEW f \in Files,
               WriteFile(f) \/ RemoveStale(f) \/ RemoveStaleFails(f)
        PROVE  Inv'
    BY <1>7, WriteFileInv, RemoveStaleInv, RemoveStaleFailsInv
  <1>8. CASE \/ \E f \in UserFiles : UserEdits(f) \/ UserDeletes(f)
             \/ UserDeletesFolder
    BY <1>8, UserInv
  <1>9. QED
    BY <1>1, <1>2, <1>3, <1>4, <1>5, <1>6, <1>7, <1>8 DEF Next

\* The conjunction the results below are read off.
THEOREM Invariance == Spec => []Inv
  BY InitInv, NextInv, PTL DEF Spec

\* Every variable of the writer has its type in every reachable state
\* (OutputState and the locals of writeOutputFiles, output-files.ts:61-75,
\* 344-622).
THEOREM TypeCorrectness == Spec => []TypeOK
  <1>1. Inv => TypeOK
    BY DEF Inv
  <1>2. QED
    BY <1>1, Invariance, PTL

\* However builds interleave, fail, are killed or interfered with, the manifest
\* never gives a file the hash of a generated text it does not have
\* (output-files.ts:329-333).
THEOREM ManifestIsTruthful == Spec => []ManifestTruthful
  <1>1. Inv => ManifestTruthful
    BY DEF Inv
  <1>2. QED
    BY <1>1, Invariance, PTL

\* No build, killed or not, leaves a file that a later build would not clean up
\* (output-files.ts:329-333).
THEOREM NothingIsOrphaned == Spec => []NothingOrphaned
  <1>1. Inv => NothingOrphaned
    BY DEF Inv
  <1>2. QED
    BY <1>1, Invariance, PTL

----------------------------------------------------------------------------
(* What is on disk.                                                        *)

\* No other path leads to the entry of f: on a file system that keeps the case
\* of names apart this is so of every file.
Alone(f) == \A g \in Files : Slot[g] = Slot[f] => g = f

\* A generated text was planned for its path.
TextsWerePlanned ==
    \A f \in Files : disk[f] \in Texts => \E p \in Plans : p[f] = disk[f]

\* A session is not up to date while it writes.
WriterForgets == writer # None => mem[writer].revision = None

SweepIsWhole == pc = "sweep" => pending = {} /\ ~stopped

\* A file is on disk, unless the user deleted it during the call.
There(f) == Present(f) \/ (touched /\ disk[f] = Deleted)

\* A planned file that is not to be written is there; after an abort that is
\* said of those only that come before the files in work.
WrittenIsThere ==
    writer # None =>
        \A f \in Planned(plan) \ pending :
            /\ Alone(f)
            /\ ~stopped \/ \E g \in pending : Rank[f] < Rank[g]
            => There(f)

\* What the manifest is going to say of files that are not to be written, and
\* of those that were to be removed.
RecordedAsPlanned ==
    writer # None =>
        /\ ~stopped => \A f \in Planned(plan) \ pending : recorded[f] = plan[f]
        /\ \A f \in Files \ (Planned(plan) \cup stale) :
              recorded[f] \in {Nothing, Unknown}

\* Sessions for which nothing came or went since they looked.
Sees(s) == mem[s].verified /\ mem[s].folders = "same"

SameIsThere ==
    \A s \in Sessions :
        mem[s].known /\ Sees(s) =>
            \A f \in Files : Alone(f) /\ manifest[f] \in Texts => Present(f)

WriterSameIsThere ==
    writer # None /\ Sees(writer) =>
        \A f \in Files : Alone(f) /\ recorded[f] \in Texts => Present(f)

AsPlanned(f, text, listed, p) ==
    IF p[f] # Nothing THEN text \in UserTexts \cup {p[f]}
                      ELSE text \in {Absent, Deleted} \/ listed[f] = Unknown

SameIsAsPlanned ==
    \A s \in Sessions :
        mem[s].known /\ Sees(s) /\ mem[s].revision # None =>
            \A f \in Files :
                Alone(f) => AsPlanned(f, disk[f], manifest, mem[s].revision)

DiskInv ==
    /\ TextsWerePlanned
    /\ IndexPointsAtFiles
    /\ WriterForgets
    /\ SweepIsWhole
    /\ WrittenIsThere
    /\ RecordedAsPlanned
    /\ SameIsThere
    /\ WriterSameIsThere
    /\ SameIsAsPlanned

LEMMA TouchedFolders ==
    ASSUME TypeOK, NEW hidden \in SUBSET Sessions, NEW s \in Sessions
    PROVE  /\ Touch(hidden)[s].folders # "same"
           /\ Touch(hidden)[s].verified = mem[s].verified
           /\ Touch(hidden)[s].revision = mem[s].revision
  BY DEF TypeOK, Touch, States

\* Looking at the manifest tells a session nothing new about the folder.
LEMMA CurrentSees ==
    ASSUME TypeOK, NEW s \in Sessions
    PROVE  /\ Current(s).folders = mem[s].folders
           /\ Current(s).revision = mem[s].revision
           /\ manifest # None /\ Current(s).verified => Current(s) = mem[s] /\ mem[s].known
           /\ Current(s).known /\ Current(s).verified => mem[s].known /\ mem[s].verified
  BY DEF TypeOK, Current, States

LEMMA PlannedTexts ==
    ASSUME NEW p \in Plans
    PROVE  /\ \A f \in Planned(p) : f \in Files /\ p[f] \in Texts
           /\ \A f \in Planned(p) : \A g \in Imports[p[f]] :
                 g \in Planned(p) /\ Rank[g] < Rank[f]
           /\ \A f \in Files : Rank[f] > 0 => f \in Planned(p)
  BY PlansAreComplete, IndexesAreClosed DEF Planned

LEMMA InitDisk == Init => DiskInv
  <1> SUFFICES ASSUME Init PROVE DiskInv
    OBVIOUS
  <1>1. TextsWerePlanned /\ IndexPointsAtFiles
    <2>1. CASE disk = [f \in Files |-> Absent]
      BY <2>1, Types DEF TextsWerePlanned, IndexPointsAtFiles, NoText
    <2>2. CASE disk \in LegacyDisks
      <3>1. PICK q \in Plans :
                disk = [f \in Files |-> IF q[f] = Nothing THEN Absent ELSE q[f]]
        BY <2>2 DEF LegacyDisks
      <3>2. \A f \in Files : disk[f] \in Texts => f \in Planned(q) /\ disk[f] = q[f]
        BY <3>1, Types DEF Planned, NoText
      <3>3. \A f \in Planned(q) : Present(f)
        BY <3>1, PlannedTexts, Types DEF Planned, Present, NoText
      <3>4. QED
        BY <3>2, <3>3, PlannedTexts DEF TextsWerePlanned, IndexPointsAtFiles
    <2>3. QED
      BY <2>1, <2>2 DEF Init
  <1>2. QED
    BY <1>1 DEF Init, DiskInv, WriterForgets, SweepIsWhole, WrittenIsThere,
                RecordedAsPlanned, SameIsThere, WriterSameIsThere,
                SameIsAsPlanned, Sees, NewState

\* A file that is kept is on disk.
LEMMA KeptIsThere ==
    ASSUME Inv, DiskInv, NEW s \in Sessions, NEW f \in Files, Alone(f),
           manifest # None, manifest[f] \in Texts, NEW look,
           look = IF ~Current(s).verified THEN "changed" ELSE Current(s).folders,
           Intact(f, manifest[f], ~Current(s).verified, look)
    PROVE  Present(f)
  <1>1. CASE look = "same"
    <2>1. mem[s].known /\ Sees(s)
      BY <1>1, CurrentSees DEF Inv, Sees
    <2>2. QED
      BY <2>1 DEF DiskInv, SameIsThere
  <1>2. CASE look = "recent"
    BY <1>2 DEF Intact
  <1>3. CASE look = "changed"
    <2>1. TextAt(f) \in Texts \cup {"edited"}
      BY <1>3 DEF Intact
    <2>2. SUFFICES ASSUME ~Present(f) PROVE FALSE
      OBVIOUS
    <2>3. {g \in Files : Slot[g] = Slot[f] /\ Present(g)} = {}
      BY <2>2 DEF Alone
    <2>4. TextAt(f) = Absent
      BY <2>3 DEF TextAt
    <2>5. QED
      BY <2>1, <2>4, Types DEF Absent, NoText
  <1>4. QED
    BY <1>1, <1>2, <1>3 DEF Intact

LEMMA BeginWriteDisk ==
    ASSUME Inv, DiskInv, NEW s \in Sessions, NEW p \in Plans, BeginWrite(s, p)
    PROVE  DiskInv'
  <1> DEFINE state == Current(s)
             previous == IF state.manifest # None THEN state.manifest
                                                  ELSE AdoptLegacy
             look == IF ~state.verified THEN "changed" ELSE state.folders
             todo == {f \in Planned(p) :
                        \/ previous[f] # p[f]
                        \/ ~Intact(f, p[f], ~state.verified, look)}
  <1>1. /\ state \in States
        /\ state.manifest = manifest
        /\ state.known <=> manifest # None
    BY CurrentFacts DEF Inv
  <1>2. /\ previous \in Listing
        /\ manifest = None => \A f \in Files : previous[f] \notin Texts
        /\ manifest # None => previous = manifest
    BY <1>1, AdoptedFacts DEF Inv, TypeOK
  <1>3. /\ writer' = s /\ plan' = p /\ pending' = todo
        /\ stale' = StaleFiles(previous, p)
        /\ recorded' = RecordAtStart(previous, todo)
        /\ mem' = [mem EXCEPT ![s] = [state EXCEPT !.revision = None]]
        /\ pc' = IF todo = {} THEN "write" ELSE "list"
        /\ touched' = FALSE
        /\ UNCHANGED <<disk, manifest>>
    BY DEF BeginWrite
  <1>4. \A f \in Planned(p) : f \in Files /\ p[f] \in Texts
    BY PlannedTexts
  <1>5. \A f \in Planned(p) \ todo : /\ previous[f] = p[f]
                                      /\ Intact(f, p[f], ~state.verified, look)
    OBVIOUS
  <1>6. ASSUME NEW f \in Planned(p) \ todo, Alone(f) PROVE Present(f)
    <2>1. manifest # None /\ manifest[f] = p[f] /\ p[f] \in Texts /\ f \in Files
      BY <1>2, <1>4, <1>5, <1>6
    <2>2. QED
      BY <1>5, <1>6, <2>1, KeptIsThere
  <1>7. \A f \in Files : recorded'[f] \in Texts =>
            manifest # None /\ recorded'[f] = manifest[f]
    BY <1>2, <1>3, Types DEF RecordAtStart
  <1>8. /\ \A f \in Planned(p) \ todo : recorded'[f] = p[f]
        /\ \A f \in Files \ (Planned(p) \cup stale') : recorded'[f] = Nothing
    BY <1>2, <1>3, <1>4, <1>5 DEF RecordAtStart, StaleFiles, Planned
  <1> HIDE DEF todo, previous, look, state
  <1>9. /\ mem'[s].revision = None
        /\ mem'[s].known => manifest # None
        /\ mem'[s].known /\ mem'[s].verified => mem[s].known /\ mem[s].verified
        /\ mem'[s].verified /\ manifest # None => mem[s].known /\ mem[s].verified
        /\ mem'[s].folders = mem[s].folders
        /\ \A t \in Sessions \ {s} : mem'[t] = mem[t]
    BY <1>1, <1>3, CurrentSees DEF Inv, TypeOK, States, state
  <1>10. TextsWerePlanned' /\ IndexPointsAtFiles'
    BY <1>3 DEF DiskInv, TextsWerePlanned, IndexPointsAtFiles, Present
  <1>11. WriterForgets' /\ SweepIsWhole'
    BY <1>3, <1>9 DEF WriterForgets, SweepIsWhole
  <1>12. WrittenIsThere'
    BY <1>3, <1>6 DEF WrittenIsThere, There, Present
  <1>13. RecordedAsPlanned'
    BY <1>3, <1>8 DEF RecordedAsPlanned
  <1>14. SameIsThere'
    BY <1>3, <1>9 DEF DiskInv, SameIsThere, Sees, Present
  <1>15. WriterSameIsThere'
    BY <1>3, <1>7, <1>9 DEF DiskInv, SameIsThere, WriterSameIsThere, Sees, Present
  <1>16. SameIsAsPlanned'
    BY <1>3, <1>9 DEF DiskInv, SameIsAsPlanned, Sees, AsPlanned
  <1>17. QED
    BY <1>10, <1>11, <1>12, <1>13, <1>14, <1>15, <1>16 DEF DiskInv

\* A file whose entry another path shares differs from that one in case only.
LEMMA AloneOrRenamed ==
    \A g \in Files : Alone(g) \/ \E h \in Files \ {g} : Lower[h] = Lower[g]
  BY FileFacts DEF Alone

\* Between two calls only the memory of the sessions and the disk count.
LEMMA AtRest ==
    ASSUME EndCall, TextsWerePlanned', IndexPointsAtFiles', SameIsThere',
           SameIsAsPlanned'
    PROVE  DiskInv'
  BY DEF EndCall, DiskInv, WriterForgets, SweepIsWhole, WrittenIsThere,
         RecordedAsPlanned, WriterSameIsThere

\* A save that keeps the manifest as it is leaves the other sessions what they
\* know, any other makes them look again.
LEMMA SavedSees ==
    ASSUME Inv, DiskInv, writer # None, NEW own \in States,
           manifest' = recorded, mem' = Saved(own), disk' = disk,
           own.verified /\ own.folders = "same" =>
              \A f \in Files :
                 /\ Alone(f) /\ recorded[f] \in Texts => Present(f)
                 /\ Alone(f) /\ own.revision # None =>
                       AsPlanned(f, disk[f], recorded, own.revision)
    PROVE  SameIsThere' /\ SameIsAsPlanned'
  <1>1. writer \in Sessions /\ mem[writer].manifest = manifest
    BY DEF Inv, TypeOK, WriterKnows
  <1>2. /\ mem'[writer].verified = own.verified
        /\ mem'[writer].folders = own.folders
        /\ mem'[writer].revision = own.revision
    BY <1>1 DEF Saved, States
  <1>3. ASSUME NEW t \in Sessions \ {writer}, mem'[t].known
        PROVE  mem'[t] = mem[t] /\ manifest' = manifest
    <2>1. CASE ManifestIsSaved
      BY <1>1, <2>1 DEF Saved, ManifestIsSaved
    <2>2. CASE ~ManifestIsSaved
      BY <1>1, <1>3, <2>2 DEF Saved, Inv, TypeOK, States
    <2>3. QED
      BY <2>1, <2>2
  <1>4. SameIsThere'
    BY <1>2, <1>3 DEF DiskInv, SameIsThere, Sees, Present
  <1>5. SameIsAsPlanned'
    <2>1. ASSUME NEW t \in Sessions, mem'[t].known, Sees(t)',
                 mem'[t].revision # None, NEW f \in Files, Alone(f)
          PROVE  AsPlanned(f, disk'[f], manifest', mem'[t].revision)
      <3>1. CASE t = writer
        BY <1>2, <2>1, <3>1 DEF Sees
      <3>2. CASE t # writer
        BY <1>3, <2>1, <3>2 DEF DiskInv, SameIsAsPlanned, Sees
      <3>3. QED
        BY <3>1, <3>2
    <2>2. QED
      BY <2>1 DEF SameIsAsPlanned, Alone
  <1>6. QED
    BY <1>4, <1>5

LEMMA ListPendingDisk ==
    ASSUME Inv, DiskInv, ListPending
    PROVE  DiskInv'
  <1>1. /\ writer \in Sessions /\ writer # None /\ mem[writer] \in States
        /\ mem[writer].revision = None
    BY Types DEF ListPending, Inv, TypeOK, DiskInv, WriterForgets
  <1>2. SameIsThere' /\ SameIsAsPlanned'
    BY <1>1, SavedSees DEF ListPending, DiskInv, WriterSameIsThere, Sees
  <1>3. /\ mem'[writer].revision = None
        /\ mem'[writer].verified = mem[writer].verified
        /\ mem'[writer].folders = mem[writer].folders
    BY <1>1 DEF ListPending, Saved, States
  <1>4. /\ pc' = "write" /\ touched \in BOOLEAN /\ touched' = (touched \/ ~ManifestIsSaved)
        /\ UNCHANGED <<disk, writer, plan, pending, stale, recorded, stopped>>
    BY DEF ListPending, Inv, TypeOK
  <1>5. TextsWerePlanned' /\ IndexPointsAtFiles'
    BY <1>4 DEF DiskInv, TextsWerePlanned, IndexPointsAtFiles, Present
  <1>6. WriterForgets' /\ SweepIsWhole' /\ RecordedAsPlanned'
    BY <1>3, <1>4 DEF DiskInv, WriterForgets, SweepIsWhole, RecordedAsPlanned
  <1>7. WrittenIsThere'
    BY <1>4 DEF DiskInv, WrittenIsThere, There, Present
  <1>8. WriterSameIsThere'
    BY <1>3, <1>4 DEF DiskInv, WriterSameIsThere, Sees, Present
  <1>9. QED
    BY <1>2, <1>5, <1>6, <1>7, <1>8 DEF DiskInv

\* Between the last save and the end of the call.
LEMMA FinishDisk ==
    ASSUME Inv, DiskInv, Finish
    PROVE  DiskInv'
  <1>1. /\ pc = "sweep" /\ pending = {} /\ ~stopped /\ stale = {}
        /\ writer # None /\ writer \in Sessions /\ plan \in Plans
    BY Types DEF Finish, Inv, TypeOK, DiskInv, SweepIsWhole
  <1>2. PICK look \in {"same", "recent"} :
            /\ touched => look = "recent"
            /\ mem' = Saved([mem[writer] EXCEPT !.folders = look, !.verified = TRUE,
                                                !.revision = plan])
    BY DEF Finish
  <1> DEFINE own == [mem[writer] EXCEPT !.folders = look, !.verified = TRUE,
                                        !.revision = plan]
  <1>3. own \in States /\ own.folders = look /\ own.revision = plan
    BY <1>1 DEF Inv, TypeOK, States
  <1>4. ASSUME look = "same", NEW f \in Files, Alone(f)
        PROVE  /\ recorded[f] \in Texts => Present(f)
               /\ AsPlanned(f, disk[f], recorded, plan)
    <2>1. CASE f \in Planned(plan)
      <3>1. Present(f)
        BY <1>1, <1>2, <1>4, <2>1 DEF DiskInv, WrittenIsThere, There
      <3>2. recorded[f] = plan[f] /\ plan[f] \in Texts
        BY <1>1, <2>1, PlannedTexts DEF DiskInv, RecordedAsPlanned
      <3>3. disk[f] \in NoText \cup {plan[f]}
        BY <1>1, <3>2 DEF Inv, RecordedTruthful
      <3>4. QED
        BY <2>1, <3>1, <3>3 DEF AsPlanned, Planned, Present, NoText
    <2>2. CASE f \notin Planned(plan)
      <3>1. recorded[f] \in {Nothing, Unknown}
        BY <1>1, <2>2 DEF DiskInv, RecordedAsPlanned
      <3>2. recorded[f] = Nothing => ~Present(f)
        BY <1>1 DEF Inv, RecordedComplete
      <3>3. QED
        BY <2>2, <3>1, <3>2, Types DEF AsPlanned, Planned, Present
    <2>3. QED
      BY <2>1, <2>2
  <1>5. manifest' = recorded /\ mem' = Saved(own) /\ disk' = disk /\ EndCall
    BY <1>2 DEF Finish
  <1> HIDE DEF own
  <1>6. SameIsThere' /\ SameIsAsPlanned'
    BY <1>1, <1>3, <1>4, <1>5, SavedSees
  <1>7. TextsWerePlanned' /\ IndexPointsAtFiles'
    BY <1>5 DEF DiskInv, TextsWerePlanned, IndexPointsAtFiles, Present
  <1>8. QED
    BY <1>5, <1>6, <1>7, AtRest

LEMMA SaveStepsDisk ==
    ASSUME Inv, DiskInv, SaveSteps
    PROVE  DiskInv'
  <1>1. CASE ListPending
    BY <1>1, ListPendingDisk
  <1>2. CASE Finish
    BY <1>2, FinishDisk
  <1>3. CASE FinishFails
    BY <1>3 DEF FinishFails, DiskInv, TextsWerePlanned, IndexPointsAtFiles,
       WriterForgets, SweepIsWhole, WrittenIsThere, RecordedAsPlanned, There,
       SameIsThere, WriterSameIsThere, SameIsAsPlanned, AsPlanned, Sees, Present
  <1>4. CASE Rescue
    <2>1. /\ writer # None /\ mem[writer] \in States /\ mem[writer].revision = None
      BY <1>4, Types DEF Rescue, Inv, TypeOK, DiskInv, WriterForgets
    <2>2. SameIsThere' /\ SameIsAsPlanned'
      BY <1>4, <2>1, SavedSees DEF Rescue, DiskInv, WriterSameIsThere, Sees
    <2>3. TextsWerePlanned' /\ IndexPointsAtFiles'
      BY <1>4 DEF Rescue, DiskInv, TextsWerePlanned, IndexPointsAtFiles, Present
    <2>4. QED
      BY <1>4, <2>2, <2>3, AtRest DEF Rescue
  <1>5. CASE ListPendingFails \/ RescueFails
    <2>1. EndCall /\ UNCHANGED <<disk, manifest, mem>>
      BY <1>5 DEF ListPendingFails, RescueFails
    <2>2. QED
      BY <2>1, AtRest DEF DiskInv, TextsWerePlanned, IndexPointsAtFiles, Present,
         SameIsThere, SameIsAsPlanned, AsPlanned, Sees
  <1>6. QED
    BY <1>1, <1>2, <1>3, <1>4, <1>5 DEF SaveSteps

\* Nobody takes the folder for unchanged when an entry came or went.
LEMMA TouchedSees ==
    ASSUME Inv, NEW hidden \in SUBSET Sessions, mem' = Touch(hidden)
    PROVE  SameIsThere' /\ SameIsAsPlanned'
  BY TouchedFolders DEF Inv, SameIsThere, SameIsAsPlanned, Sees

LEMMA TouchedWriter ==
    ASSUME Inv, DiskInv, NEW hidden \in SUBSET Sessions, mem' = Touch(hidden),
           writer' = writer
    PROVE  WriterForgets' /\ WriterSameIsThere'
  <1>1. writer # None => writer \in Sessions
    BY DEF Inv, TypeOK
  <1>2. QED
    BY <1>1, TouchedFolders DEF Inv, DiskInv, WriterForgets, WriterSameIsThere, Sees

LEMMA WriteFileDisk ==
    ASSUME Inv, DiskInv, NEW f \in Files, WriteFile(f)
    PROVE  DiskInv'
  <1>1. /\ pc = "write" /\ f \in pending /\ \A g \in pending : Rank[f] <= Rank[g]
        /\ writer # None /\ plan \in Plans /\ f \in Planned(plan)
        /\ plan[f] \in Texts
    <2>1. pc = "write" /\ f \in pending /\ \A g \in pending : Rank[f] <= Rank[g]
      BY DEF WriteFile, Startable
    <2>2. writer # None /\ plan \in Plans /\ f \in Planned(plan)
      BY <2>1 DEF Inv, TypeOK
    <2>3. QED
      BY <2>1, <2>2, PlannedTexts
  <1>2. PICK hidden \in SUBSET Sessions : mem' = Touch(hidden)
    BY DEF WriteFile
  <1>3. /\ pending' = pending \ {f} /\ touched' = TRUE
        /\ UNCHANGED <<manifest, writer, pc, plan, stale, stopped>>
    BY DEF WriteFile
  <1>4. /\ disk'[f] = plan[f]
        /\ \A g \in Files \ {f} : disk'[g] \in {disk[g], Absent}
        /\ \A g \in Files \ {f} : Alone(g) => disk'[g] = disk[g]
    BY DEF WriteFile, Alone
  <1>5. /\ recorded'[f] = plan[f]
        /\ \A g \in Files \ {f} : recorded'[g] = recorded[g]
    BY DEF WriteFile, Inv, TypeOK, Listing
  <1>6. Present(f)'
    BY <1>1, <1>4, Types DEF Present, NoText
  <1>7. TextsWerePlanned'
    BY <1>1, <1>4, Types DEF DiskInv, TextsWerePlanned, NoText
  <1>8. IndexPointsAtFiles'
    <2>1. SUFFICES ASSUME NEW h \in Files, disk'[h] \in Texts,
                          NEW g \in Imports[disk'[h]], g \in Files, Alone(g)
                   PROVE  \/ Present(g)' \/ disk'[g] = Deleted
                          \/ \E k \in Files \ {g} : Lower[k] = Lower[g]
      <3>1. \A h \in Files : disk'[h] \in Texts => Imports[disk'[h]] \subseteq Files
        BY FileFacts
      <3>2. QED
        BY <3>1, AloneOrRenamed DEF IndexPointsAtFiles
    <2>2. CASE g = f
      BY <1>6, <2>2
    <2>3. CASE g # f
      <3>1. disk'[g] = disk[g]
        BY <1>4, <2>1, <2>3
      <3>2. CASE h = f
        <4>1. g \in Planned(plan) /\ Rank[g] < Rank[f]
          BY <1>1, <1>4, <2>1, <3>2, PlannedTexts
        <4>2. g \notin pending
          BY <1>1, <2>1, <4>1, FileFacts
        <4>3. There(g)
          BY <1>1, <2>1, <4>1, <4>2 DEF DiskInv, WrittenIsThere
        <4>4. QED
          BY <3>1, <4>3 DEF There, Present
      <3>3. CASE h # f
        <4>1. disk[h] = disk'[h]
          BY <1>4, <2>1, <3>3, Types DEF NoText
        <4>2. \/ Present(g) \/ disk[g] = Deleted
              \/ \E k \in Files \ {g} : Lower[k] = Lower[g]
          BY <2>1, <4>1 DEF DiskInv, IndexPointsAtFiles
        <4>3. Present(g) \/ disk[g] = Deleted => Present(g)' \/ disk'[g] = Deleted
          BY <3>1 DEF Present
        <4>4. QED
          BY <4>2, <4>3
      <3>4. QED
        BY <3>2, <3>3
    <2>4. QED
      BY <2>2, <2>3
  <1>9. SweepIsWhole'
    BY <1>1, <1>3 DEF SweepIsWhole
  <1>10. WrittenIsThere'
    <2>1. SUFFICES ASSUME NEW h \in Planned(plan) \ pending', Alone(h),
                          ~stopped \/ \E g \in pending' : Rank[h] < Rank[g]
                   PROVE  There(h)'
      BY <1>3 DEF WrittenIsThere, Alone
    <2>2. CASE h = f
      BY <1>6, <2>2 DEF There
    <2>3. CASE h # f
      <3>1. h \in Files /\ disk'[h] = disk[h]
        BY <1>4, <2>1, <2>3 DEF Planned
      <3>2. There(h)
        BY <1>1, <1>3, <2>1, <2>3 DEF DiskInv, WrittenIsThere
      <3>3. QED
        BY <1>3, <3>1, <3>2 DEF There, Present
    <2>4. QED
      BY <2>2, <2>3
  <1>11. RecordedAsPlanned'
    BY <1>1, <1>3, <1>5 DEF DiskInv, RecordedAsPlanned, Planned
  <1>12. QED
    BY <1>2, <1>3, <1>7, <1>8, <1>9, <1>10, <1>11, TouchedSees, TouchedWriter DEF DiskInv

\* What is removed is not planned, and no index points at it.
LEMMA RemoveStaleDisk ==
    ASSUME Inv, DiskInv, NEW f \in Files, RemoveStale(f)
    PROVE  DiskInv'
  <1>1. /\ f \in stale /\ f \notin Planned(plan) /\ writer # None
        /\ plan \in Plans /\ pc \in {"write", "sweep"}
    BY DEF RemoveStale, Renamed, Inv, TypeOK
  <1>2. PICK hidden \in SUBSET Sessions : mem' = Touch(hidden)
    BY DEF RemoveStale
  <1>3. /\ stale' = stale \ {f} /\ touched' = TRUE
        /\ UNCHANGED <<manifest, writer, pc, plan, pending, stopped>>
    BY DEF RemoveStale
  <1>4. /\ \A g \in Files : disk'[g] \in {disk[g], Absent}
        /\ \A g \in Files \ {f} : Alone(g) => disk'[g] = disk[g]
    BY DEF RemoveStale, Alone
  <1>5. /\ recorded'[f] = Nothing
        /\ \A g \in Files \ {f} : recorded'[g] = recorded[g]
    BY DEF RemoveStale, Inv, TypeOK, Listing
  <1>6. TextsWerePlanned'
    BY <1>4, Types DEF DiskInv, TextsWerePlanned, NoText
  <1>7. ASSUME NEW h \in Files, disk[h] \in Texts, f \in Imports[disk[h]]
        PROVE  \E k \in Files \ {f} : Lower[k] = Lower[f]
    <2>1. CASE pc = "write"
      <3>1. PICK k \in Planned(plan) : Lower[k] = Lower[f]
        BY <2>1 DEF RemoveStale, Renamed
      <3>2. QED
        BY <1>1, <3>1 DEF Planned
    <2>2. CASE pc = "sweep"
      <3>1. PICK p \in Plans : p[h] = disk[h]
        BY <1>7 DEF DiskInv, TextsWerePlanned
      <3>2. h \in Planned(p)
        BY <1>7, <3>1, Types DEF Planned
      <3>3. Rank[f] < Rank[h]
        BY <1>7, <3>1, <3>2, PlannedTexts
      <3>4. h \in Planned(plan)
        <4>1. Rank[h] > 0
          BY <3>3, FileFacts
        <4>2. QED
          BY <1>1, <4>1, PlannedTexts
      <3>5. recorded[h] = plan[h] /\ plan[h] \in Texts
        BY <1>1, <2>2, <3>4, PlannedTexts DEF DiskInv, SweepIsWhole, RecordedAsPlanned
      <3>6. disk[h] = plan[h]
        BY <1>1, <1>7, <3>5, Types DEF Inv, RecordedTruthful
      <3>7. QED
        BY <1>1, <1>7, <3>4, <3>6, PlannedTexts
    <2>3. QED
      BY <1>1, <2>1, <2>2
  <1>8. IndexPointsAtFiles'
    <2>1. SUFFICES ASSUME NEW h \in Files, disk'[h] \in Texts,
                          NEW g \in Imports[disk'[h]], g \in Files, Alone(g)
                   PROVE  \/ Present(g)' \/ disk'[g] = Deleted
                          \/ \E k \in Files \ {g} : Lower[k] = Lower[g]
      <3>1. \A h \in Files : disk'[h] \in Texts => Imports[disk'[h]] \subseteq Files
        BY FileFacts
      <3>2. QED
        BY <3>1, AloneOrRenamed DEF IndexPointsAtFiles
    <2>2. disk[h] = disk'[h]
      BY <1>4, <2>1, Types DEF NoText
    <2>3. CASE g = f
      BY <1>7, <2>1, <2>2, <2>3
    <2>4. CASE g # f
      <3>1. disk'[g] = disk[g]
        BY <1>4, <2>1, <2>4
      <3>2. QED
        BY <2>1, <2>2, <3>1 DEF DiskInv, IndexPointsAtFiles, Present
    <2>5. QED
      BY <2>3, <2>4
  <1>9. SweepIsWhole'
    BY <1>3 DEF DiskInv, SweepIsWhole
  <1>10. WrittenIsThere'
    <2>1. SUFFICES ASSUME NEW h \in Planned(plan) \ pending, Alone(h),
                          ~stopped \/ \E g \in pending : Rank[h] < Rank[g]
                   PROVE  There(h)'
      BY <1>3 DEF WrittenIsThere, Alone
    <2>2. h \in Files /\ disk'[h] = disk[h]
      BY <1>1, <1>4, <2>1 DEF Planned
    <2>3. There(h)
      BY <1>1, <2>1 DEF DiskInv, WrittenIsThere
    <2>4. QED
      BY <1>3, <2>2, <2>3 DEF There, Present
  <1>11. RecordedAsPlanned'
    BY <1>1, <1>3, <1>5 DEF DiskInv, RecordedAsPlanned, Planned
  <1>12. QED
    BY <1>2, <1>3, <1>6, <1>8, <1>9, <1>10, <1>11, TouchedSees, TouchedWriter DEF DiskInv

LEMMA RemoveStaleFailsDisk ==
    ASSUME Inv, DiskInv, NEW f \in Files, RemoveStaleFails(f)
    PROVE  DiskInv'
  <1>1. /\ f \in stale /\ f \notin Planned(plan) /\ writer # None
        /\ stale' = stale \ {f}
        /\ UNCHANGED <<disk, manifest, mem, touched, writer, pc, plan, pending,
                       stopped>>
    BY DEF RemoveStaleFails, Renamed, Inv, TypeOK
  <1>2. /\ recorded'[f] = Unknown
        /\ \A g \in Files \ {f} : recorded'[g] = recorded[g]
    BY DEF RemoveStaleFails, RecordNotRemoved, Inv, TypeOK, Listing
  <1>3. TextsWerePlanned' /\ IndexPointsAtFiles'
    BY <1>1 DEF DiskInv, TextsWerePlanned, IndexPointsAtFiles, Present
  <1>4. WriterForgets' /\ SweepIsWhole' /\ SameIsThere' /\ SameIsAsPlanned'
    BY <1>1 DEF DiskInv, WriterForgets, SweepIsWhole, SameIsThere,
                SameIsAsPlanned, AsPlanned, Sees, Present
  <1>5. WrittenIsThere'
    BY <1>1 DEF DiskInv, WrittenIsThere, There, Present
  <1>6. RecordedAsPlanned'
    BY <1>1, <1>2 DEF DiskInv, RecordedAsPlanned, Planned
  <1>7. WriterSameIsThere'
    BY <1>1, <1>2, Types DEF DiskInv, WriterSameIsThere, Sees, Present
  <1>8. QED
    BY <1>3, <1>4, <1>5, <1>6, <1>7 DEF DiskInv

LEMMA PhaseDisk ==
    ASSUME Inv, DiskInv, Stop \/ EndWrites \/ UNCHANGED vars
    PROVE  DiskInv'
  <1>1. /\ UNCHANGED <<disk, manifest, mem, touched, writer, plan, stale, recorded>>
    BY DEF Stop, EndWrites, vars, job
  <1>2. /\ TextsWerePlanned' /\ IndexPointsAtFiles' /\ WriterForgets'
        /\ SameIsThere' /\ WriterSameIsThere' /\ SameIsAsPlanned'
    BY <1>1 DEF DiskInv, TextsWerePlanned, IndexPointsAtFiles, WriterForgets,
       SameIsThere, WriterSameIsThere, SameIsAsPlanned, AsPlanned, Sees, Present
  <1>3. SweepIsWhole'
    BY DEF Stop, EndWrites, vars, job, DiskInv, SweepIsWhole, Inv, TypeOK
  <1>4. WrittenIsThere' /\ RecordedAsPlanned'
    <2>1. CASE Stop
      <3>1. /\ writer # None /\ ~stopped /\ stopped'
            /\ pending' \subseteq Startable
        BY <2>1 DEF Stop, Inv, TypeOK
      <3>2. \A f \in Planned(plan), g \in pending' : Rank[f] < Rank[g] => f \notin pending
        <4>1. pending' \subseteq Files /\ \A f \in Planned(plan) : f \in Files
          BY <3>1 DEF Startable, Inv, TypeOK, Planned
        <4>2. \A g \in pending' : \A f \in pending : Rank[g] <= Rank[f]
          BY <3>1 DEF Startable
        <4>3. QED
          BY <4>1, <4>2, FileFacts
      <3>3. WrittenIsThere'
        BY <1>1, <3>1, <3>2 DEF DiskInv, WrittenIsThere, There, Present, Alone
      <3>4. RecordedAsPlanned'
        BY <1>1, <3>1 DEF DiskInv, RecordedAsPlanned
      <3>5. QED
        BY <3>3, <3>4
    <2>2. CASE UNCHANGED <<pending, stopped>>
      BY <1>1, <2>2 DEF DiskInv, WrittenIsThere, RecordedAsPlanned, There, Present
    <2>3. QED
      BY <2>1, <2>2 DEF EndWrites, vars, job
  <1>5. QED
    BY <1>2, <1>3, <1>4 DEF DiskInv

\* A session looks at the manifest, or is refused, or its process dies.
LEMMA LookDisk ==
    ASSUME Inv, DiskInv, NEW s \in Sessions, writer # s, NEW own \in States,
           own.known /\ own.verified =>
              /\ mem[s].known /\ mem[s].verified
              /\ own.folders = mem[s].folders
              /\ own.revision \in {None, mem[s].revision},
           mem' = [mem EXCEPT ![s] = own],
           UNCHANGED <<disk, manifest, job, touched>>
    PROVE  DiskInv'
  <1>1. mem'[s] = own /\ \A t \in Sessions \ {s} : mem'[t] = mem[t]
    BY DEF Inv, TypeOK
  <1>2. writer # None => writer \in Sessions \ {s}
    BY DEF Inv, TypeOK
  <1>3. TextsWerePlanned' /\ IndexPointsAtFiles' /\ SweepIsWhole'
    BY DEF DiskInv, TextsWerePlanned, IndexPointsAtFiles, SweepIsWhole, Present, job
  <1>4. WrittenIsThere' /\ RecordedAsPlanned'
    BY DEF DiskInv, WrittenIsThere, RecordedAsPlanned, There, Present, job
  <1>5. WriterForgets' /\ WriterSameIsThere'
    BY <1>1, <1>2 DEF DiskInv, WriterForgets, WriterSameIsThere, Sees, Present, job
  <1>6. SameIsThere'
    BY <1>1 DEF DiskInv, SameIsThere, Sees, Present
  <1>7. SameIsAsPlanned'
    BY <1>1 DEF DiskInv, SameIsAsPlanned, AsPlanned, Sees
  <1>8. QED
    BY <1>3, <1>4, <1>5, <1>6, <1>7 DEF DiskInv

LEMMA CrashDisk ==
    ASSUME Inv, DiskInv, NEW s \in Sessions, Crash(s)
    PROVE  DiskInv'
  <1>1. mem' = [mem EXCEPT ![s] = NewState] /\ UNCHANGED <<disk, manifest>>
    BY DEF Crash
  <1>2. CASE writer = s
    <2>1. ~mem'[s].known /\ \A t \in Sessions \ {s} : mem'[t] = mem[t]
      BY <1>1 DEF Inv, TypeOK, NewState
    <2>2. SameIsThere' /\ SameIsAsPlanned'
      BY <1>1, <2>1 DEF DiskInv, SameIsThere, SameIsAsPlanned, AsPlanned, Sees, Present
    <2>3. TextsWerePlanned' /\ IndexPointsAtFiles'
      BY <1>1 DEF DiskInv, TextsWerePlanned, IndexPointsAtFiles, Present
    <2>4. QED
      BY <1>2, <2>2, <2>3, AtRest DEF Crash
  <1>3. CASE writer # s
    <2>1. NewState \in States /\ ~NewState.known
      BY Types DEF NewState
    <2>2. QED
      BY <1>1, <1>3, <2>1, LookDisk DEF Crash
  <1>4. QED
    BY <1>2, <1>3

LEMMA UserDisk ==
    ASSUME Inv, DiskInv,
           \/ \E f \in UserFiles : UserEdits(f) \/ UserDeletes(f)
           \/ UserDeletesFolder
    PROVE  DiskInv'
  <1>1. ASSUME NEW f \in Files, UserEdits(f) PROVE DiskInv'
    <2>1. /\ disk[f] \in Texts /\ disk'[f] \in UserTexts
          /\ \A g \in Files \ {f} : disk'[g] = disk[g]
          /\ UNCHANGED <<manifest, mem, writer, pc, plan, pending, stale, recorded,
                         stopped, touched>>
      BY <1>1 DEF UserEdits, job, Inv, TypeOK
    <2>2. /\ disk'[f] \notin Texts
          /\ \A g \in Files : Present(g)' <=> Present(g)
          /\ \A g \in Files : disk[g] = Deleted => disk'[g] = Deleted
      BY <2>1, Types DEF Present, UserTexts, NoText, Absent, Deleted
    <2>3. TextsWerePlanned' /\ IndexPointsAtFiles'
      <3>1. \A g \in Files : disk'[g] \in Texts => disk'[g] = disk[g]
        BY <2>1, <2>2
      <3>2. TextsWerePlanned'
        BY <3>1 DEF DiskInv, TextsWerePlanned
      <3>3. \A g \in Files : disk[g] \in Texts => Imports[disk[g]] \subseteq Files
        BY FileFacts
      <3>4. IndexPointsAtFiles'
        BY <2>2, <3>1, <3>3 DEF DiskInv, IndexPointsAtFiles
      <3>5. QED
        BY <3>2, <3>4
    <2>4. /\ WriterForgets' /\ SweepIsWhole' /\ RecordedAsPlanned'
      BY <2>1 DEF DiskInv, WriterForgets, SweepIsWhole, RecordedAsPlanned
    <2>5. WrittenIsThere'
      BY <2>1, <2>2 DEF DiskInv, WrittenIsThere, There, Planned
    <2>6. SameIsThere' /\ WriterSameIsThere'
      BY <2>1, <2>2 DEF DiskInv, SameIsThere, WriterSameIsThere, Sees
    <2>7. SameIsAsPlanned'
      <3>1. ASSUME NEW g \in Files, NEW p, AsPlanned(g, disk[g], manifest, p)
            PROVE  AsPlanned(g, disk'[g], manifest, p)
        BY <2>1, <3>1, Types DEF AsPlanned, NoText, Absent, Deleted
      <3>2. QED
        BY <2>1, <3>1 DEF DiskInv, SameIsAsPlanned, Sees
    <2>8. QED
      BY <2>3, <2>4, <2>5, <2>6, <2>7 DEF DiskInv
  <1>2. ASSUME NEW f \in Files, UserDeletes(f) PROVE DiskInv'
    <2>1. PICK hidden \in SUBSET Sessions : mem' = Touch(hidden)
      BY <1>2 DEF UserDeletes
    <2>2. /\ disk'[f] = Deleted /\ \A g \in Files \ {f} : disk'[g] = disk[g]
          /\ touched' = (writer # None)
          /\ UNCHANGED <<manifest, writer, pc, plan, pending, stale, recorded, stopped>>
      BY <1>2 DEF UserDeletes, job, Inv, TypeOK
    <2>3. TextsWerePlanned' /\ IndexPointsAtFiles'
      <3>1. \A g \in Files : disk'[g] \in Texts => disk'[g] = disk[g]
        BY <2>2, Types DEF NoText
      <3>2. TextsWerePlanned'
        BY <3>1 DEF DiskInv, TextsWerePlanned
      <3>3. \A g \in Files : disk[g] \in Texts => Imports[disk[g]] \subseteq Files
        BY FileFacts
      <3>4. \A g \in Files : Present(g) \/ disk[g] = Deleted =>
                                 Present(g)' \/ disk'[g] = Deleted
        BY <2>2 DEF Present
      <3>5. IndexPointsAtFiles'
        BY <3>1, <3>3, <3>4 DEF DiskInv, IndexPointsAtFiles
      <3>6. QED
        BY <3>2, <3>5
    <2>4. SweepIsWhole' /\ RecordedAsPlanned'
      BY <2>2 DEF DiskInv, SweepIsWhole, RecordedAsPlanned
    <2>5. WrittenIsThere'
      <3>1. \A g \in Files : There(g) /\ writer # None => There(g)'
        BY <2>2 DEF There, Present
      <3>2. QED
        BY <2>2, <3>1 DEF DiskInv, WrittenIsThere, Planned
    <2>6. QED
      BY <2>1, <2>2, <2>3, <2>4, <2>5, TouchedSees, TouchedWriter DEF DiskInv
  <1>3. CASE UserDeletesFolder
    <2>1. /\ writer' = None /\ UNCHANGED <<pc, pending, stopped>>
          /\ \A f \in Files : disk'[f] \notin Texts
      BY <1>3, Types DEF UserDeletesFolder, job, NoText
    <2>2. \A s \in Sessions : ~mem'[s].known
      BY <1>3, ZenonT(60) DEF UserDeletesFolder, Inv, TypeOK, States
    <2>3. QED
      BY <2>1, <2>2 DEF DiskInv, TextsWerePlanned, IndexPointsAtFiles,
         WriterForgets, SweepIsWhole, WrittenIsThere, RecordedAsPlanned,
         SameIsThere, WriterSameIsThere, SameIsAsPlanned
  <1>4. QED
    BY <1>1, <1>2, <1>3, FileFacts

LEMMA NextDisk == Inv /\ DiskInv /\ [Next]_vars => DiskInv'
  <1> SUFFICES ASSUME Inv, DiskInv, [Next]_vars PROVE DiskInv'
    OBVIOUS
  <1>1. ASSUME NEW s \in Sessions, NEW p \in Plans, BeginWrite(s, p)
        PROVE  DiskInv'
    BY <1>1, BeginWriteDisk
  <1>2. ASSUME NEW s \in Sessions, NEW p \in Plans, FastExit(s, p)
        PROVE  DiskInv'
    BY <1>2, PhaseDisk DEF FastExit
  <1>3. ASSUME NEW s \in Sessions, RefuseWrite(s) \/ CheckOwnership(s)
        PROVE  DiskInv'
    <2>1. writer # s
      BY <1>3, Types DEF RefuseWrite, CheckOwnership
    <2>2. Current(s) \in States
      BY CurrentFacts DEF Inv
    <2>3. CASE CheckOwnership(s)
      BY <2>1, <2>2, <2>3, CurrentSees, LookDisk DEF CheckOwnership, Inv
    <2>4. CASE RefuseWrite(s)
      <3> DEFINE own == [Current(s) EXCEPT !.revision = None]
      <3>1. /\ own \in States
            /\ own.known = Current(s).known /\ own.verified = Current(s).verified
            /\ own.folders = Current(s).folders /\ own.revision = None
        BY <2>2 DEF States
      <3>2. QED
        BY <2>1, <2>4, <3>1, CurrentSees, LookDisk DEF RefuseWrite, Inv
    <2>5. QED
      BY <1>3, <2>3, <2>4
  <1>4. ASSUME NEW s \in Sessions, Crash(s)
        PROVE  DiskInv'
    BY <1>4, CrashDisk
  <1>5. CASE SaveSteps
    BY <1>5, SaveStepsDisk
  <1>6. CASE Stop \/ EndWrites \/ UNCHANGED vars
    BY <1>6, PhaseDisk
  <1>7. ASSUME NEW f \in Files,
               WriteFile(f) \/ RemoveStale(f) \/ RemoveStaleFails(f)
        PROVE  DiskInv'
    BY <1>7, WriteFileDisk, RemoveStaleDisk, RemoveStaleFailsDisk
  <1>8. CASE \/ \E f \in UserFiles : UserEdits(f) \/ UserDeletes(f)
             \/ UserDeletesFolder
    BY <1>8, UserDisk
  <1>9. QED
    BY <1>1, <1>2, <1>3, <1>4, <1>5, <1>6, <1>7, <1>8 DEF Next

----------------------------------------------------------------------------
(* When a call succeeds.                                                   *)

\* A file system that keeps the case of names apart.
CaseSensitive == \A f \in Files : Alone(f)

\* Only a call that succeeds makes a session remember a plan.
LEMMA OnlyFinishRemembers ==
    ASSUME Inv, [Next]_vars, NEW s \in Sessions,
           mem[s].revision = None, mem'[s].revision # None
    PROVE  Finish /\ s = writer
  <1>1. ASSUME NEW t \in Sessions, NEW own,
               own.revision \in {None, mem[t].revision},
               mem' = [mem EXCEPT ![t] = own]
        PROVE  FALSE
    BY <1>1 DEF Inv, TypeOK
  <1>2. \A t \in Sessions : /\ Current(t) \in States
                             /\ Current(t).revision = mem[t].revision
    BY CurrentFacts, CurrentSees DEF Inv
  <1>3. \A t \in Sessions : [Current(t) EXCEPT !.revision = None].revision = None
    BY <1>2 DEF States
  <1>4. ASSUME NEW hidden \in SUBSET Sessions, mem' = Touch(hidden) PROVE FALSE
    BY <1>4, TouchedFolders DEF Inv
  <1>5. ASSUME NEW t \in Sessions, NEW p \in Plans,
               BeginWrite(t, p) \/ FastExit(t, p)
        PROVE  FALSE
    <2>1. CASE BeginWrite(t, p)
      BY <1>1, <1>3, <2>1 DEF BeginWrite
    <2>2. CASE FastExit(t, p)
      BY <2>2 DEF FastExit, vars
    <2>3. QED
      BY <1>5, <2>1, <2>2
  <1>6. ASSUME NEW t \in Sessions, RefuseWrite(t) \/ CheckOwnership(t) \/ Crash(t)
        PROVE  FALSE
    <2>1. CASE RefuseWrite(t)
      BY <1>1, <1>3, <2>1 DEF RefuseWrite
    <2>2. CASE CheckOwnership(t)
      BY <1>1, <1>2, <2>2 DEF CheckOwnership
    <2>3. CASE Crash(t)
      <3>1. NewState.revision = None
        BY DEF NewState
      <3>2. QED
        BY <1>1, <2>3, <3>1 DEF Crash
    <2>4. QED
      BY <1>6, <2>1, <2>2, <2>3
  <1>7. ASSUME NEW f \in Files,
               WriteFile(f) \/ RemoveStale(f) \/ RemoveStaleFails(f)
        PROVE  FALSE
    BY <1>4, <1>7 DEF WriteFile, RemoveStale, RemoveStaleFails
  <1>8. ~Stop /\ ~EndWrites /\ ~UNCHANGED vars
    BY DEF Stop, EndWrites, vars
  <1>9. ~ListPendingFails /\ ~FinishFails /\ ~RescueFails
    BY DEF ListPendingFails, FinishFails, RescueFails
  <1>10. ASSUME NEW own \in States, mem' = Saved(own), s # writer
         PROVE  FALSE
    BY <1>10 DEF Saved, Inv, TypeOK, States
  <1>11. ~ListPending /\ ~Rescue
    <2>1. ASSUME writer # None, mem' = Saved(mem[writer]) PROVE FALSE
      <3>1. writer \in Sessions /\ mem[writer] \in States
        BY <2>1 DEF Inv, TypeOK
      <3>2. s = writer
        BY <1>10, <2>1, <3>1
      <3>3. QED
        BY <2>1, <3>1, <3>2 DEF Saved, States
    <2>2. QED
      BY <2>1 DEF ListPending, Rescue, Inv, TypeOK
  <1>12. ASSUME NEW f \in Files, UserEdits(f) \/ UserDeletes(f) PROVE FALSE
    BY <1>4, <1>12 DEF UserEdits, UserDeletes
  <1>13. ~UserDeletesFolder
    BY ZenonT(60) DEF UserDeletesFolder, Inv, TypeOK, States
  <1>14. Finish => s = writer
    <2>1. SUFFICES ASSUME Finish PROVE s = writer
      OBVIOUS
    <2>2. PICK look \in {"same", "recent"} :
              mem' = Saved([mem[writer] EXCEPT !.folders = look, !.verified = TRUE,
                                                !.revision = plan])
      BY <2>1 DEF Finish
    <2>3. [mem[writer] EXCEPT !.folders = look, !.verified = TRUE,
                              !.revision = plan] \in States
      <3>1. writer # None /\ writer \in Sessions /\ plan \in Plans
        BY <2>1, Types DEF Finish, Inv, TypeOK
      <3>2. mem[writer] \in States
        BY <3>1 DEF Inv, TypeOK
      <3>3. QED
        BY <3>1, <3>2 DEF States
    <2>4. QED
      BY <1>10, <2>2, <2>3
  <1>15. QED
    BY <1>5, <1>6, <1>7, <1>8, <1>9, <1>11, <1>12, <1>13, <1>14, FileFacts
       DEF Next, SaveSteps

LEMMA FinishedOnDisk ==
    ASSUME Inv, DiskInv, CaseSensitive, Finish
    PROVE  OnDiskAsPlanned(
              [f \in Files |-> IF disk'[f] = Deleted /\ plan[f] # Nothing
                                THEN plan[f] ELSE disk'[f]],
              manifest', plan)
  <1>1. /\ pc = "sweep" /\ pending = {} /\ ~stopped /\ stale = {}
        /\ writer # None /\ plan \in Plans
        /\ manifest' = recorded /\ disk' = disk
    BY Types DEF Finish, Inv, TypeOK, DiskInv, SweepIsWhole
  <1>2. ASSUME NEW f \in Files, plan[f] # Nothing
        PROVE  disk[f] = Deleted \/ disk[f] \in UserTexts \cup {plan[f]}
    <2>1. f \in Planned(plan)
      BY <1>2 DEF Planned
    <2>2. recorded[f] = plan[f] /\ plan[f] \in Texts
      BY <1>1, <2>1, PlannedTexts DEF DiskInv, RecordedAsPlanned
    <2>3. disk[f] \in NoText \cup {plan[f]}
      BY <1>1, <2>2 DEF Inv, RecordedTruthful
    <2>4. Present(f) \/ disk[f] = Deleted
      BY <1>1, <2>1 DEF DiskInv, WrittenIsThere, There, CaseSensitive
    <2>5. QED
      BY <2>3, <2>4 DEF Present, NoText
  <1>3. ASSUME NEW f \in Files, plan[f] = Nothing
        PROVE  disk[f] \in {Absent, Deleted} \/ recorded[f] = Unknown
    <2>1. recorded[f] \in {Nothing, Unknown}
      BY <1>1, <1>3 DEF DiskInv, RecordedAsPlanned, Planned
    <2>2. recorded[f] = Nothing => ~Present(f)
      BY <1>1 DEF Inv, RecordedComplete
    <2>3. QED
      BY <2>1, <2>2 DEF Present
  <1>4. QED
    BY <1>1, <1>2, <1>3 DEF OnDiskAsPlanned

----------------------------------------------------------------------------

\* What the writer and the sessions know of the disk holds in every state.
THEOREM DiskInvariance == Spec => [](Inv /\ DiskInv)
  BY InitInv, NextInv, InitDisk, NextDisk, PTL DEF Spec

\* An index on disk never points at a module that the writer has not made yet
\* or has already removed, on a file system of either kind
\* (output-files.ts:327).
THEOREM IndexesPointAtFiles == Spec => []IndexPointsAtFiles
  <1>1. DiskInv => IndexPointsAtFiles
    BY DEF DiskInv
  <1>2. QED
    BY <1>1, DiskInvariance, PTL

\* On a file system that keeps names apart by case the early exit
\* (output-files.ts:356) is only taken over a folder that holds the plan.
THEOREM FastExitIsSafe ==
    ASSUME CaseSensitive
    PROVE  Spec => []FastExitSafe
  <1>1. Inv /\ DiskInv => FastExitSafe
    <2> SUFFICES ASSUME Inv, DiskInv, NEW s \in Sessions, NEW p \in Plans,
                        UpToDate(s, p)
                 PROVE  OnDiskAsPlanned(disk, manifest, p)
      BY DEF FastExitSafe
    <2>1. mem[s].known /\ Sees(s) /\ mem[s].revision = p
      BY CurrentSees DEF UpToDate, Inv, Sees
    <2>2. p # None
      BY Types
    <2>3. \A f \in Files : AsPlanned(f, disk[f], manifest, p)
      BY <2>1, <2>2 DEF DiskInv, SameIsAsPlanned, CaseSensitive
    <2>4. QED
      BY <2>3 DEF AsPlanned, OnDiskAsPlanned
  <1>2. QED
    BY <1>1, DiskInvariance, PTL

\* On such a file system a call that succeeds leaves the plan on disk and
\* nothing else, except what the user changed and what could not be removed.
THEOREM SuccessIsOnDisk ==
    ASSUME CaseSensitive
    PROVE  Spec => SuccessMeansOnDisk
  <1>1. Inv /\ DiskInv /\ [Next]_vars =>
          [\A s \in Sessions :
              mem[s].revision = None /\ mem[s].revision' # None =>
                  OnDiskAsPlanned(
                      [f \in Files |-> IF disk'[f] = Deleted /\ plan[f] # Nothing
                                        THEN plan[f] ELSE disk'[f]],
                      manifest', plan)]_vars
    BY OnlyFinishRemembers, FinishedOnDisk
  <1>2. QED
    BY <1>1, DiskInvariance, PTL DEF Spec, SuccessMeansOnDisk

=============================================================================
