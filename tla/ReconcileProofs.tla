--------------------------- MODULE ReconcileProofs ---------------------------
(***************************************************************************)
(* Proofs about Reconcile, for any instances, languages, names and files,  *)
(* any libraries and any number of walks, webhooks and failures.  What is  *)
(* proved of a walk is about one that runs alone (began # "disturbed"):    *)
(* it holds while the walk is under way, so that it holds when it ends.    *)
(***************************************************************************)
EXTENDS Reconcile, EpisodeLibraryProofs

Working == {"conflict", "judge", "stat", "remove", "prune", "prepare", "probe", "create"}
Making == {"prune", "prepare", "probe", "create"}
WalkPcs == Working \cup {"idle", "list", "file", "detect"}

Walks ==
  [pc : WalkPcs, at : Seq(Instances), files : SUBSET Names, file : Names \cup {None},
   langs : SUBSET Languages, todo : Seq(Instances), victim : Names \cup {None}, dry : BOOLEAN]

(* What a walk has in hand.                                                  *)
WalkShape ==
  /\ walk \in Walks
  /\ walk.pc # "idle" => walk.at # <<>>
  /\ walk.pc \in Working \cup {"detect"} => walk.file \in Names
  /\ walk.pc \in Working => walk.todo # <<>>
  /\ walk.pc \in {"judge", "stat", "remove", "prune"} => walk.victim \in Names

(* The types.                                                                *)
WalkTypes == EpisodeInv /\ OneFile /\ WalkShape

(* The steps that end one of the walk's: in the same library, or in the next.*)
LEMMA StepFacts ==
  ASSUME WalkShape, NEW pc \in WalkPcs, Step(pc)
  PROVE  /\ walk' \in Walks /\ walk'.pc = pc /\ walk'.at = walk.at /\ walk'.files = walk.files
         /\ walk'.file = walk.file /\ walk'.langs = walk.langs /\ walk'.todo = walk.todo
         /\ walk'.victim = walk.victim /\ walk'.dry = walk.dry
BY DEF WalkShape, Walks, Step

LEMMA NextTargetFacts ==
  ASSUME WalkShape, walk.pc \in Working, NextTarget
  PROVE  /\ walk' \in Walks /\ walk'.at = walk.at /\ walk'.files = walk.files /\ walk'.file = walk.file
         /\ walk'.langs = walk.langs /\ walk'.dry = walk.dry /\ walk'.todo = Tail(walk.todo)
         /\ \/ walk'.pc = "file" /\ walk'.todo = <<>>
            \/ walk'.pc = "conflict" /\ walk'.todo # <<>>
         /\ Library \in Instances /\ Elements(walk.todo) = {Library} \cup Elements(walk'.todo)
<1>1. walk.todo \in Seq(Instances) /\ walk.todo # <<>> /\ walk \in Walks
  BY DEF WalkShape, Walks
<1>2. /\ Tail(walk.todo) \in Seq(Instances) /\ Library \in Instances
      /\ Elements(walk.todo) = {Library} \cup Elements(Tail(walk.todo))
  BY <1>1, HeadElements DEF Library
<1>3. /\ walk' \in Walks /\ walk'.at = walk.at /\ walk'.files = walk.files /\ walk'.file = walk.file
      /\ walk'.langs = walk.langs /\ walk'.dry = walk.dry /\ walk'.todo = Tail(walk.todo)
      /\ walk'.pc = IF Tail(walk.todo) = <<>> THEN "file" ELSE "conflict"
  BY <1>1, <1>2 DEF NextTarget, Walks, WalkPcs, Working
<1>4. QED
  BY <1>2, <1>3

(* Where a walk is.                                                          *)
LEMMA WalkTyped ==
  ASSUME WalkTypes
  PROVE  /\ walk.pc # "idle" => /\ Storage \in Instances /\ walk.at # <<>> /\ walk.at \in Seq(Instances)
                                /\ Elements(walk.at) = {Storage} \cup Elements(Tail(walk.at))
                                /\ Tail(walk.at) \in Seq(Instances)
         /\ walk.pc \in Working => Library \in Instances /\ Elements(walk.todo) = {Library} \cup Elements(Tail(walk.todo))
         /\ walk.pc \in WalkPcs /\ walk.files \subseteq Names /\ walk.dry \in BOOLEAN
         /\ None \notin Instances
BY HeadElements, EpisodeLibraryAssumption DEF WalkTypes, WalkShape, Walks, Storage, Library

-----------------------------------------------------------------------------
(* What each step of a walk does, field by field.                            *)

(* It goes on with the same library.                                         *)
Onward(pc) ==
  /\ walk' \in Walks /\ walk'.pc = pc /\ walk'.at = walk.at /\ walk'.files = walk.files
  /\ walk'.file = walk.file /\ walk'.langs = walk.langs /\ walk'.todo = walk.todo
  /\ walk'.victim = walk.victim /\ walk'.dry = walk.dry

(* It goes on to the next library.                                           *)
Onto ==
  /\ walk' \in Walks /\ walk'.at = walk.at /\ walk'.files = walk.files /\ walk'.file = walk.file
  /\ walk'.langs = walk.langs /\ walk'.dry = walk.dry /\ walk'.todo = Tail(walk.todo)
  /\ \/ walk'.pc = "file" /\ walk'.todo = <<>>
     \/ walk'.pc = "conflict" /\ walk'.todo # <<>>

(* The rest stays.                                                           *)
Others == stored' = stored /\ job' = job /\ ready' = ready /\ run' = run /\ UNCHANGED budgets

(* What is in the way of the file in the library.                            *)
InTheWay == IF Marker[walk.file] = 0 THEN {} ELSE Conflicts(Library, Storage, walk.file, Marker[walk.file])

LEMMA ListFilesEffect ==
  ASSUME WalkTypes, ListFiles
  PROVE  /\ walk.pc = "list" /\ Others /\ Same /\ walk' \in Walks /\ walk'.pc = "file"
         /\ walk'.files = DOMAIN stored[Storage] /\ walk'.at = walk.at /\ walk'.dry = walk.dry
<1>1. walk.pc = "list" /\ Storage \in Instances /\ walk \in Walks
  BY WalkTyped DEF ListFiles, Walking, WalkTypes, WalkShape
<1>2. DOMAIN stored[Storage] \subseteq Names
  BY <1>1 DEF WalkTypes, EpisodeInv, StorageOK
<1>3. Others /\ Same
  BY DEF ListFiles, vars, libraries, budgets, Others, Same
<1>4. QED
  BY <1>1, <1>2, <1>3 DEF ListFiles, Walks, WalkPcs

LEMMA NextFileEffect ==
  ASSUME WalkTypes, NextFile
  PROVE  /\ walk.pc = "file" /\ Others /\ Same /\ walk' \in Walks /\ walk'.dry = walk.dry
         /\ \/ /\ walk'.pc = "detect" /\ walk'.at = walk.at /\ walk'.file \in walk.files
               /\ walk'.files = walk.files \ {walk'.file}
            \/ walk.files = {} /\ walk'.pc = "list" /\ walk'.at = Tail(walk.at) /\ walk'.at # <<>>
            \/ walk.files = {} /\ walk'.pc = "idle" /\ Tail(walk.at) = <<>>
<1>1. walk.pc = "file" /\ walk \in Walks /\ walk.at \in Seq(Instances) /\ walk.at # <<>>
      /\ Tail(walk.at) \in Seq(Instances)
  BY WalkTyped DEF NextFile, Walking, WalkTypes, WalkShape
<1>2. Others /\ Same
  BY DEF NextFile, vars, libraries, budgets, Others, Same
<1>3. Len(Tail(walk.at)) = Len(walk.at) - 1 /\ Len(walk.at) \in Nat \ {0}
  BY <1>1, HeadTailProperties, LenProperties, EmptySeq
<1>4. Len(walk.at) > 1 <=> Tail(walk.at) # <<>>
  <2>1. PICK rest \in Seq(Instances) : rest = Tail(walk.at)
    BY <1>1
  <2>2. Len(rest) = 0 <=> rest = <<>>
    BY <2>1, EmptySeq
  <2>3. QED
    BY <1>3, <2>1, <2>2
<1>5. ASSUME NEW n \in walk.files, walk' = [walk EXCEPT !.pc = "detect", !.file = n, !.files = @ \ {n}]
      PROVE  /\ walk' \in Walks /\ walk'.dry = walk.dry /\ walk'.pc = "detect" /\ walk'.at = walk.at
             /\ walk'.file = n /\ walk'.files = walk.files \ {n}
  BY <1>1, <1>5 DEF Walks, WalkPcs
<1>6. ASSUME walk' = [walk EXCEPT !.pc = "list", !.at = Tail(@)]
      PROVE  walk' \in Walks /\ walk'.dry = walk.dry /\ walk'.pc = "list" /\ walk'.at = Tail(walk.at)
  BY <1>1, <1>6 DEF Walks, WalkPcs
<1>7. ASSUME walk' = [NoWalk EXCEPT !.dry = walk.dry]
      PROVE  walk' \in Walks /\ walk'.dry = walk.dry /\ walk'.pc = "idle"
  BY <1>1, <1>7, EmptySeq DEF Walks, WalkPcs, NoWalk
<1>8. CASE walk.files # {}
  BY <1>1, <1>2, <1>5, <1>8 DEF NextFile
<1>9. CASE walk.files = {} /\ Len(walk.at) > 1
  BY <1>1, <1>2, <1>4, <1>6, <1>9 DEF NextFile
<1>10. CASE walk.files = {} /\ ~(Len(walk.at) > 1)
  BY <1>1, <1>2, <1>4, <1>7, <1>10 DEF NextFile
<1>11. QED
  BY <1>8, <1>9, <1>10

LEMMA DetectFileEffect ==
  ASSUME WalkTypes, DetectFile
  PROVE  /\ walk.pc = "detect" /\ Others /\ Same /\ walk' \in Walks /\ walk'.dry = walk.dry
         /\ walk'.at = walk.at /\ walk'.files = walk.files /\ walk'.file = walk.file
         /\ walk'.langs \in SUBSET Languages
         /\ Present(Storage, walk.file) => walk'.langs = stored[Storage][walk.file]
         /\ walk'.todo = IF walk'.langs = {} THEN <<>> ELSE LinkTargets(Storage, walk'.langs)
         /\ walk'.pc = IF walk'.todo = <<>> THEN "file" ELSE "conflict"
<1>1. walk.pc = "detect" /\ walk \in Walks /\ Storage \in Instances
  BY WalkTyped DEF DetectFile, Walking, WalkTypes, WalkShape
<1>2. Others /\ Same
  BY DEF DetectFile, vars, libraries, budgets, Others, Same
<1> DEFINE langs == IF Present(Storage, walk.file) THEN stored[Storage][walk.file] ELSE {}
<1> DEFINE todo == IF langs = {} THEN <<>> ELSE LinkTargets(Storage, langs)
<1>3. langs \in SUBSET Languages
  BY <1>1 DEF WalkTypes, EpisodeInv, StorageOK, Present
<1>4. todo \in Seq(Instances)
  BY <1>1, <1>3, LinkTargetsTyped, EmptySeq
<1>5. walk' = [walk EXCEPT !.langs = langs, !.todo = todo, !.pc = IF todo = <<>> THEN "file" ELSE "conflict"]
  BY DEF DetectFile
<1>6. Present(Storage, walk.file) => langs = stored[Storage][walk.file]
  OBVIOUS
<1>7. QED
  <2> HIDE DEF langs, todo
  <2>1. /\ walk' \in Walks /\ walk'.dry = walk.dry /\ walk'.at = walk.at /\ walk'.files = walk.files
        /\ walk'.file = walk.file /\ walk'.langs = langs /\ walk'.todo = todo
        /\ walk'.pc = IF todo = <<>> THEN "file" ELSE "conflict"
    BY <1>1, <1>3, <1>4, <1>5 DEF Walks, WalkPcs, Working
  <2>2. todo = IF langs = {} THEN <<>> ELSE LinkTargets(Storage, langs)
    BY DEF todo
  <2>3. QED
    BY <1>1, <1>2, <1>3, <1>6, <2>1, <2>2

LEMMA ConflictEffect ==
  ASSUME WalkTypes, ConflictOfWalk
  PROVE  /\ walk.pc = "conflict" /\ Others /\ Same
         /\ \/ /\ walk' \in Walks /\ walk'.pc = "judge" /\ walk'.at = walk.at /\ walk'.files = walk.files
               /\ walk'.file = walk.file /\ walk'.langs = walk.langs /\ walk'.todo = walk.todo
               /\ walk'.dry = walk.dry /\ walk'.victim \in InTheWay /\ walk'.victim \in Names
            \/ InTheWay = {} /\ walk.dry /\ Onto
            \/ InTheWay = {} /\ ~walk.dry /\ Onward("prepare")
<1>1. walk.pc = "conflict" /\ walk \in Walks /\ walk.file \in Names /\ WalkShape
  BY DEF ConflictOfWalk, Walking, WalkTypes, WalkShape, Working
<1>2. Others /\ Same
  BY DEF ConflictOfWalk, vars, libraries, budgets, Others, Same
<1>3. InTheWay \subseteq Names
  BY <1>1 DEF InTheWay, Conflicts
<1>4. \/ \E m \in InTheWay : walk' = [walk EXCEPT !.pc = "judge", !.victim = m]
      \/ InTheWay = {} /\ walk.dry /\ NextTarget
      \/ InTheWay = {} /\ ~walk.dry /\ Step("prepare")
  BY DEF ConflictOfWalk, InTheWay
<1>5. ASSUME NEW m \in InTheWay, walk' = [walk EXCEPT !.pc = "judge", !.victim = m]
      PROVE  /\ walk' \in Walks /\ walk'.pc = "judge" /\ walk'.at = walk.at /\ walk'.files = walk.files
             /\ walk'.file = walk.file /\ walk'.langs = walk.langs /\ walk'.todo = walk.todo
             /\ walk'.dry = walk.dry /\ walk'.victim = m /\ m \in Names
  <2>1. m \in Names
    BY <1>3, <1>5
  <2>2. QED
    BY <1>1, <1>5, <2>1 DEF Walks, WalkPcs, Working
<1>6. (NextTarget => Onto) /\ (Step("prepare") => Onward("prepare"))
  BY <1>1, NextTargetFacts, StepFacts DEF Working, WalkPcs, Onto, Onward
<1>7. QED
  BY <1>1, <1>2, <1>4, <1>5, <1>6

LEMMA JudgeWalkEffect ==
  ASSUME WalkTypes, JudgeOfWalk
  PROVE  /\ walk.pc = "judge" /\ Others /\ Same
         /\ LET verdict == Verdict(entry[Library][walk.victim], Storage, Library)
            IN  \/ (verdict = "skip" \/ walk.dry) /\ Onto
                \/ verdict = "link" /\ ~walk.dry /\ Onward("prepare")
                \/ verdict = "replace" /\ ~walk.dry /\ Onward("stat")
<1>1. walk.pc = "judge" /\ WalkShape /\ walk.dry \in BOOLEAN
  BY WalkTyped DEF JudgeOfWalk, Walking, WalkTypes
<1>2. Others /\ Same
  BY DEF JudgeOfWalk, vars, libraries, budgets, Others, Same
<1>3. \/ (Verdict(entry[Library][walk.victim], Storage, Library) = "skip" \/ walk.dry) /\ NextTarget
      \/ Verdict(entry[Library][walk.victim], Storage, Library) = "link" /\ ~walk.dry /\ Step("prepare")
      \/ Verdict(entry[Library][walk.victim], Storage, Library) = "replace" /\ ~walk.dry /\ Step("stat")
  <2> DEFINE verdict == Verdict(entry[Library][walk.victim], Storage, Library)
  <2>1. verdict \in {"skip", "link", "replace"}
    BY DEF Verdict
  <2>2. verdict = "skip" \/ walk.dry => NextTarget
    BY <1>1 DEF JudgeOfWalk
  <2>3. verdict = "link" /\ ~walk.dry => Step("prepare")
    BY DEF JudgeOfWalk
  <2>4. verdict = "replace" /\ ~walk.dry => Step("stat")
    BY DEF JudgeOfWalk
  <2>5. QED
    BY <1>1, <2>1, <2>2, <2>3, <2>4
<1>4. NextTarget => Onto
  BY <1>1, NextTargetFacts DEF Working, Onto
<1>5. \A pc \in WalkPcs : Step(pc) => Onward(pc)
  BY <1>1, StepFacts DEF Onward
<1>6. QED
  BY <1>1, <1>2, <1>3, <1>4, <1>5 DEF WalkPcs, Working

LEMMA StatVictimEffect ==
  ASSUME WalkTypes, StatVictim
  PROVE  /\ walk.pc = "stat" /\ Others /\ Same
         /\ \/ entry[Library][walk.victim] = None /\ Onward("prepare")
            \/ entry[Library][walk.victim] # None /\ Onward("remove")
<1>1. walk.pc = "stat" /\ WalkShape
  BY DEF StatVictim, Walking, WalkTypes
<1>2. Others /\ Same
  BY DEF StatVictim, vars, libraries, budgets, Others, Same
<1>3. \A pc \in WalkPcs : Step(pc) => Onward(pc)
  BY <1>1, StepFacts DEF Onward
<1>4. QED
  BY <1>1, <1>2, <1>3 DEF StatVictim, WalkPcs, Working

LEMMA RemoveVictimEffect ==
  ASSUME WalkTypes, RemoveVictim
  PROVE  /\ walk.pc = "remove" /\ Others /\ folder' = folder
         /\ \/ entry[Library][walk.victim] = None /\ Onto /\ entry' = entry
            \/ /\ entry[Library][walk.victim] # None /\ Onward("prune")
               /\ entry' = [entry EXCEPT ![Library][walk.victim] = None]
<1>1. walk.pc = "remove" /\ WalkShape
  BY DEF RemoveVictim, Walking, WalkTypes
<1>2. Others /\ folder' = folder
  BY DEF RemoveVictim, budgets, Others
<1>3. (NextTarget => Onto) /\ (Step("prune") => Onward("prune"))
  BY <1>1, NextTargetFacts, StepFacts DEF Working, WalkPcs, Onto, Onward
<1>4. QED
  BY <1>1, <1>2, <1>3 DEF RemoveVictim

LEMMA PruneFolderEffect ==
  ASSUME WalkTypes, PruneFolder
  PROVE  /\ walk.pc = "prune" /\ Others /\ entry' = entry /\ Onward("prepare")
         /\ folder' = [folder EXCEPT ![Library] = \E n \in Names : entry[Library][n] # None]
<1>1. walk.pc = "prune" /\ WalkShape
  BY DEF PruneFolder, Walking, WalkTypes
<1>2. Others /\ entry' = entry
  BY DEF PruneFolder, budgets, Others
<1>3. QED
  BY <1>1, <1>2, StepFacts DEF PruneFolder, WalkPcs, Working, Onward

LEMMA PrepareLinkEffect ==
  ASSUME WalkTypes, PrepareLink
  PROVE  /\ walk.pc = "prepare" /\ Others /\ entry' = entry
         /\ \/ /\ Present(Storage, walk.file) /\ Onward("probe")
               /\ folder' = [folder EXCEPT ![Library] = TRUE]
            \/ ~Present(Storage, walk.file) /\ Onto /\ folder' = folder
<1>1. walk.pc = "prepare" /\ WalkShape
  BY DEF PrepareLink, Walking, WalkTypes
<1>2. Others /\ entry' = entry
  BY DEF PrepareLink, budgets, Others
<1>3. (NextTarget => Onto) /\ (Step("probe") => Onward("probe"))
  BY <1>1, NextTargetFacts, StepFacts DEF Working, WalkPcs, Onto, Onward
<1>4. QED
  BY <1>1, <1>2, <1>3 DEF PrepareLink

LEMMA ProbeLinkEffect ==
  ASSUME WalkTypes, ProbeLink
  PROVE  /\ walk.pc = "probe" /\ Others /\ entry' = entry /\ folder' = [folder EXCEPT ![Library] = TRUE]
         /\ \/ entry[Library][walk.file] = None /\ Onward("create")
            \/ entry[Library][walk.file] # None /\ Onto
<1>1. walk.pc = "probe" /\ WalkShape
  BY DEF ProbeLink, Walking, WalkTypes
<1>2. Others /\ entry' = entry
  BY DEF ProbeLink, budgets, Others
<1>3. (NextTarget => Onto) /\ (Step("create") => Onward("create"))
  BY <1>1, NextTargetFacts, StepFacts DEF Working, WalkPcs, Onto, Onward
<1>4. QED
  BY <1>1, <1>2, <1>3 DEF ProbeLink

LEMMA CreateLinkEffect ==
  ASSUME WalkTypes, CreateLink
  PROVE  /\ walk.pc = "create" /\ Others /\ folder' = folder /\ Onto
         /\ entry' = IF folder[Library] /\ entry[Library][walk.file] = None
                     THEN [entry EXCEPT ![Library][walk.file] = Storage] ELSE entry
<1>1. walk.pc = "create" /\ WalkShape
  BY DEF CreateLink, Walking, WalkTypes
<1>2. Others /\ folder' = folder
  BY DEF CreateLink, budgets, Others
<1>3. QED
  BY <1>1, <1>2, NextTargetFacts DEF CreateLink, Working, Onto

-----------------------------------------------------------------------------
(* The types.                                                                *)

(* Steps that leave the queue and storage alone.                             *)
LEMMA OthersKeep ==
  ASSUME WalkTypes, Others, LibraryOK'
  PROVE  EpisodeInv' /\ OneFile'
BY DEF WalkTypes, EpisodeInv, Others, StorageOK, QueueOK, HandlerOK, OneFile, Jobs, Running, Queued

LEMMA OnwardShape ==
  ASSUME WalkTypes, NEW pc \in Working \ {"judge"}, Onward(pc), walk.pc \in Working,
         pc \in {"remove", "prune", "stat"} => walk.pc \in {"judge", "stat", "remove"}
  PROVE  WalkShape'
BY DEF WalkTypes, WalkShape, Onward, Working

LEMMA OntoShape ==
  ASSUME WalkTypes, Onto, walk.pc \in Working
  PROVE  WalkShape'
BY DEF WalkTypes, WalkShape, Onto, Working

LEMMA WalkKeepsTypes ==
  ASSUME WalkTypes, Walk
  PROVE  WalkTypes'
<1>0. LibraryOK /\ WalkShape /\ (walk.pc \in Working => Library \in Instances /\ walk.file \in Names)
      /\ (walk.pc \in {"judge", "stat", "remove", "prune"} => walk.victim \in Names)
      /\ (walk.pc # "idle" => Storage \in Instances)
  BY WalkTyped DEF WalkTypes, EpisodeInv, WalkShape
<1>1. ASSUME Same PROVE LibraryOK'
  BY <1>0, <1>1 DEF Same, LibraryOK
<1>2. CASE ListFiles
  <2>1. WalkShape'
    BY <1>0, <1>2, ListFilesEffect DEF WalkShape, Working
  <2>2. QED
    BY <1>1, <1>2, <2>1, ListFilesEffect, OthersKeep DEF WalkTypes
<1>3. CASE NextFile
  <2>1. WalkShape'
    BY <1>0, <1>3, NextFileEffect DEF WalkShape, Working, Walks
  <2>2. QED
    BY <1>1, <1>3, <2>1, NextFileEffect, OthersKeep DEF WalkTypes
<1>4. CASE DetectFile
  <2>1. WalkShape'
    BY <1>0, <1>4, DetectFileEffect DEF WalkShape, Working
  <2>2. QED
    BY <1>1, <1>4, <2>1, DetectFileEffect, OthersKeep DEF WalkTypes
<1>5. CASE ConflictOfWalk
  <2>1. WalkShape'
    BY <1>0, <1>5, ConflictEffect, OnwardShape, OntoShape DEF WalkShape, Working
  <2>2. QED
    BY <1>1, <1>5, <2>1, ConflictEffect, OthersKeep DEF WalkTypes
<1>6. CASE JudgeOfWalk
  <2>1. WalkShape'
    BY <1>6, JudgeWalkEffect, OnwardShape, OntoShape DEF Working
  <2>2. QED
    BY <1>1, <1>6, <2>1, JudgeWalkEffect, OthersKeep DEF WalkTypes
<1>7. CASE StatVictim
  <2>1. WalkShape'
    BY <1>7, StatVictimEffect, OnwardShape DEF Working
  <2>2. QED
    BY <1>1, <1>7, <2>1, StatVictimEffect, OthersKeep DEF WalkTypes
<1>8. CASE RemoveVictim
  <2>1. WalkShape'
    BY <1>8, RemoveVictimEffect, OnwardShape, OntoShape DEF Working
  <2>2. LibraryOK'
    <3>1. Library \in Instances /\ walk.victim \in Names /\ folder' = folder
          /\ (entry' = entry \/ entry' = [entry EXCEPT ![Library][walk.victim] = None])
      BY <1>0, <1>8, RemoveVictimEffect DEF Working
    <3>2. CASE entry' = entry
      BY <1>0, <3>1, <3>2 DEF LibraryOK
    <3>3. CASE entry' = [entry EXCEPT ![Library][walk.victim] = None]
      <4>1. entry' \in [Instances -> [Names -> Instances \cup {None}]]
        BY <1>0, <3>1, <3>3 DEF LibraryOK
      <4>2. \A i \in Instances, n \in Names : entry[i][n] = None => entry'[i][n] = None
        BY <1>0, <3>1, <3>3 DEF LibraryOK
      <4>3. QED
        BY <1>0, <3>1, <4>1, <4>2 DEF LibraryOK
    <3>4. QED
      BY <3>1, <3>2, <3>3
  <2>3. QED
    BY <1>8, <2>1, <2>2, RemoveVictimEffect, OthersKeep DEF WalkTypes
<1>9. CASE PruneFolder
  <2>1. WalkShape'
    BY <1>9, PruneFolderEffect, OnwardShape DEF Working
  <2>2. LibraryOK'
    <3>1. /\ Library \in Instances /\ entry' = entry
          /\ folder' = [folder EXCEPT ![Library] = \E n \in Names : entry[Library][n] # None]
      BY <1>0, <1>9, PruneFolderEffect DEF Working
    <3>2. QED
      BY <1>0, <3>1 DEF LibraryOK
  <2>3. QED
    BY <1>9, <2>1, <2>2, PruneFolderEffect, OthersKeep DEF WalkTypes
<1>10. CASE PrepareLink
  <2>1. WalkShape'
    BY <1>10, PrepareLinkEffect, OnwardShape, OntoShape DEF Working
  <2>2. LibraryOK'
    BY <1>0, <1>10, PrepareLinkEffect DEF LibraryOK, Working
  <2>3. QED
    BY <1>10, <2>1, <2>2, PrepareLinkEffect, OthersKeep DEF WalkTypes
<1>11. CASE ProbeLink
  <2>1. WalkShape'
    BY <1>11, ProbeLinkEffect, OnwardShape, OntoShape DEF Working
  <2>2. LibraryOK'
    BY <1>0, <1>11, ProbeLinkEffect DEF LibraryOK, Working
  <2>3. QED
    BY <1>11, <2>1, <2>2, ProbeLinkEffect, OthersKeep DEF WalkTypes
<1>12. CASE CreateLink
  <2>1. WalkShape'
    BY <1>12, CreateLinkEffect, OntoShape DEF Working
  <2>2. LibraryOK'
    BY <1>0, <1>12, CreateLinkEffect DEF LibraryOK, Working
  <2>3. QED
    BY <1>12, <2>1, <2>2, CreateLinkEffect, OthersKeep DEF WalkTypes
<1>13. QED
  BY <1>2, <1>3, <1>4, <1>5, <1>6, <1>7, <1>8, <1>9, <1>10, <1>11, <1>12 DEF Walk

LEMMA NoWalkTyped == NoWalk \in Walks /\ NoWalk.pc = "idle" /\ NoWalk.dry = FALSE
BY EmptySeq DEF NoWalk, Walks, WalkPcs

LEMMA RegenerateFacts ==
  ASSUME WalkTypes, NEW dry \in BOOLEAN, Regenerate(dry)
  PROVE  /\ WalkTypes' /\ Others /\ Same /\ walk'.pc = "list" /\ walk'.at = Config
         /\ began' = "healthy" => Healthy
         /\ began' = "single" => OneLinkPerEpisode
<1>1. Others /\ Same
  BY DEF Regenerate, vars, libraries, budgets, Others, Same
<1>2. walk' \in Walks /\ walk'.pc = "list" /\ walk'.at = Config /\ Config # <<>>
  BY NoWalkTyped, EpisodeLibraryAssumption DEF Regenerate, Walks, WalkPcs
<1>3. WalkShape'
  BY <1>2 DEF WalkShape, Working
<1>4. LibraryOK'
  BY <1>1 DEF WalkTypes, EpisodeInv, Same, LibraryOK
<1>5. WalkTypes'
  BY <1>1, <1>3, <1>4, OthersKeep DEF WalkTypes
<1>6. /\ began' = "healthy" => Healthy
      /\ began' = "single" => OneLinkPerEpisode
  BY DEF Regenerate
<1>7. QED
  BY <1>1, <1>2, <1>5, <1>6

(* The steps beside the walk disturb it.                                     *)
LEMMA DisturbedSteps ==
  ASSUME WalkTypes, Drop \/ Beside \/ \E i \in Instances, n \in Names : Lose(i, n)
  PROVE  WalkTypes' /\ began' = "disturbed"
<1>1. CASE Drop
  <2>1. Others /\ Same
    BY <1>1 DEF Drop, vars, libraries, budgets, Others, Same
  <2>2. LibraryOK'
    BY <2>1 DEF WalkTypes, EpisodeInv, Same, LibraryOK
  <2>3. WalkShape'
    BY <1>1, NoWalkTyped DEF Drop, WalkShape, Working
  <2>4. QED
    BY <1>1, <2>1, <2>2, <2>3, OthersKeep DEF Drop, WalkTypes
<1>2. CASE Beside
  <2>1. EpisodeInv'
    BY <1>2, EpisodeStep DEF Beside, WalkTypes
  <2>2. OneFile'
    <3>1. CASE Changes
      BY <3>1, SonarrKeepsOneFile DEF Changes, WalkTypes
    <3>2. CASE ~Changes
      BY <1>2, <3>2, QuietSteps DEF Beside, WalkTypes, OneFile
    <3>3. QED
      BY <3>1, <3>2
  <2>3. WalkShape'
    BY <1>2, NoWalkTyped DEF Beside, WalkTypes, WalkShape, Working
  <2>4. QED
    BY <1>2, <2>1, <2>2, <2>3 DEF Beside, WalkTypes
<1>3. ASSUME NEW i \in Instances, NEW n \in Names, Lose(i, n) PROVE WalkTypes' /\ began' = "disturbed"
  <2>1. Others /\ walk' = walk /\ folder' = folder /\ entry' = [entry EXCEPT ![i][n] = None]
    BY <1>3 DEF Lose, budgets, Others
  <2>2. LibraryOK'
    BY <2>1 DEF WalkTypes, EpisodeInv, LibraryOK
  <2>3. WalkShape'
    BY <2>1 DEF WalkTypes, WalkShape
  <2>4. QED
    BY <1>3, <2>1, <2>2, <2>3, OthersKeep DEF Lose, WalkTypes
<1>4. QED
  BY <1>1, <1>2, <1>3

LEMMA TypesInit == WalkInit => WalkTypes /\ began = "disturbed"
<1> SUFFICES ASSUME WalkInit PROVE WalkTypes /\ began = "disturbed"
  OBVIOUS
<1>1. /\ DOMAIN stored = Instances /\ \A i \in Instances : DOMAIN stored[i] \subseteq Names
      /\ \A i \in Instances : \A n \in DOMAIN stored[i] : stored[i][n] \in Audio[i][n]
      /\ OneFile
  BY DEF WalkInit, Found, OneFile
<1>2. StorageOK
  BY <1>1, EpisodeLibraryAssumption DEF StorageOK
<1>3. LibraryOK
  BY DEF WalkInit, LibraryOK
<1>4. Jobs = {} /\ Running = {} /\ Queued = {}
  BY DEF WalkInit, Jobs, Running, Queued
<1>5. <<>> \in Seq(Nat) /\ <<>> \in Seq(JobRecord) /\ <<>> \in Seq(Handlers) /\ Distinct(<<>>) /\ Elements(<<>>) = {}
  BY EmptySeq DEF Distinct, Elements
<1>6. QueueOK
  BY <1>4, <1>5, FS_EmptySet, EpisodeLibraryAssumption DEF WalkInit, QueueOK
<1>7. WalkShape
  BY NoWalkTyped DEF WalkInit, WalkShape, Working
<1>8. QED
  BY <1>1, <1>2, <1>3, <1>6, <1>7 DEF WalkTypes, EpisodeInv, WalkInit

-----------------------------------------------------------------------------
(* What an undisturbed walk has seen still holds.                            *)

(* The names carry the marker of their episode.                              *)
Marked == \A n \in Names : Marker[n] = Episode[n] /\ Marker[n] # 0

(* The file in hand is there and for the libraries to come; the link in the  *)
(* way is another of its episode, and it goes only if the keep-policy says   *)
(* so; from then on nothing is in the way.                                   *)
Seen ==
  LET there == entry[Library][walk.file]
      obstacle == entry[Library][walk.victim]
  IN  /\ walk.pc \notin {"idle", "list"} => walk.files \subseteq DOMAIN stored[Storage]
      /\ walk.pc \in Working \cup {"detect"} => Present(Storage, walk.file)
      /\ walk.pc \in Working => \A i \in Elements(walk.todo) : For(Storage, walk.file, i)
      /\ walk.pc \in {"judge", "stat", "remove"} =>
           /\ obstacle # None /\ Episode[walk.victim] = Episode[walk.file]
           /\ walk.victim = walk.file => there # Storage
           /\ walk.victim # walk.file => there \in {None, Storage}
      /\ walk.pc \in {"stat", "remove"} => Verdict(obstacle, Storage, Library) = "replace"
      /\ walk.pc \in Making \cup {"stat", "remove"} => ~walk.dry
      /\ walk.pc \in Making => there \in {None, Storage}
      /\ walk.pc = "create" => folder[Library] /\ there = None

(* The file in hand stays, and so do those to come.                          *)
LEMMA OnwardSeen ==
  ASSUME WalkTypes, Seen, Others, walk.pc \in Working, NEW pc \in Working, Onward(pc)
  PROVE  /\ Storage' = Storage /\ Library' = Library
         /\ walk'.files \subseteq DOMAIN stored'[Storage'] /\ Present(Storage, walk.file)'
         /\ \A i \in Elements(walk'.todo) : For(Storage, walk.file, i)'
BY DEF Seen, Others, Onward, Storage, Library, Present, For, Heard, IsPrimary, Working

LEMMA OntoSeen ==
  ASSUME WalkTypes, Seen, Others, walk.pc \in Working, Onto
  PROVE  Seen' /\ Storage' = Storage
<1>1. Elements(walk.todo) = {Library} \cup Elements(walk'.todo)
  BY WalkTyped DEF Onto
<1>2. /\ Storage' = Storage /\ stored' = stored /\ walk'.files = walk.files /\ walk'.file = walk.file
      /\ walk'.pc \in {"file", "conflict"}
  BY DEF Others, Onto, Storage
<1>3. \A i \in Elements(walk'.todo) : For(Storage, walk.file, i)'
  BY <1>1, <1>2 DEF Seen, For, Heard, IsPrimary, Present
<1>4. QED
  BY <1>2, <1>3 DEF Seen, Present, Working, Making

LEMMA SeenStep ==
  ASSUME WalkTypes, Marked, Seen, Walk
  PROVE  Seen'
<1>0. /\ walk.pc # "idle" => Storage \in Instances
      /\ walk.pc \in Working => Library \in Instances /\ walk.file \in Names
      /\ walk.pc \in {"judge", "stat", "remove", "prune"} => walk.victim \in Names
      /\ LibraryOK /\ None \notin Instances
  BY WalkTyped DEF WalkTypes, EpisodeInv, WalkShape
<1>1. CASE ListFiles
  <2>1. Storage' = Storage
    BY <1>1, ListFilesEffect DEF Storage
  <2>2. QED
    BY <1>1, <2>1, ListFilesEffect DEF Seen, Others, Working, Making
<1>2. CASE NextFile
  <2>1. walk'.at = walk.at => Storage' = Storage
    BY DEF Storage
  <2>2. QED
    BY <1>2, <2>1, NextFileEffect DEF Seen, Others, Working, Making, Present
<1>3. CASE DetectFile
  <2>1. Storage' = Storage /\ stored' = stored /\ Present(Storage, walk.file)
    BY <1>3, DetectFileEffect DEF Storage, Others, Seen
  <2>2. walk'.pc \in {"file", "conflict"} /\ walk'.file = walk.file /\ walk'.files = walk.files
    BY <1>3, DetectFileEffect
  <2>3. ASSUME walk'.pc = "conflict", NEW i \in Elements(walk'.todo) PROVE For(Storage, walk.file, i)'
    <3>1. /\ walk'.langs = stored[Storage][walk.file] /\ walk'.langs \in SUBSET Languages
          /\ walk'.todo = IF walk'.langs = {} THEN <<>> ELSE LinkTargets(Storage, walk'.langs)
      BY <1>3, <2>1, DetectFileEffect
    <3>2. walk'.langs # {} /\ Heard(Storage, walk.file) = walk'.langs
      BY <2>3, <3>1, NothingTodo DEF Heard
    <3>3. For(Storage, walk.file, i)
      BY <1>0, <1>3, <2>1, <2>3, <3>1, <3>2, DetectFileEffect, TargetsFit
    <3>4. QED
      BY <2>1, <2>2, <3>3 DEF For, Heard, IsPrimary, Present
  <2>4. QED
    BY <1>3, <2>1, <2>2, <2>3, DetectFileEffect DEF Seen, Present, Working, Making
<1>4. CASE ConflictOfWalk
  <2>0. walk.pc = "conflict" /\ Others /\ Same
    BY <1>4, ConflictEffect
  <2>1. CASE Onto
    BY <2>0, <2>1, OntoSeen DEF Working
  <2>2. CASE Onward("prepare") /\ InTheWay = {} /\ ~walk.dry
    <3>1. entry[Library][walk.file] \in {None, Storage}
      BY <1>0, <2>0, <2>2 DEF InTheWay, Conflicts, Marked, Working
    <3>2. QED
      BY <2>0, <2>2, <3>1, OnwardSeen DEF Seen, Working, Making, Onward, Same
  <2>3. CASE /\ walk' \in Walks /\ walk'.pc = "judge" /\ walk'.at = walk.at /\ walk'.files = walk.files
             /\ walk'.file = walk.file /\ walk'.langs = walk.langs /\ walk'.todo = walk.todo
             /\ walk'.dry = walk.dry /\ walk'.victim \in InTheWay /\ walk'.victim \in Names
    <3>1. PICK v \in Names : v = walk'.victim
      BY <2>3
    <3>2. /\ entry[Library][v] # None /\ Episode[v] = Episode[walk.file]
          /\ v = walk.file => entry[Library][walk.file] # Storage
          /\ v # walk.file => entry[Library][walk.file] \in {None, Storage}
      BY <1>0, <2>0, <2>3, <3>1 DEF InTheWay, Conflicts, Marked, Working
    <3>3. Storage' = Storage /\ Library' = Library
      BY <2>3 DEF Storage, Library
    <3>4. /\ walk'.files \subseteq DOMAIN stored'[Storage'] /\ Present(Storage, walk.file)'
          /\ \A i \in Elements(walk'.todo) : For(Storage, walk.file, i)'
      BY <2>0, <2>3, <3>3 DEF Seen, Others, Working, Present, For, Heard, IsPrimary
    <3>5. QED
      BY <2>0, <2>3, <3>1, <3>2, <3>3, <3>4 DEF Seen, Working, Making, Same
  <2>4. QED
    BY <1>4, <2>1, <2>2, <2>3, ConflictEffect
<1>5. CASE JudgeOfWalk
  <2>0. walk.pc = "judge" /\ Others /\ Same
    BY <1>5, JudgeWalkEffect
  <2>1. CASE Onto
    BY <2>0, <2>1, OntoSeen DEF Working
  <2>2. CASE /\ Verdict(entry[Library][walk.victim], Storage, Library) = "replace"
             /\ ~walk.dry /\ Onward("stat")
    <3>1. Storage' = Storage /\ Library' = Library /\ walk'.pc = "stat" /\ walk'.file = walk.file /\ walk'.victim = walk.victim
      BY <2>0, <2>2, OnwardSeen DEF Working, Onward
    <3>2. Verdict(entry[Library][walk.victim], Storage, Library)' = "replace"
      BY <2>0, <2>2, <3>1 DEF Verdict, Same
    <3>3. QED
      BY <2>0, <2>2, <3>1, <3>2, OnwardSeen DEF Seen, Working, Making, Onward, Same
  <2>3. Verdict(entry[Library][walk.victim], Storage, Library) # "link"
    BY <2>0 DEF Seen, Verdict
  <2>4. QED
    BY <1>5, <2>1, <2>2, <2>3, JudgeWalkEffect
<1>6. CASE StatVictim
  <2>0. walk.pc = "stat" /\ Others /\ Same /\ Onward("remove")
    BY <1>6, StatVictimEffect DEF Seen
  <2>1. Storage' = Storage /\ Library' = Library /\ walk'.pc = "remove" /\ walk'.file = walk.file /\ walk'.victim = walk.victim
    BY <2>0, OnwardSeen DEF Working, Onward
  <2>2. Verdict(entry[Library][walk.victim], Storage, Library)' = "replace"
    BY <2>0, <2>1 DEF Verdict, Same, Seen
  <2>3. QED
    BY <2>0, <2>1, <2>2, OnwardSeen DEF Seen, Working, Making, Onward, Same
<1>7. CASE RemoveVictim
  <2>0. /\ walk.pc = "remove" /\ Others /\ folder' = folder /\ Onward("prune")
        /\ entry' = [entry EXCEPT ![Library][walk.victim] = None]
    BY <1>7, RemoveVictimEffect DEF Seen
  <2>1. entry'[Library][walk.file] \in {None, Storage}
    BY <1>0, <2>0 DEF Seen, LibraryOK, Working
  <2>2. QED
    BY <2>0, <2>1, OnwardSeen DEF Seen, Working, Making, Onward
<1>8. CASE PruneFolder
  <2>0. walk.pc = "prune" /\ Others /\ entry' = entry /\ Onward("prepare")
    BY <1>8, PruneFolderEffect
  <2>1. QED
    BY <2>0, OnwardSeen DEF Seen, Working, Making, Onward
<1>9. CASE PrepareLink
  <2>0. walk.pc = "prepare" /\ Others /\ entry' = entry /\ Onward("probe")
    BY <1>9, PrepareLinkEffect DEF Seen, Working
  <2>1. QED
    BY <2>0, OnwardSeen DEF Seen, Working, Making, Onward
<1>10. CASE ProbeLink
  <2>0. walk.pc = "probe" /\ Others /\ entry' = entry /\ folder' = [folder EXCEPT ![Library] = TRUE]
    BY <1>10, ProbeLinkEffect
  <2>1. CASE Onto
    BY <2>0, <2>1, OntoSeen DEF Working
  <2>2. CASE entry[Library][walk.file] = None /\ Onward("create")
    <3>1. folder'[Library]
      BY <1>0, <2>0 DEF LibraryOK, Working
    <3>2. QED
      BY <2>0, <2>2, <3>1, OnwardSeen DEF Seen, Working, Making, Onward
  <2>3. QED
    BY <1>10, <2>1, <2>2, ProbeLinkEffect
<1>11. CASE CreateLink
  BY <1>11, CreateLinkEffect, OntoSeen DEF Working
<1>12. QED
  BY <1>1, <1>2, <1>3, <1>4, <1>5, <1>6, <1>7, <1>8, <1>9, <1>10, <1>11 DEF Walk

-----------------------------------------------------------------------------
(* One link an episode.                                                      *)

(* And once nothing is in the way, the episode has no other link there.      *)
Single == OneLinkPerEpisode /\ (walk.pc \in Making => Alone(Library, walk.file))

(* Where the libraries stay, so does their one link.                         *)
LEMMA OnwardSingle ==
  ASSUME WalkTypes, Single, entry' = entry, NEW pc \in Making, Onward(pc), Alone(Library, walk.file)
  PROVE  Single'
BY DEF Single, OneLinkPerEpisode, Onward, Alone, Library

LEMMA SingleStep ==
  ASSUME WalkTypes, Marked, Seen, Single, Walk
  PROVE  Single'
<1>0. /\ walk.pc \in Working => Library \in Instances /\ walk.file \in Names
      /\ walk.pc \in {"judge", "stat", "remove", "prune"} => walk.victim \in Names
      /\ LibraryOK /\ OneLinkPerEpisode
  BY WalkTyped DEF WalkTypes, EpisodeInv, WalkShape, Single
<1>1. ASSUME entry' = entry, walk'.pc \notin Making PROVE Single'
  BY <1>0, <1>1 DEF Single, OneLinkPerEpisode
<1>2. ASSUME Onto, entry' = entry PROVE Single'
  BY <1>1, <1>2 DEF Onto, Making
<1>3. CASE ListFiles \/ NextFile \/ DetectFile
  BY <1>1, <1>3, ListFilesEffect, NextFileEffect, DetectFileEffect DEF Same, Making
<1>4. CASE ConflictOfWalk
  <2>1. CASE Onward("prepare") /\ InTheWay = {}
    <3>1. walk.pc = "conflict" /\ Same
      BY <1>4, ConflictEffect
    <3>2. Alone(Library, walk.file)
      BY <1>0, <2>1, <3>1 DEF InTheWay, Conflicts, Marked, Alone, Working
    <3>3. QED
      BY <2>1, <3>1, <3>2, OnwardSingle DEF Making, Same
  <2>2. QED
    BY <1>1, <1>2, <1>4, <2>1, ConflictEffect DEF Same, Making
<1>5. CASE JudgeOfWalk
  <2>1. Verdict(entry[Library][walk.victim], Storage, Library) # "link"
    BY <1>5, JudgeWalkEffect DEF Seen, Verdict
  <2>2. QED
    BY <1>1, <1>2, <1>5, <2>1, JudgeWalkEffect DEF Same, Making, Onward
<1>6. CASE StatVictim
  BY <1>1, <1>6, StatVictimEffect DEF Same, Making, Onward, Seen
<1>7. CASE RemoveVictim
  <2>0. /\ walk.pc = "remove" /\ Onward("prune") /\ entry[Library][walk.victim] # None
        /\ Episode[walk.victim] = Episode[walk.file]
        /\ entry' = [entry EXCEPT ![Library][walk.victim] = None]
    BY <1>7, RemoveVictimEffect DEF Seen
  <2>1. OneLinkPerEpisode'
    BY <1>0, <2>0 DEF OneLinkPerEpisode, LibraryOK
  <2>2. \A m \in Names : Episode[m] = Episode[walk.victim] => entry'[Library][m] = None
    BY <1>0, <2>0 DEF OneLinkPerEpisode, LibraryOK, Working
  <2>3. QED
    BY <2>0, <2>1, <2>2 DEF Single, Alone, Onward, Library
<1>8. CASE PruneFolder
  BY <1>8, PruneFolderEffect, OnwardSingle DEF Single, Making
<1>9. CASE PrepareLink
  <2>1. walk.pc \in Making /\ entry' = entry /\ (Onto \/ Onward("probe"))
    BY <1>9, PrepareLinkEffect DEF Making
  <2>2. QED
    BY <1>2, <2>1, OnwardSingle DEF Single, Making
<1>10. CASE ProbeLink
  <2>1. walk.pc \in Making /\ entry' = entry /\ (Onto \/ Onward("create"))
    BY <1>10, ProbeLinkEffect DEF Making
  <2>2. QED
    BY <1>2, <2>1, OnwardSingle DEF Single, Making
<1>11. CASE CreateLink
  <2>1. walk.pc = "create" /\ Onto /\ Alone(Library, walk.file)
        /\ entry' = IF folder[Library] /\ entry[Library][walk.file] = None
                    THEN [entry EXCEPT ![Library][walk.file] = Storage] ELSE entry
    BY <1>11, CreateLinkEffect DEF Single, Making
  <2>2. OneLinkPerEpisode'
    BY <1>0, <2>1 DEF OneLinkPerEpisode, Alone, LibraryOK, Working
  <2>3. QED
    BY <2>1, <2>2 DEF Single, Onto, Making
<1>12. QED
  BY <1>3, <1>4, <1>5, <1>6, <1>7, <1>8, <1>9, <1>10, <1>11 DEF Walk

-----------------------------------------------------------------------------
(* Healthy libraries.                                                        *)

(* What each library of a healthy tree shows of an episode.                  *)
LEMMA HealthyShows ==
  ASSUME Healthy, LibraryOK, None \notin Instances,
         NEW i \in Instances, NEW v \in Names, entry[i][v] # None
  PROVE  /\ entry[i][v] \in Instances /\ For(entry[i][v], v, i)
         /\ entry[i][v] # i =>
              /\ \A n \in Names : Episode[n] = Episode[v] => ~For(i, n, i)
              /\ \A o \in Instances, n \in Names : Episode[n] = Episode[v] /\ For(o, n, i) => entry[i][n] = o
<1> DEFINE files(owners, e) == {f \in owners \X Names : Episode[f[2]] = e /\ For(f[1], f[2], i)}
           shown(e) == {f \in Instances \X Names : Episode[f[2]] = e /\ entry[i][f[2]] = f[1]}
           e == Episode[v]
<1>1. e \in Elements(Episode)
  BY EpisodeLibraryAssumption DEF Elements
<1>2. shown(e) = IF files({i}, e) # {} THEN files({i}, e) ELSE files(Instances, e)
  BY <1>1 DEF Healthy
<1>3. entry[i][v] \in Instances
  BY DEF LibraryOK
<1>4. <<entry[i][v], v>> \in shown(e)
  BY <1>3
<1>5. \A n \in Names : Episode[n] = e /\ For(i, n, i) => <<i, n>> \in files({i}, e)
  OBVIOUS
<1>6. \A o \in Instances, n \in Names : Episode[n] = e /\ For(o, n, i) => <<o, n>> \in files(Instances, e)
  OBVIOUS
<1>7. \A o \in Instances, n \in Names : <<o, n>> \in shown(e) => entry[i][n] = o
  OBVIOUS
<1>8. For(entry[i][v], v, i) /\ (files({i}, e) # {} => entry[i][v] = i)
  BY <1>2, <1>4
<1> HIDE DEF files, shown
<1>9. QED
  BY <1>2, <1>3, <1>5, <1>6, <1>7, <1>8

LEMMA HealthyStays ==
  ASSUME Healthy, stored' = stored, entry' = entry
  PROVE  Healthy'
<1> DEFINE files(owners, i, e) == {f \in owners \X Names : Episode[f[2]] = e /\ For(f[1], f[2], i)}
           shown(i, e) == {f \in Instances \X Names : Episode[f[2]] = e /\ entry[i][f[2]] = f[1]}
<1>1. \A o, n, i : For(o, n, i)' <=> For(o, n, i)
  BY DEF For, Heard, IsPrimary, Present
<1>2. \A owners, i, e : files(owners, i, e)' = files(owners, i, e)
  BY <1>1
<1>3. \A i, e : shown(i, e)' = shown(i, e)
  OBVIOUS
<1>4. \A i \in Instances, e \in Elements(Episode) :
        shown(i, e) = IF files({i}, i, e) # {} THEN files({i}, i, e) ELSE files(Instances, i, e)
  BY DEF Healthy
<1> HIDE DEF files, shown
<1>5. \A i \in Instances, e \in Elements(Episode) :
        shown(i, e)' = IF files({i}, i, e)' # {} THEN files({i}, i, e)' ELSE files(Instances, i, e)'
  BY <1>2, <1>3, <1>4
<1>6. QED
  BY <1>5 DEF files, shown, Healthy

(* A library of a healthy tree has a link of each episode it has a file for. *)
LEMMA HealthyHas ==
  ASSUME Healthy, NEW i \in Instances, NEW o \in Instances, NEW n \in Names, For(o, n, i)
  PROVE  \E m \in Names : Episode[m] = Episode[n] /\ entry[i][m] \in Instances
<1> DEFINE files(owners, e) == {f \in owners \X Names : Episode[f[2]] = e /\ For(f[1], f[2], i)}
           shown(e) == {f \in Instances \X Names : Episode[f[2]] = e /\ entry[i][f[2]] = f[1]}
           e == Episode[n]
<1>1. e \in Elements(Episode)
  BY EpisodeLibraryAssumption DEF Elements
<1>2. shown(e) = IF files({i}, e) # {} THEN files({i}, e) ELSE files(Instances, e)
  BY <1>1 DEF Healthy
<1>3. <<o, n>> \in files(Instances, e)
  OBVIOUS
<1>4. shown(e) # {}
  BY <1>2, <1>3
<1>5. QED
  BY <1>4

(* Where no two instances share a language, it has one.                      *)
LEMMA HealthyIsSingle ==
  ASSUME Healthy, NoTies, LibraryOK, OneFile, None \notin Instances
  PROVE  OneLinkPerEpisode
<1> SUFFICES ASSUME NEW i \in Instances, NEW m \in Names, NEW n \in Names, entry[i][m] # None, entry[i][n] # None,
                    Episode[m] = Episode[n]
             PROVE  m = n
  BY DEF OneLinkPerEpisode
<1>1. PICK p \in Instances, q \in Instances : p = entry[i][m] /\ q = entry[i][n]
  BY DEF LibraryOK
<1>2. For(p, m, i) /\ For(q, n, i)
  BY <1>1, HealthyShows
<1>3. p = q
  <2>1. CASE p = i \/ q = i
    BY <1>1, <1>2, <2>1, HealthyShows
  <2>2. CASE p # i /\ q # i
    BY <1>2, <2>2 DEF For, IsPrimary, NoTies
  <2>3. QED
    BY <2>1, <2>2
<1>4. QED
  BY <1>2, <1>3 DEF For, Present, OneFile

(* A walk of healthy libraries finds each link made or the episode taken.    *)
Unharmed ==
  /\ Healthy
  /\ walk.pc \notin {"stat", "remove", "prune", "create"}
  /\ walk.pc \in {"prepare", "probe"} => entry[Library][walk.file] = Storage

LEMMA UnharmedStep ==
  ASSUME WalkTypes, Marked, Seen, Unharmed, Walk
  PROVE  Unharmed' /\ entry' = entry
<1>0. /\ walk.pc \in Working => Library \in Instances /\ walk.file \in Names /\ Storage \in Instances
      /\ walk.pc = "judge" => walk.victim \in Names
      /\ LibraryOK /\ OneFile /\ None \notin Instances
  BY WalkTyped DEF WalkTypes, EpisodeInv, WalkShape, Working
<1>1. ASSUME Others, entry' = entry PROVE Healthy'
  BY <1>1, HealthyStays DEF Others, Unharmed
<1>2. ASSUME Others, entry' = entry, Onto PROVE Unharmed'
  BY <1>1, <1>2 DEF Onto, Unharmed
<1>3. CASE ListFiles \/ NextFile \/ DetectFile
  BY <1>1, <1>3, ListFilesEffect, NextFileEffect, DetectFileEffect DEF Same, Unharmed
<1>4. CASE ConflictOfWalk
  <2>0. walk.pc = "conflict" /\ Others /\ Same
    BY <1>4, ConflictEffect
  <2>1. CASE Onward("prepare") /\ InTheWay = {}
    <3>1. For(Storage, walk.file, Library)
      BY <1>0, <2>0, WalkTyped DEF Seen, Working
    <3>2. PICK m \in Names : Episode[m] = Episode[walk.file] /\ entry[Library][m] \in Instances
      BY <1>0, <2>0, <3>1, HealthyHas DEF Unharmed, Working
    <3>3. m = walk.file /\ entry[Library][walk.file] = Storage
      BY <1>0, <2>0, <2>1, <3>2 DEF InTheWay, Conflicts, Marked, Working
    <3>4. QED
      BY <1>1, <2>0, <2>1, <3>3 DEF Unharmed, Same, Onward, Storage, Library
  <2>2. QED
    BY <1>1, <1>2, <1>4, <2>0, <2>1, ConflictEffect DEF Unharmed, Same
<1>5. CASE JudgeOfWalk
  <2>0. walk.pc = "judge" /\ Others /\ Same
    BY <1>5, JudgeWalkEffect
  <2>1. PICK p : p = entry[Library][walk.victim]
    OBVIOUS
  <2>2. /\ p \in Instances /\ Episode[walk.victim] = Episode[walk.file] /\ For(p, walk.victim, Library)
        /\ p # Library =>
             /\ \A n \in Names : Episode[n] = Episode[walk.file] => ~For(Library, n, Library)
             /\ \A o \in Instances, n \in Names :
                  Episode[n] = Episode[walk.file] /\ For(o, n, Library) => entry[Library][n] = o
    BY <1>0, <2>0, <2>1, HealthyShows DEF Seen, Unharmed, Working
  <2>3. For(Storage, walk.file, Library) /\ Library \in Instances /\ Storage \in Instances
    BY <1>0, <2>0, WalkTyped DEF Seen, Working
  <2>4. p # Storage
    <3>1. SUFFICES ASSUME p = Storage PROVE FALSE
      OBVIOUS
    <3>2. walk.victim = walk.file
      BY <1>0, <2>2, <2>3, <3>1 DEF For, Present, OneFile
    <3>3. QED
      BY <2>0, <2>1, <3>1, <3>2 DEF Seen
  <2>5. ~(Language[p] # Language[Library] /\ Language[Storage] = Language[Library])
    <3>1. SUFFICES ASSUME Language[p] # Language[Library], Language[Storage] = Language[Library] PROVE FALSE
      OBVIOUS
    <3>2. p # Library /\ Storage # Library
      BY <1>0, <2>0, <2>2, <2>3, <3>1 DEF Working
    <3>3. IsPrimary(p) /\ IsPrimary(Storage)
      BY <2>2, <2>3, <3>2 DEF For
    <3>4. QED
      BY <3>1, <3>3 DEF IsPrimary
  <2>6. Verdict(entry[Library][walk.victim], Storage, Library) = "skip"
    BY <1>0, <2>1, <2>2, <2>4, <2>5 DEF Verdict
  <2>7. QED
    BY <1>2, <1>5, <2>0, <2>6, JudgeWalkEffect DEF Same
<1>6. CASE StatVictim \/ RemoveVictim \/ PruneFolder \/ CreateLink
  BY <1>6, StatVictimEffect, RemoveVictimEffect, PruneFolderEffect, CreateLinkEffect DEF Unharmed
<1>7. CASE PrepareLink
  BY <1>1, <1>2, <1>7, PrepareLinkEffect DEF Unharmed, Onward, Storage, Library
<1>8. CASE ProbeLink
  BY <1>0, <1>2, <1>8, ProbeLinkEffect DEF Unharmed, Working
<1>9. QED
  BY <1>3, <1>4, <1>5, <1>6, <1>7, <1>8 DEF Walk

-----------------------------------------------------------------------------
(* What an undisturbed walk has rebuilt.                                     *)

(* The link of o's file n in the library i is still to be seen to.           *)
ToDo(o, n, i) ==
  \/ walk.pc = "list" /\ o \in Elements(walk.at)
  \/ walk.pc # "idle" /\ o \in Elements(Tail(walk.at))
  \/ walk.pc \notin {"idle", "list"} /\ o = Storage /\ n \in walk.files
  \/ walk.pc = "detect" /\ o = Storage /\ n = walk.file
  \/ walk.pc \in Working /\ o = Storage /\ n = walk.file /\ i \in Elements(walk.todo)

(* The library i has a link of n's episode, or is about to get one, and its  *)
(* own file is the one linked.                                               *)
Served(o, n, i) ==
  /\ o = i => entry[i][n] = i
  /\ \/ \E m \in Names : Episode[m] = Episode[n] /\ entry[i][m] # None
     \/ walk.pc \in Making /\ Library = i /\ Episode[walk.file] = Episode[n]

Wanted(o, n, i) == For(o, n, i) /\ stored[o][n] # {}

Rebuilt ==
  \A o, i \in Instances : \A n \in Names : Wanted(o, n, i) => ToDo(o, n, i) \/ Served(o, n, i)

LEMMA RebuiltKept ==
  ASSUME Others, Rebuilt,
         \A o, i \in Instances : \A n \in Names :
           Wanted(o, n, i) => /\ ToDo(o, n, i) => ToDo(o, n, i)' \/ Served(o, n, i)'
                              /\ Served(o, n, i) => ToDo(o, n, i)' \/ Served(o, n, i)'
  PROVE  Rebuilt'
<1>1. \A o, n, i : Wanted(o, n, i)' <=> Wanted(o, n, i)
  BY DEF Others, Wanted, For, Heard, IsPrimary, Present
<1>2. QED
  BY <1>1 DEF Rebuilt

(* In the same library as much is to do.                                     *)
LEMMA OnwardToDo ==
  ASSUME walk.pc \in Working, NEW pc \in Working, Onward(pc), NEW o, NEW n, NEW i, ToDo(o, n, i)
  PROVE  ToDo(o, n, i)'
BY DEF ToDo, Onward, Working, Storage

(* One that moves on has seen to its library.                                *)
LEMMA OntoToDo ==
  ASSUME WalkTypes, walk.pc \in Working, Onto, NEW o, NEW n, NEW i, ToDo(o, n, i)
  PROVE  ToDo(o, n, i)' \/ (o = Storage /\ n = walk.file /\ i = Library)
<1>1. Elements(walk.todo) = {Library} \cup Elements(walk'.todo)
  BY WalkTyped DEF Onto
<1>2. Storage' = Storage
  BY DEF Onto, Storage
<1>3. walk'.pc = "file" => Elements(walk'.todo) = {}
  BY NothingTodo DEF Onto, Working
<1>4. QED
  BY <1>1, <1>2, <1>3 DEF ToDo, Onto, Working

LEMMA RebuiltStep ==
  ASSUME WalkTypes, Marked, NoTies, Seen, Rebuilt, ~walk.dry, Walk
  PROVE  Rebuilt'
<1>0. /\ walk.pc # "idle" => Storage \in Instances
      /\ walk.pc \in Working => Library \in Instances /\ walk.file \in Names
      /\ walk.pc \in {"judge", "stat", "remove", "prune"} => walk.victim \in Names
      /\ LibraryOK /\ OneFile /\ None \notin Instances
  BY WalkTyped DEF WalkTypes, EpisodeInv, WalkShape
<1> DEFINE more(o, n, i) == ToDo(o, n, i)' \/ Served(o, n, i)'
<1>1. CASE ListFiles
  <2>1. /\ walk.pc = "list" /\ Others /\ Same /\ walk'.pc = "file" /\ walk'.at = walk.at
        /\ walk'.files = DOMAIN stored[Storage] /\ Storage' = Storage
    BY <1>1, ListFilesEffect DEF Storage
  <2>2. Elements(walk.at) = {Storage} \cup Elements(Tail(walk.at))
    BY <2>1, WalkTyped
  <2>3. ASSUME NEW o \in Instances, NEW i \in Instances, NEW n \in Names, Wanted(o, n, i)
        PROVE  (ToDo(o, n, i) => more(o, n, i)) /\ (Served(o, n, i) => more(o, n, i))
    <3>1. Present(o, n)
      BY <2>3 DEF Wanted, For
    <3>2. ToDo(o, n, i) => ToDo(o, n, i)'
      BY <2>1, <2>2, <3>1 DEF ToDo, Present, Working
    <3>3. Served(o, n, i) => Served(o, n, i)'
      BY <2>1 DEF Served, Same, Making
    <3>4. QED
      BY <3>2, <3>3
  <2>4. QED
    BY <2>1, <2>3, RebuiltKept
<1>2. CASE NextFile
  <2>1. walk.pc = "file" /\ Others /\ Same
    BY <1>2, NextFileEffect
  <2>2. walk'.at = walk.at => Storage' = Storage
    BY DEF Storage
  <2>3. ASSUME NEW o \in Instances, NEW i \in Instances, NEW n \in Names, Wanted(o, n, i)
        PROVE  (ToDo(o, n, i) => more(o, n, i)) /\ (Served(o, n, i) => more(o, n, i))
    <3>1. ToDo(o, n, i) => ToDo(o, n, i)'
      BY <1>2, <2>1, <2>2, NextFileEffect, NothingTodo DEF ToDo, Working
    <3>2. Served(o, n, i) => Served(o, n, i)'
      BY <2>1 DEF Served, Same, Making
    <3>3. QED
      BY <3>1, <3>2
  <2>4. QED
    BY <2>1, <2>3, RebuiltKept
<1>3. CASE DetectFile
  <2>1. /\ walk.pc = "detect" /\ Others /\ Same /\ Storage' = Storage /\ walk'.at = walk.at /\ walk'.file = walk.file
        /\ walk'.files = walk.files /\ walk'.pc \in {"file", "conflict"} /\ walk'.langs \in SUBSET Languages
    BY <1>3, DetectFileEffect DEF Storage
  <2>2. ASSUME NEW i \in Instances, Wanted(Storage, walk.file, i)
        PROVE  walk'.pc = "conflict" /\ i \in Elements(walk'.todo)
    <3>1. Present(Storage, walk.file) /\ For(Storage, walk.file, i) /\ stored[Storage][walk.file] # {}
      BY <2>2 DEF Wanted, For
    <3>2. walk'.langs = Heard(Storage, walk.file) /\ walk'.todo = LinkTargets(Storage, walk'.langs)
      BY <1>3, <3>1, DetectFileEffect DEF Heard
    <3>3. i \in Elements(walk'.todo)
      BY <1>0, <2>1, <3>1, <3>2, ForTargets
    <3>4. QED
      BY <1>3, <3>3, DetectFileEffect, NothingTodo
  <2>3. ASSUME NEW o \in Instances, NEW i \in Instances, NEW n \in Names, Wanted(o, n, i)
        PROVE  (ToDo(o, n, i) => more(o, n, i)) /\ (Served(o, n, i) => more(o, n, i))
    <3>1. ToDo(o, n, i) => ToDo(o, n, i)'
      BY <2>1, <2>2, <2>3 DEF ToDo, Working
    <3>2. Served(o, n, i) => Served(o, n, i)'
      BY <2>1 DEF Served, Same, Making
    <3>3. QED
      BY <3>1, <3>2
  <2>4. QED
    BY <2>1, <2>3, RebuiltKept
<1>4. CASE ConflictOfWalk
  <2>1. walk.pc = "conflict" /\ Others /\ Same
    BY <1>4, ConflictEffect
  <2>2. /\ walk'.pc \in {"judge", "prepare"} /\ walk'.at = walk.at /\ walk'.files = walk.files
        /\ walk'.file = walk.file /\ walk'.todo = walk.todo /\ Storage' = Storage
    BY <1>4, ConflictEffect DEF Onward, Storage
  <2>3. ASSUME NEW o \in Instances, NEW i \in Instances, NEW n \in Names, Wanted(o, n, i)
        PROVE  (ToDo(o, n, i) => more(o, n, i)) /\ (Served(o, n, i) => more(o, n, i))
    <3>1. ToDo(o, n, i) => ToDo(o, n, i)'
      BY <2>1, <2>2 DEF ToDo, Working
    <3>2. Served(o, n, i) => Served(o, n, i)'
      BY <2>1 DEF Served, Same, Making
    <3>3. QED
      BY <3>1, <3>2
  <2>4. QED
    BY <2>1, <2>3, RebuiltKept
<1>5. CASE JudgeOfWalk
  <2>1. walk.pc = "judge" /\ Others /\ Same /\ walk.pc \in Working
    BY <1>5, JudgeWalkEffect DEF Working
  <2>2. CASE Onward("stat")
    <3>1. ASSUME NEW o \in Instances, NEW i \in Instances, NEW n \in Names, Wanted(o, n, i)
          PROVE  (ToDo(o, n, i) => more(o, n, i)) /\ (Served(o, n, i) => more(o, n, i))
      BY <2>1, <2>2, OnwardToDo DEF Served, Same, Making, Working
    <3>2. QED
      BY <2>1, <3>1, RebuiltKept
  <2>3. CASE Onto /\ Verdict(entry[Library][walk.victim], Storage, Library) = "skip"
    <3>1. PICK p : p = entry[Library][walk.victim]
      OBVIOUS
    <3>2. p # None /\ p \in Instances /\ Episode[walk.victim] = Episode[walk.file]
      BY <1>0, <2>1, <3>1 DEF Seen, LibraryOK
    <3>3. Storage # Library
      BY <1>0, <2>1, <2>3, <3>1, <3>2 DEF Verdict, NoTies
    <3>4. ASSUME NEW o, NEW n, NEW i, o = Storage, n = walk.file, i = Library
          PROVE  Served(o, n, i)'
      BY <1>0, <2>1, <3>1, <3>2, <3>3, <3>4 DEF Same, Served
    <3>5. ASSUME NEW o \in Instances, NEW i \in Instances, NEW n \in Names, Wanted(o, n, i)
          PROVE  (ToDo(o, n, i) => more(o, n, i)) /\ (Served(o, n, i) => more(o, n, i))
      BY <2>1, <2>3, <3>4, OntoToDo DEF Served, Same, Making
    <3>6. QED
      BY <2>1, <3>5, RebuiltKept
  <2>4. Verdict(entry[Library][walk.victim], Storage, Library) # "link"
    BY <2>1 DEF Seen, Verdict
  <2>5. QED
    BY <1>5, <2>2, <2>3, <2>4, JudgeWalkEffect
<1>6. CASE StatVictim
  <2>1. walk.pc = "stat" /\ Others /\ Same /\ Onward("remove") /\ walk.pc \in Working
    BY <1>6, StatVictimEffect DEF Seen, Working
  <2>2. ASSUME NEW o \in Instances, NEW i \in Instances, NEW n \in Names, Wanted(o, n, i)
        PROVE  (ToDo(o, n, i) => more(o, n, i)) /\ (Served(o, n, i) => more(o, n, i))
    BY <2>1, OnwardToDo DEF Served, Same, Making, Working
  <2>3. QED
    BY <2>1, <2>2, RebuiltKept
<1>7. CASE RemoveVictim
  <2>1. /\ walk.pc = "remove" /\ Others /\ Onward("prune") /\ walk.pc \in Working
        /\ entry' = [entry EXCEPT ![Library][walk.victim] = None]
        /\ Episode[walk.victim] = Episode[walk.file] /\ Library' = Library
    BY <1>7, RemoveVictimEffect DEF Seen, Working, Onward, Library
  <2>2. PICK v \in Names : v = walk.victim
    BY <1>0, <2>1
  <2>3. ASSUME NEW o \in Instances, NEW n \in Names, Wanted(o, n, o), entry[o][n] = o
        PROVE  entry'[o][n] = o
    <3>1. SUFFICES ASSUME o = Library, n = v PROVE FALSE
      BY <1>0, <2>1, <2>2, <2>3 DEF LibraryOK, Working
    <3>2. Verdict(o, Storage, o) = "replace"
      BY <2>1, <2>2, <2>3, <3>1 DEF Seen
    <3>3. Storage = o
      BY <1>0, <2>1, <3>2 DEF Verdict
    <3>4. n = walk.file
      BY <1>0, <2>1, <2>2, <2>3, <3>1, <3>3 DEF Seen, Wanted, For, Present, OneFile, Working
    <3>5. QED
      BY <2>1, <2>2, <2>3, <3>1, <3>3, <3>4 DEF Seen
  <2>4. ASSUME NEW o \in Instances, NEW i \in Instances, NEW n \in Names, Wanted(o, n, i), Served(o, n, i)
        PROVE  Served(o, n, i)'
    <3>1. o = i => entry'[i][n] = i
      BY <2>3, <2>4 DEF Served
    <3>2. PICK m \in Names : Episode[m] = Episode[n] /\ entry[i][m] # None
      BY <2>1, <2>4 DEF Served, Making
    <3>3. CASE i = Library /\ m = v
      BY <2>1, <2>2, <3>1, <3>2, <3>3 DEF Served, Making, Onward
    <3>4. CASE ~(i = Library /\ m = v)
      <4>1. entry'[i][m] # None
        BY <1>0, <2>1, <2>2, <3>2, <3>4 DEF LibraryOK, Working
      <4>2. QED
        BY <3>1, <3>2, <4>1 DEF Served
    <3>5. QED
      BY <3>3, <3>4
  <2>5. ASSUME NEW o \in Instances, NEW i \in Instances, NEW n \in Names, Wanted(o, n, i)
        PROVE  (ToDo(o, n, i) => more(o, n, i)) /\ (Served(o, n, i) => more(o, n, i))
    BY <2>1, <2>4, <2>5, OnwardToDo DEF Working
  <2>6. QED
    BY <2>1, <2>5, RebuiltKept
<1>8. CASE PruneFolder
  <2>1. Others /\ entry' = entry /\ Onward("prepare") /\ walk.pc \in Working /\ Library' = Library
    BY <1>8, PruneFolderEffect DEF Working, Onward, Library
  <2>2. ASSUME NEW o \in Instances, NEW i \in Instances, NEW n \in Names, Wanted(o, n, i)
        PROVE  (ToDo(o, n, i) => more(o, n, i)) /\ (Served(o, n, i) => more(o, n, i))
    BY <2>1, OnwardToDo DEF Served, Onward, Making, Working
  <2>3. QED
    BY <2>1, <2>2, RebuiltKept
<1>9. CASE PrepareLink
  <2>1. Others /\ entry' = entry /\ Onward("probe") /\ walk.pc \in Working /\ Library' = Library
    BY <1>9, PrepareLinkEffect DEF Working, Onward, Library, Seen
  <2>2. ASSUME NEW o \in Instances, NEW i \in Instances, NEW n \in Names, Wanted(o, n, i)
        PROVE  (ToDo(o, n, i) => more(o, n, i)) /\ (Served(o, n, i) => more(o, n, i))
    BY <2>1, OnwardToDo DEF Served, Onward, Making, Working
  <2>3. QED
    BY <2>1, <2>2, RebuiltKept
(* The link is there, or has just been made.                                 *)
<1>10. ASSUME Others, Onto, walk.pc \in Working, entry'[Library][walk.file] = Storage,
              \A i \in Instances, n \in Names : entry[i][n] # None => entry'[i][n] = entry[i][n]
       PROVE  Rebuilt'
  <2>1. Library \in Instances /\ Storage \in Instances /\ walk.file \in Names
    BY <1>0, <1>10 DEF Working
  <2>2. ASSUME NEW o \in Instances, NEW i \in Instances, NEW n \in Names, Wanted(o, n, i), Served(o, n, i)
        PROVE  Served(o, n, i)'
    <3>1. o = i => entry'[i][n] = i
      BY <1>0, <1>10, <2>2 DEF Served
    <3>2. \E m \in Names : Episode[m] = Episode[n] /\ entry'[i][m] # None
      <4>1. CASE \E m \in Names : Episode[m] = Episode[n] /\ entry[i][m] # None
        BY <1>10, <4>1
      <4>2. CASE Library = i /\ Episode[walk.file] = Episode[n]
        BY <1>0, <1>10, <2>1, <4>2
      <4>3. QED
        BY <2>2, <4>1, <4>2 DEF Served
    <3>3. QED
      BY <3>1, <3>2 DEF Served
  <2>3. ASSUME NEW o \in Instances, NEW i \in Instances, NEW n \in Names, o = Storage, n = walk.file, i = Library
        PROVE  Served(o, n, i)'
    <3>1. entry'[i][n] = o
      BY <1>10, <2>3
    <3>2. QED
      BY <1>0, <3>1 DEF Served
  <2>4. ASSUME NEW o \in Instances, NEW i \in Instances, NEW n \in Names, Wanted(o, n, i)
        PROVE  (ToDo(o, n, i) => more(o, n, i)) /\ (Served(o, n, i) => more(o, n, i))
    BY <1>10, <2>2, <2>3, <2>4, OntoToDo
  <2>5. QED
    BY <1>10, <2>4, RebuiltKept
<1>11. CASE ProbeLink
  <2>1. walk.pc = "probe" /\ Others /\ entry' = entry /\ walk.pc \in Working
    BY <1>11, ProbeLinkEffect DEF Working
  <2>2. CASE Onward("create")
    <3>1. Library' = Library
      BY <2>2 DEF Onward, Library
    <3>2. ASSUME NEW o \in Instances, NEW i \in Instances, NEW n \in Names, Wanted(o, n, i)
          PROVE  (ToDo(o, n, i) => more(o, n, i)) /\ (Served(o, n, i) => more(o, n, i))
      BY <2>1, <2>2, <3>1, OnwardToDo DEF Served, Onward, Making, Working
    <3>3. QED
      BY <2>1, <3>2, RebuiltKept
  <2>3. CASE entry[Library][walk.file] # None /\ Onto
    BY <1>10, <2>1, <2>3 DEF Seen, Making
  <2>4. QED
    BY <1>11, <2>2, <2>3, ProbeLinkEffect
<1>12. CASE CreateLink
  <2>1. /\ walk.pc = "create" /\ Others /\ Onto /\ walk.pc \in Working
        /\ entry' = [entry EXCEPT ![Library][walk.file] = Storage] /\ entry[Library][walk.file] = None
    BY <1>12, CreateLinkEffect DEF Seen, Working
  <2>2. /\ entry'[Library][walk.file] = Storage
        /\ \A i \in Instances, n \in Names : entry[i][n] # None => entry'[i][n] = entry[i][n]
    BY <1>0, <2>1 DEF LibraryOK
  <2>3. QED
    BY <1>10, <2>1, <2>2
<1>13. QED
  BY <1>1, <1>2, <1>3, <1>4, <1>5, <1>6, <1>7, <1>8, <1>9, <1>11, <1>12 DEF Walk

-----------------------------------------------------------------------------
(* The theorems.                                                             *)

(* As long as nothing disturbs it, what a walk has seen holds, and libraries *)
(* in good health stay so.                                                   *)
WalkInv ==
  /\ WalkTypes
  /\ began # "disturbed" => Seen
  /\ began = "healthy" => Unharmed

(* And what it has been through is rebuilt, with one link an episode where   *)
(* there was no more.                                                        *)
TreeInv ==
  /\ began # "disturbed" /\ ~walk.dry => Rebuilt
  /\ began \in {"healthy", "single"} => Single

LEMMA WalkInvInit == WalkInit => WalkInv /\ TreeInv
BY TypesInit DEF WalkInv, TreeInv

LEMMA RegenerateBegins ==
  ASSUME WalkInv, NEW dry \in BOOLEAN, Regenerate(dry)
  PROVE  WalkInv' /\ (NoTies => TreeInv')
<1>1. /\ WalkTypes /\ WalkTypes' /\ Others /\ Same /\ walk'.pc = "list" /\ walk'.at = Config
      /\ began' = "healthy" => Healthy
      /\ began' = "single" => OneLinkPerEpisode
  BY RegenerateFacts DEF WalkInv
<1>2. Seen'
  BY <1>1 DEF Seen, Working, Making
<1>3. Rebuilt'
  BY <1>1 DEF Rebuilt, ToDo, Instances
<1>4. LibraryOK /\ OneFile /\ None \notin Instances
  BY <1>1, EpisodeLibraryAssumption DEF WalkTypes, EpisodeInv
<1>5. NoTies /\ began' \in {"healthy", "single"} => Single'
  <2>1. NoTies /\ began' \in {"healthy", "single"} => OneLinkPerEpisode
    BY <1>1, <1>4, HealthyIsSingle
  <2>2. QED
    BY <1>1, <2>1 DEF Single, OneLinkPerEpisode, Same, Making
<1>6. began' = "healthy" => Unharmed'
  <2>1. began' = "healthy" => Healthy'
    BY <1>1, HealthyStays DEF Others, Same
  <2>2. QED
    BY <1>1, <2>1 DEF Unharmed
<1>7. QED
  BY <1>1, <1>2, <1>3, <1>5, <1>6 DEF WalkInv, TreeInv

LEMMA WalkGoesOn ==
  ASSUME WalkInv, Marked, Walk
  PROVE  WalkInv' /\ (NoTies /\ TreeInv => TreeInv')
<1>1. began' = began /\ walk'.dry = walk.dry /\ WalkTypes /\ WalkTypes'
  <2>1. walk'.dry = walk.dry
    BY ListFilesEffect, NextFileEffect, DetectFileEffect, ConflictEffect, JudgeWalkEffect, StatVictimEffect,
       RemoveVictimEffect, PruneFolderEffect, PrepareLinkEffect, ProbeLinkEffect, CreateLinkEffect
       DEF WalkInv, Walk, Onward, Onto
  <2>2. QED
    BY <2>1, WalkKeepsTypes DEF WalkInv, Walk
<1>2. began # "disturbed" => Seen /\ Seen'
  BY <1>1, SeenStep DEF WalkInv
<1>3. began = "healthy" => Unharmed'
  BY <1>1, <1>2, UnharmedStep DEF WalkInv
<1>4. ASSUME NoTies, TreeInv PROVE TreeInv'
  <2>1. began # "disturbed" /\ ~walk.dry => Rebuilt'
    BY <1>1, <1>2, <1>4, RebuiltStep DEF TreeInv
  <2>2. began \in {"healthy", "single"} => Single'
    BY <1>1, <1>2, <1>4, SingleStep DEF TreeInv
  <2>3. QED
    BY <1>1, <2>1, <2>2 DEF TreeInv
<1>5. QED
  BY <1>1, <1>2, <1>3, <1>4 DEF WalkInv

LEMMA WalkInvStep == Marked /\ WalkInv /\ [WalkNext]_rvars => WalkInv' /\ (NoTies /\ TreeInv => TreeInv')
<1> SUFFICES ASSUME Marked, WalkInv, [WalkNext]_rvars PROVE WalkInv' /\ (NoTies /\ TreeInv => TreeInv')
  OBVIOUS
<1>1. CASE Regenerate(TRUE) \/ Regenerate(FALSE)
  BY <1>1, RegenerateBegins
<1>2. CASE Walk
  BY <1>2, WalkGoesOn
<1>3. CASE Drop \/ Beside \/ \E i \in Instances, n \in Names : Lose(i, n)
  BY <1>3, DisturbedSteps DEF WalkInv, TreeInv
<1>4. CASE UNCHANGED rvars
  <2>1. Others /\ Same /\ walk' = walk /\ began' = began
    BY <1>4 DEF rvars, vars, libraries, budgets, Others, Same
  <2>2. LibraryOK'
    BY <2>1 DEF WalkInv, WalkTypes, EpisodeInv, Same, LibraryOK
  <2>3. WalkTypes'
    BY <2>1, <2>2, OthersKeep DEF WalkInv, WalkTypes, WalkShape
  <2>4. Storage' = Storage /\ Library' = Library
    BY <2>1 DEF Storage, Library
  <2>5. Seen => Seen'
    BY <2>1, <2>4 DEF Seen, Others, Same, Present, For, Heard, IsPrimary, Verdict
  <2>6. Rebuilt => Rebuilt'
    BY <2>1, <2>4, RebuiltKept DEF ToDo, Served, Same
  <2>7. Single => Single'
    BY <2>1, <2>4 DEF Single, OneLinkPerEpisode, Alone, Same
  <2>8. Unharmed => Unharmed'
    BY <2>1, <2>4, HealthyStays DEF Unharmed, Others, Same
  <2>9. QED
    BY <2>1, <2>3, <2>5, <2>6, <2>7, <2>8 DEF WalkInv, TreeInv
<1>5. QED
  BY <1>1, <1>2, <1>3, <1>4 DEF WalkNext

(* A walk that nothing disturbs leaves each tagged file linked in its own    *)
(* library, and a link of its episode in every library the file is for,      *)
(* whatever the libraries held before: foreign links, duplicates or nothing  *)
(* (reconcile/mod.rs:471).                                                   *)
THEOREM UndisturbedWalkRebuilds ==
  /\ \A n \in Names : Marker[n] = Episode[n] /\ Marker[n] # 0
  /\ \A i, j \in Instances : Language[i] = Language[j] => i = j
  => (WalkSpec => []WalkRebuilds)
<1> SUFFICES ASSUME Marked, NoTies PROVE WalkSpec => []WalkRebuilds
  BY DEF Marked, NoTies
<1>1. WalkInv /\ TreeInv => WalkRebuilds
  BY DEF WalkInv, TreeInv, WalkRebuilds, Walked, Walking, Rebuilt, ToDo, Served, Wanted, Working, Making, For, Present,
         WalkTypes, EpisodeInv, StorageOK
<1>2. WalkInv /\ TreeInv /\ [WalkNext]_rvars => WalkInv' /\ TreeInv'
  BY WalkInvStep
<1>3. QED
  BY <1>1, <1>2, WalkInvInit, PTL DEF WalkSpec

(* At no moment does such a walk link a second file of an episode into a     *)
(* library, unless one had two when it began (reconcile/mod.rs:420).         *)
THEOREM UndisturbedWalkAddsNoDuplicate ==
  /\ \A n \in Names : Marker[n] = Episode[n] /\ Marker[n] # 0
  /\ \A i, j \in Instances : Language[i] = Language[j] => i = j
  => (WalkSpec => []WalkAddsNoDuplicate)
<1> SUFFICES ASSUME Marked, NoTies PROVE WalkSpec => []WalkAddsNoDuplicate
  BY DEF Marked, NoTies
<1>1. TreeInv => WalkAddsNoDuplicate
  BY DEF TreeInv, WalkAddsNoDuplicate, Single
<1>2. WalkInv /\ TreeInv /\ [WalkNext]_rvars => WalkInv' /\ TreeInv'
  BY WalkInvStep
<1>3. QED
  BY <1>1, <1>2, WalkInvInit, PTL DEF WalkSpec

(* Libraries as the imports leave them a walk that nothing disturbs does not *)
(* touch (reconcile/mod.rs:343), even if instances share a language.         *)
THEOREM UndisturbedWalkKeepsHealthy ==
  (\A n \in Names : Marker[n] = Episode[n] /\ Marker[n] # 0) => (WalkSpec => WalkKeepsHealthy)
<1> SUFFICES ASSUME Marked PROVE WalkSpec => WalkKeepsHealthy
  BY DEF Marked
<1>1. WalkInv /\ [WalkNext]_rvars => WalkInv'
  BY WalkInvStep
<1>2. WalkInv => [began = "healthy" /\ Walk => UNCHANGED entry]_rvars
  BY UnharmedStep DEF WalkInv
<1>3. WalkInit => WalkInv
  BY WalkInvInit
<1>4. QED
  BY <1>1, <1>2, <1>3, PTL DEF WalkSpec, WalkKeepsHealthy
==============================================================================
