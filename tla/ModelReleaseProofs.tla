-------------------------- MODULE ModelReleaseProofs --------------------------
(***************************************************************************)
(* What ModelRelease promises, for any stations and any number of training  *)
(* runs.                                                                    *)
(***************************************************************************)
EXTENDS ModelRelease, TLAPS

LEMMA FileNames ==
    /\ Files = {MODEL, ENCODING, METADATA}
    /\ MODEL # ENCODING /\ MODEL # METADATA /\ ENCODING # METADATA
BY DEF Files, MODEL, ENCODING, METADATA

\* The files in the order they are written.
LEMMA FilesInOrder ==
    /\ Len(InOrder) = 3 /\ DOMAIN InOrder = {1, 2, 3}
    /\ InOrder[1] = MODEL /\ InOrder[2] = ENCODING /\ InOrder[3] = METADATA
    /\ \A i \in {1, 2, 3} : InOrder[i] \in Files
BY DEF InOrder, Files

\* Runs are told apart from what is not a run.
LEMMA RunNumbers ==
    /\ Runs \subseteq Nat
    /\ NoRun \notin Runs /\ Torn \notin Runs /\ Partial \notin Runs
    /\ \A r \in Runs : r > NoRun /\ r > Torn /\ r > Partial
    /\ NoRun = 0 /\ Torn = -1 /\ Partial = -2
    /\ Contents \subseteq Int
BY ReleaseAssumption DEF Runs, NoRun, Torn, Partial, Contents

-----------------------------------------------------------------------------
(***************************************************************************)
(* Types.                                                                   *)
(***************************************************************************)
LEMMA TypeOKInit == Init => TypeOK
<1> SUFFICES ASSUME Init PROVE TypeOK
  OBVIOUS
<1>1. Empty \in Directory
  BY DEF Empty, Directory, Contents
<1>2. NoCopy \in Copy
  BY DEF NoCopy, Copy
<1>3. Idle \in [run : Runs \cup {NoRun}, file : DOMAIN InOrder, open : BOOLEAN]
  BY FilesInOrder DEF Idle
<1>4. upload \in [step : {"none", "copying", "refused"}, left : SUBSET Files,
                  image : Directory, copy : Copy]
  BY <1>1, <1>2 DEF Init, NoUpload
<1>5. revision \in [live : BOOLEAN, image : Directory, copy : Copy]
  BY <1>1, <1>2 DEF Init
<1>6. api \in [step : {"off", "loading", "up"}, file : DOMAIN InOrder,
               loaded : Directory, copy : Copy]
  BY <1>1, <1>2, FilesInOrder DEF Init, Off
<1>7. QED
  BY <1>1, <1>3, <1>4, <1>5, <1>6 DEF Init, TypeOK

\* The training run writes one file at a time.
LEMMA TrainingType ==
    ASSUME TypeOK
    PROVE  /\ training.run \in Runs \cup {NoRun}
           /\ training.file \in {1, 2, 3}
           /\ training.open \in BOOLEAN
           /\ InOrder[training.file] \in Files
BY FilesInOrder DEF TypeOK

LEMMA BeganNowType ==
    ASSUME TypeOK
    PROVE  BeganNow \in Copy
BY TrainingType DEF TypeOK, BeganNow, Copy

LEMMA TypeOKStep ==
    ASSUME TypeOK, [Next]_vars
    PROVE  TypeOK'
<1>1. /\ Empty \in Directory /\ NoCopy \in Copy
      /\ BeganNow \in Copy
      /\ Idle \in [run : Runs \cup {NoRun}, file : DOMAIN InOrder, open : BOOLEAN]
  BY BeganNowType, FilesInOrder
  DEF Empty, Directory, Contents, NoCopy, Copy, Idle
<1>2. ASSUME NEW r \in Runs, NEW catalog \in SUBSET Stations, BeginTraining(r, catalog)
      PROVE  TypeOK'
  <2>1. training' \in [run : Runs \cup {NoRun}, file : DOMAIN InOrder, open : BOOLEAN]
    BY <1>1, <1>2 DEF BeginTraining
  <2>2. QED
    BY <1>2, <2>1 DEF BeginTraining, TypeOK
<1>3. CASE OpenFile
  <2>1. training' \in [run : Runs \cup {NoRun}, file : DOMAIN InOrder, open : BOOLEAN]
    BY <1>3 DEF OpenFile, TypeOK
  <2>2. tree' \in Directory
    BY <1>3, TrainingType DEF OpenFile, TypeOK, WhileWritten, Directory, Contents
  <2>3. upload' \in [step : {"none", "copying", "refused"}, left : SUBSET Files,
                     image : Directory, copy : Copy]
    BY <1>1, <1>3 DEF OpenFile, TypeOK
  <2>4. api' \in [step : {"off", "loading", "up"}, file : DOMAIN InOrder,
                  loaded : Directory, copy : Copy]
    BY <1>1, <1>3 DEF OpenFile, TypeOK
  <2>5. QED
    BY <1>3, <2>1, <2>2, <2>3, <2>4 DEF OpenFile, TypeOK
<1>4. CASE CloseFile
  <2>1. training.run \in Runs \cup {NoRun} /\ training.file \in {1, 2, 3}
    BY TrainingType
  <2>2. tree' \in Directory
    BY <1>4, <2>1, TrainingType DEF CloseFile, TypeOK, Directory, Contents
  <2>3. CASE training.file = 3
    BY <1>1, <1>4, <2>1, <2>2, <2>3, FilesInOrder DEF CloseFile, NextFile, TypeOK
  <2>4. CASE training.file # 3
    <3>1. training.file + 1 \in DOMAIN InOrder
      BY <2>1, <2>4, FilesInOrder
    <3>2. training' \in [run : Runs \cup {NoRun}, file : DOMAIN InOrder, open : BOOLEAN]
      BY <1>4, <2>4, <3>1, FilesInOrder DEF CloseFile, NextFile, TypeOK
    <3>3. QED
      BY <1>4, <2>2, <2>4, <3>2, FilesInOrder DEF CloseFile, NextFile, TypeOK
  <2>5. QED
    BY <2>3, <2>4
<1>5. CASE CutOff
  BY <1>1, <1>5 DEF CutOff, TypeOK
<1>6. CASE BeginUpload
  BY <1>1, <1>6 DEF BeginUpload, TypeOK
<1>7. ASSUME NEW f \in Files, CopyFile(f) PROVE TypeOK'
  <2>1. /\ upload.image \in Directory /\ tree \in Directory
        /\ upload.left \in SUBSET Files
    BY DEF TypeOK
  <2>2. [upload.image EXCEPT ![f] = tree[f]] \in Directory
    BY <2>1 DEF Directory
  <2>3. upload' = [upload EXCEPT !.left = upload.left \ {f},
                                 !.image = [upload.image EXCEPT ![f] = tree[f]]]
    BY <1>7 DEF CopyFile, TypeOK
  <2>4. upload' \in [step : {"none", "copying", "refused"}, left : SUBSET Files,
                     image : Directory, copy : Copy]
    BY <2>1, <2>2, <2>3 DEF TypeOK
  <2>5. QED
    BY <1>7, <2>4 DEF CopyFile, TypeOK
<1>8. CASE RollOut
  <2>1. NoUpload \in [step : {"none", "copying", "refused"}, left : SUBSET Files,
                      image : Directory, copy : Copy]
    BY <1>1 DEF NoUpload
  <2>2. upload.image \in Directory /\ upload.copy \in Copy
    BY DEF TypeOK
  <2>3. [upload EXCEPT !.step = "refused", !.image = Empty]
           \in [step : {"none", "copying", "refused"}, left : SUBSET Files,
               image : Directory, copy : Copy]
    BY <1>1 DEF TypeOK
  <2>4. [live |-> TRUE, image |-> upload.image, copy |-> upload.copy]
           \in [live : BOOLEAN, image : Directory, copy : Copy]
    BY <2>2
  <2>5. CASE Healthy(upload.image)
    BY <1>8, <2>1, <2>4, <2>5 DEF RollOut, TypeOK
  <2>6. CASE ~ Healthy(upload.image)
    BY <1>8, <2>3, <2>6 DEF RollOut, TypeOK
  <2>7. QED
    BY <2>5, <2>6
<1>9. CASE AbortUpload
  BY <1>1, <1>9 DEF AbortUpload, TypeOK, NoUpload
<1>10. CASE Boot
  <2>1. api' \in [step : {"off", "loading", "up"}, file : DOMAIN InOrder,
                  loaded : Directory, copy : Copy]
    BY <1>1, <1>10, FilesInOrder DEF Boot, Off
  <2>2. QED
    BY <1>10, <2>1 DEF Boot, TypeOK
<1>11. CASE Load
  <2>1. api.file \in {1, 2, 3} /\ api.loaded \in Directory /\ tree \in Directory
    BY FilesInOrder DEF TypeOK
  <2>2. Off \in [step : {"off", "loading", "up"}, file : DOMAIN InOrder,
                 loaded : Directory, copy : Copy]
    BY <1>1, FilesInOrder DEF Off
  <2> DEFINE f == InOrder[api.file]
  <2>3. [api.loaded EXCEPT ![f] = tree[f]] \in Directory
    BY <2>1, FilesInOrder DEF Directory
  <2>4. \/ api' = Off
        \/ api' = [api EXCEPT !.loaded = [api.loaded EXCEPT ![f] = tree[f]],
                              !.step = "up", !.file = 1]
        \/ /\ api.file \in {1, 2}
           /\ api' = [api EXCEPT !.loaded = [api.loaded EXCEPT ![f] = tree[f]],
                                 !.step = api.step, !.file = api.file + 1]
    <3>1. CASE ~ Loads(tree[f])
      BY <1>11, <3>1 DEF Load
    <3>2. CASE Loads(tree[f]) /\ api.file = 3
      BY <1>11, <3>2, FilesInOrder DEF Load, TypeOK
    <3>3. CASE Loads(tree[f]) /\ api.file \in {1, 2}
      BY <1>11, <3>3, FilesInOrder DEF Load, TypeOK
    <3>4. QED
      BY <2>1, <3>1, <3>2, <3>3
  <2>5. api' \in [step : {"off", "loading", "up"}, file : DOMAIN InOrder,
                  loaded : Directory, copy : Copy]
    <3> DEFINE loaded == [api.loaded EXCEPT ![f] = tree[f]]
    <3>1. /\ 1 \in DOMAIN InOrder
          /\ api.file \in {1, 2} => api.file + 1 \in DOMAIN InOrder
      BY FilesInOrder
    <3>2. ASSUME NEW n \in DOMAIN InOrder, NEW s \in {"off", "loading", "up"}
          PROVE  [api EXCEPT !.loaded = loaded, !.step = s, !.file = n]
                    \in [step : {"off", "loading", "up"}, file : DOMAIN InOrder,
                        loaded : Directory, copy : Copy]
      <4>1. loaded \in Directory
        BY <2>3
      <4> HIDE DEF loaded, f
      <4>2. QED
        BY <4>1 DEF TypeOK
    <3>3. api.step \in {"off", "loading", "up"}
      BY DEF TypeOK
    <3> HIDE DEF loaded
    <3>4. \/ api' = Off
          \/ api' = [api EXCEPT !.loaded = loaded, !.step = "up", !.file = 1]
          \/ /\ api.file \in {1, 2}
             /\ api' = [api EXCEPT !.loaded = loaded, !.step = api.step, !.file = api.file + 1]
      BY <2>4 DEF loaded
    <3>5. QED
      BY <2>2, <3>1, <3>2, <3>3, <3>4
  <2>6. QED
    BY <1>11, <2>5 DEF Load, TypeOK
<1>12. CASE Stop
  <2>1. api' \in [step : {"off", "loading", "up"}, file : DOMAIN InOrder,
                  loaded : Directory, copy : Copy]
    BY <1>1, <1>12, FilesInOrder DEF Stop, Off
  <2>2. QED
    BY <1>12, <2>1 DEF Stop, TypeOK
<1>13. CASE UNCHANGED vars
  BY <1>13 DEF vars, TypeOK
<1>14. QED
  BY <1>2, <1>3, <1>4, <1>5, <1>6, <1>7, <1>8, <1>9, <1>10, <1>11, <1>12, <1>13 DEF Next

\* Files, catalogs and histories are of runs there are.
THEOREM TypeCorrect == Spec => []TypeOK
<1>1. TypeOK /\ [Next]_vars => TypeOK'
  BY TypeOKStep
<1>2. QED
  BY <1>1, TypeOKInit, PTL DEF Spec

-----------------------------------------------------------------------------
(***************************************************************************)
(* Training: runs come one after the other, and the files in order.         *)
(***************************************************************************)
CatalogsGrow ==
    \A q, r \in Runs : q < r /\ r \in Begun => q \in Begun /\ catalogs[q] \subseteq catalogs[r]

\* The run in progress is the latest, and has written the files before the one it
\* is at.
TrainingIsLatest ==
    /\ training.run = NoRun => training = Idle
    /\ training.run # NoRun => /\ training.run \in Begun
                              /\ \A q \in Begun : q <= training.run
    /\ training.file >= 2 => tree[MODEL] = training.run
    /\ training.file = 3 => tree[ENCODING] = training.run
    /\ training.open => finished = NoRun

\* What any mix of files has in common: nothing is of a run that has not begun,
\* only a booster can be incomplete and yet load, and no file that loads is of a
\* later run than one written before it.
TreeInOrder ==
    /\ \A f \in Files : tree[f] \in Runs => tree[f] \in Begun
    /\ tree[ENCODING] # Partial /\ tree[METADATA] # Partial
    /\ tree[ENCODING] = Torn \/ tree[METADATA] <= tree[ENCODING]
    /\ tree[MODEL] \in Runs /\ tree[ENCODING] \in Runs => tree[ENCODING] <= tree[MODEL]

FinishedIsWhole == finished # NoRun => tree = FilesOf(finished)

TrainingInv == CatalogsGrow /\ TrainingIsLatest /\ TreeInOrder /\ FinishedIsWhole

LEMMA TrainingInvInit == Init => TrainingInv
<1> SUFFICES ASSUME Init PROVE TrainingInv
  OBVIOUS
<1>1. Begun = {}
  BY DEF Init, Begun
<1>2. training.run = NoRun /\ training = Idle /\ training.file = 1 /\ ~ training.open
  BY DEF Init, Idle
<1>3. tree[MODEL] = 0 /\ tree[ENCODING] = 0 /\ tree[METADATA] = 0 /\ finished = NoRun
  BY DEF Init, Empty, Files, NoRun
<1>4. \A f \in Files : tree[f] = NoRun
  BY DEF Init, Empty
<1>5. QED
  BY <1>1, <1>2, <1>3, <1>4, RunNumbers
  DEF TrainingInv, CatalogsGrow, TrainingIsLatest, TreeInOrder, FinishedIsWhole

\* What other actions leave alone stays true.
LEMMA TrainingInvRests ==
    ASSUME TrainingInv, UNCHANGED <<catalogs, training, tree, finished>>
    PROVE  TrainingInv'
BY DEF TrainingInv, CatalogsGrow, TrainingIsLatest, TreeInOrder, FinishedIsWhole, Begun

LEMMA BeginTrainingKeeps ==
    ASSUME TypeOK, TrainingInv, NEW r \in Runs, NEW catalog \in SUBSET Stations,
           BeginTraining(r, catalog)
    PROVE  TrainingInv'
<1>1. /\ r \notin Begun /\ \A q \in Runs : q < r => q \in Begun
      /\ catalog # {} /\ \A q \in Begun : catalogs[q] \subseteq catalog
      /\ catalogs' = [catalogs EXCEPT ![r] = catalog]
      /\ training' = [Idle EXCEPT !.run = r]
      /\ tree' = tree /\ finished' = finished
  BY DEF BeginTraining
<1>2. /\ catalogs'[r] = catalog
      /\ \A q \in Runs \ {r} : catalogs'[q] = catalogs[q]
  BY <1>1 DEF TypeOK
<1>3. Begun' = Begun \cup {r}
  BY <1>1, <1>2 DEF Begun
<1>4. \A q \in Begun : q < r
  <2>1. ASSUME NEW q \in Begun, r < q PROVE r \in Begun
    BY <2>1 DEF TrainingInv, CatalogsGrow, Begun
  <2>2. ASSUME NEW q \in Begun PROVE q # r /\ q \in Nat /\ r \in Nat
    BY <1>1, RunNumbers DEF Begun
  <2>3. QED
    BY <1>1, <2>1, <2>2
<1>5. CatalogsGrow'
  <2> SUFFICES ASSUME NEW p \in Runs, NEW q \in Runs, p < q, q \in Begun'
               PROVE  p \in Begun' /\ catalogs'[p] \subseteq catalogs'[q]
    BY DEF CatalogsGrow
  <2>1. p \in Nat /\ q \in Nat /\ r \in Nat
    BY RunNumbers
  <2>2. CASE q = r
    BY <1>1, <1>2, <1>3, <2>1, <2>2
  <2>3. CASE q # r
    <3>1. q \in Begun /\ p \in Begun /\ catalogs[p] \subseteq catalogs[q]
      BY <1>3, <2>3 DEF TrainingInv, CatalogsGrow
    <3>2. p # r
      BY <1>1, <3>1
    <3>3. QED
      BY <1>2, <1>3, <2>3, <3>1, <3>2
  <2>4. QED
    BY <2>2, <2>3
<1>6. TrainingIsLatest'
  <2>1. training'.run = r /\ training'.file = 1 /\ ~ training'.open
    BY <1>1 DEF Idle
  <2>2. r # NoRun /\ \A q \in Begun' : q <= r
    BY <1>3, <1>4, RunNumbers DEF Begun
  <2>3. QED
    BY <1>3, <2>1, <2>2 DEF TrainingIsLatest
<1>7. TreeInOrder' /\ FinishedIsWhole'
  BY <1>1, <1>3 DEF TrainingInv, TreeInOrder, FinishedIsWhole
<1>8. QED
  BY <1>5, <1>6, <1>7 DEF TrainingInv

LEMMA OpenFileKeeps ==
    ASSUME TypeOK, TrainingInv, OpenFile
    PROVE  TrainingInv'
<1> DEFINE f == InOrder[training.file]
<1>1. PICK c \in WhileWritten(f) :
         /\ training' = [training EXCEPT !.open = TRUE]
         /\ tree' = [tree EXCEPT ![f] = c]
         /\ finished' = NoRun /\ catalogs' = catalogs
         /\ training # Idle
  BY DEF OpenFile
<1>2. /\ f \in Files /\ c \notin Runs
      /\ f = MODEL => c \in {Torn, Partial}
      /\ f # MODEL => c = Torn
  BY TrainingType, RunNumbers DEF WhileWritten
<1>3. /\ tree'[f] = c
      /\ \A g \in Files \ {f} : tree'[g] = tree[g]
  BY <1>1, <1>2 DEF TypeOK, Directory
<1>4. /\ training'.run = training.run /\ training'.file = training.file
      /\ training.run # NoRun
  BY <1>1 DEF TypeOK, TrainingInv, TrainingIsLatest
<1>5. \/ training.file = 1 /\ f = MODEL
      \/ training.file = 2 /\ f = ENCODING
      \/ training.file = 3 /\ f = METADATA
  BY TrainingType, FilesInOrder
<1>6. Begun' = Begun
  BY <1>1 DEF Begun
<1> HIDE DEF f
<1>7. CatalogsGrow'
  BY <1>1, <1>6 DEF TrainingInv, CatalogsGrow
<1>8. TrainingIsLatest'
  BY <1>1, <1>3, <1>4, <1>5, <1>6, FileNames DEF TrainingInv, TrainingIsLatest
<1>9. TreeInOrder'
  <2>1. \A g \in Files : tree'[g] \in Runs => tree'[g] \in Begun'
    BY <1>2, <1>3, <1>6 DEF TrainingInv, TreeInOrder
  <2>2. CASE f = MODEL
    BY <1>2, <1>3, <2>1, <2>2, FileNames DEF TrainingInv, TreeInOrder
  <2>3. CASE f = ENCODING
    BY <1>2, <1>3, <2>1, <2>3, FileNames, RunNumbers DEF TrainingInv, TreeInOrder
  <2>4. CASE f = METADATA
    <3>1. tree[ENCODING] = training.run /\ training.run \in Runs
      BY <1>4, <1>5, <2>4, FileNames DEF TrainingInv, TrainingIsLatest, Begun
    <3>2. /\ tree'[METADATA] = Torn /\ tree'[ENCODING] = tree[ENCODING]
          /\ tree'[MODEL] = tree[MODEL]
      BY <1>2, <1>3, <2>4, FileNames
    <3>3. Torn <= training.run /\ Torn # Partial
      <4>1. training.run \in Nat /\ Torn = -1 /\ Partial = -2
        BY <3>1, RunNumbers
      <4>2. QED
        BY <4>1
    <3>4. QED
      BY <2>1, <3>1, <3>2, <3>3 DEF TrainingInv, TreeInOrder
  <2>5. QED
    BY <1>2, <2>2, <2>3, <2>4, FileNames
<1>10. FinishedIsWhole'
  BY <1>1 DEF FinishedIsWhole
<1>11. QED
  BY <1>7, <1>8, <1>9, <1>10 DEF TrainingInv

LEMMA CloseFileKeeps ==
    ASSUME TypeOK, TrainingInv, CloseFile
    PROVE  TrainingInv'
<1> DEFINE f == InOrder[training.file]
<1> DEFINE r == training.run
<1>1. /\ training.open /\ tree' = [tree EXCEPT ![f] = r] /\ NextFile
      /\ catalogs' = catalogs
  BY DEF CloseFile
<1>2. /\ f \in Files /\ r \in Begun /\ r \in Runs /\ r # NoRun
      /\ \A q \in Begun : q <= r
  BY <1>1, TrainingType DEF TrainingInv, TrainingIsLatest, Idle, Begun
<1>3. /\ tree'[f] = r
      /\ \A g \in Files \ {f} : tree'[g] = tree[g]
  BY <1>1, <1>2 DEF TypeOK, Directory
<1>4. \/ training.file = 1 /\ f = MODEL
      \/ training.file = 2 /\ f = ENCODING
      \/ training.file = 3 /\ f = METADATA
  BY TrainingType, FilesInOrder
<1>5. Begun' = Begun
  BY <1>1 DEF Begun
<1>6. \/ /\ training.file = 3 /\ training' = Idle /\ finished' = r
      \/ /\ training.file \in {1, 2} /\ finished' = finished /\ finished = NoRun
         /\ training'.run = r /\ training'.file = training.file + 1 /\ ~ training'.open
  <2>1. CASE training.file = 3
    BY <1>1, <2>1, FilesInOrder DEF NextFile
  <2>2. CASE training.file # 3
    <3>1. /\ training' = [training EXCEPT !.file = training.file + 1, !.open = FALSE]
          /\ finished' = finished
      BY <1>1, <2>2, FilesInOrder DEF NextFile, TypeOK
    <3>2. QED
      BY <1>1, <2>2, <3>1, TrainingType DEF TypeOK, TrainingInv, TrainingIsLatest
  <2>3. QED
    BY <2>1, <2>2
<1> HIDE DEF f, r
<1>7. CatalogsGrow'
  BY <1>1, <1>5 DEF TrainingInv, CatalogsGrow
<1>8. TrainingIsLatest'
  <2>1. CASE training' = Idle
    BY <2>1 DEF TrainingIsLatest, Idle
  <2>2. CASE training.file = 1 /\ training'.file = 2
    BY <1>2, <1>3, <1>4, <1>5, <1>6, <2>2, FileNames DEF TrainingInv, TrainingIsLatest, Idle
  <2>3. CASE training.file = 2 /\ training'.file = 3
    BY <1>2, <1>3, <1>4, <1>5, <1>6, <2>3, FileNames DEF TrainingInv, TrainingIsLatest, Idle, r
  <2>4. QED
    BY <1>6, <2>1, <2>2, <2>3
<1>9. TreeInOrder'
  <2>1. \A g \in Files : tree'[g] \in Runs => tree'[g] \in Begun'
    BY <1>2, <1>3, <1>5 DEF TrainingInv, TreeInOrder
  <2>2. \A g \in Files : tree[g] \in Runs => tree[g] <= r
    BY <1>2 DEF TrainingInv, TreeInOrder
  <2>3. \A g \in Files : tree[g] \in Contents
    BY DEF TypeOK, Directory
  <2>4. CASE f = MODEL
    BY <1>2, <1>3, <2>1, <2>2, <2>4, FileNames, RunNumbers DEF TrainingInv, TreeInOrder
  <2>5. CASE f = ENCODING
    <3>1. tree[MODEL] = r
      BY <1>4, <2>5, FileNames DEF TrainingInv, TrainingIsLatest, r
    <3>2. tree[METADATA] <= r
      BY <1>2, <2>2, <2>3, FileNames, RunNumbers DEF Contents
    <3>3. QED
      BY <1>2, <1>3, <2>1, <2>5, <3>1, <3>2, FileNames, RunNumbers DEF TrainingInv, TreeInOrder
  <2>6. CASE f = METADATA
    <3>1. tree[ENCODING] = r /\ tree[MODEL] = r
      BY <1>4, <2>6, FileNames DEF TrainingInv, TrainingIsLatest, r
    <3>2. QED
      BY <1>2, <1>3, <2>1, <2>6, <3>1, FileNames, RunNumbers DEF TrainingInv, TreeInOrder
  <2>7. QED
    BY <1>2, <2>4, <2>5, <2>6, FileNames
<1>10. FinishedIsWhole'
  <2>1. CASE training.file = 3
    <3>1. \A g \in Files : tree'[g] = r
      BY <1>3, <1>4, <2>1, FileNames DEF TrainingInv, TrainingIsLatest, r
    <3>2. tree' = [g \in Files |-> tree'[g]]
      BY <1>1 DEF TypeOK, Directory
    <3>3. QED
      BY <1>6, <2>1, <3>1, <3>2 DEF FinishedIsWhole, FilesOf
  <2>2. QED
    BY <1>6, <2>1 DEF FinishedIsWhole
<1>11. QED
  BY <1>7, <1>8, <1>9, <1>10 DEF TrainingInv

LEMMA TrainingInvStep ==
    ASSUME TypeOK, TrainingInv, [Next]_vars
    PROVE  TrainingInv'
<1>1. CASE CutOff
  <2>1. training' = Idle /\ catalogs' = catalogs /\ tree' = tree /\ finished' = finished
    BY <1>1 DEF CutOff
  <2>2. TrainingIsLatest'
    BY <2>1 DEF TrainingIsLatest, Idle
  <2>3. QED
    BY <2>1, <2>2 DEF TrainingInv, CatalogsGrow, TreeInOrder, FinishedIsWhole, Begun
<1>2. CASE UNCHANGED <<catalogs, training, tree, finished>>
  BY <1>2, TrainingInvRests
<1>3. CASE BeginUpload \/ RollOut \/ AbortUpload \/ Boot \/ Load \/ Stop \/ UNCHANGED vars
           \/ \E f \in Files : CopyFile(f)
  BY <1>2, <1>3 DEF BeginUpload, RollOut, AbortUpload, Boot, Load, Stop, CopyFile, vars
<1>4. QED
  BY <1>1, <1>3, BeginTrainingKeeps, OpenFileKeeps, CloseFileKeeps DEF Next

-----------------------------------------------------------------------------
(***************************************************************************)
(* Copies: of the tree into an image, and of the tree into a process.       *)
(***************************************************************************)
\* A copy that is quiet, or of a finished run, is of a tree nobody writes: what is
\* copied so far is what the tree holds now.
Faithful(copy, copied, dir) ==
    /\ copy.quiet \/ copy.of # NoRun =>
          /\ ~ training.open
          /\ \A f \in copied : dir[f] = tree[f]
    /\ copy.of # NoRun => tree = FilesOf(copy.of)

Loaded == {InOrder[i] : i \in {j \in DOMAIN InOrder : j < api.file}}

CopiesAreFaithful ==
    /\ upload.step = "copying" => Faithful(upload.copy, Files \ upload.left, upload.image)
    /\ api.step = "loading" => /\ Faithful(api.copy, Loaded, api.loaded)
                               /\ \A f \in Loaded : Loads(api.loaded[f])

\* What the copies are made for.
IdsInOrder(dir) ==
    /\ dir[METADATA] <= dir[ENCODING]
    /\ dir[MODEL] \in Runs => dir[ENCODING] <= dir[MODEL]

Right(copy, dir) ==
    /\ copy.of # NoRun => dir = FilesOf(copy.of)
    /\ copy.quiet => IdsInOrder(dir)

ServedIsRight ==
    /\ revision.live => Right(revision.copy, revision.image)
    /\ api.step = "up" => Right(api.copy, api.loaded)

ReleaseInv ==
    /\ TypeOK /\ TrainingInv
    /\ CopiesAreFaithful /\ ServedIsRight
    /\ FinishedSaveIsAccepted

\* Once everything is copied and loads, the files belong together.
LEMMA CompleteCopyIsRight ==
    ASSUME TypeOK, TrainingInv, NEW copy, NEW dir \in Directory,
           Faithful(copy, Files, dir), \A f \in Files : Loads(dir[f])
    PROVE  Right(copy, dir)
<1>1. ASSUME copy.quiet \/ copy.of # NoRun PROVE dir = tree
  BY <1>1 DEF Faithful, TypeOK, Directory
<1>2. ASSUME dir = tree PROVE IdsInOrder(dir)
  <2>1. tree[ENCODING] \in Runs
    BY <1>2, FileNames DEF Loads, TrainingInv, TreeInOrder
  <2>2. tree[ENCODING] # Torn
    BY <2>1, RunNumbers
  <2>3. QED
    BY <1>2, <2>1, <2>2 DEF TrainingInv, TreeInOrder, IdsInOrder
<1>3. QED
  BY <1>1, <1>2 DEF Faithful, Right

\* The present of a copy that begins now: nothing is copied, and a finished save is
\* in the tree.
LEMMA BeganNowIsFaithful ==
    ASSUME TypeOK, TrainingInv, NEW dir
    PROVE  Faithful(BeganNow, {}, dir)
BY TrainingType DEF BeganNow, Faithful, TrainingInv, TrainingIsLatest, FinishedIsWhole

LEMMA ReleaseInvInit == Init => ReleaseInv
<1> SUFFICES ASSUME Init PROVE ReleaseInv
  OBVIOUS
<1>1. CopiesAreFaithful /\ ServedIsRight /\ FinishedSaveIsAccepted
  BY DEF Init, NoUpload, Off, CopiesAreFaithful, ServedIsRight, FinishedSaveIsAccepted
<1>2. QED
  BY <1>1, TypeOKInit, TrainingInvInit DEF ReleaseInv

\* Training: a save that begins ends every claim of the copies being made, and
\* while one is being written there is none to end.
LEMMA TrainingKeepsCopies ==
    ASSUME ReleaseInv,
           \/ \E r \in Runs, catalog \in SUBSET Stations : BeginTraining(r, catalog)
           \/ OpenFile \/ CloseFile \/ CutOff
    PROVE  CopiesAreFaithful' /\ ServedIsRight' /\ FinishedSaveIsAccepted'
<1>1. CASE OpenFile
  <2>1. /\ revision' = revision
        /\ upload' = IF upload.step = "copying" THEN [upload EXCEPT !.copy = NoCopy] ELSE upload
        /\ api' = IF api.step = "loading" THEN [api EXCEPT !.copy = NoCopy] ELSE api
    BY <1>1 DEF OpenFile
  <2>2. /\ upload'.step = upload.step
        /\ upload'.step = "copying" => upload'.copy = NoCopy
        /\ upload'.step # "copying" => upload' = upload
    BY <2>1 DEF ReleaseInv, TypeOK
  <2>3. /\ api'.step = api.step /\ api'.file = api.file /\ api'.loaded = api.loaded
        /\ api'.step = "loading" => api'.copy = NoCopy
        /\ api'.step # "loading" => api' = api
    BY <2>1 DEF ReleaseInv, TypeOK
  <2>4. CopiesAreFaithful'
    BY <2>2, <2>3 DEF ReleaseInv, CopiesAreFaithful, Faithful, NoCopy, Loaded
  <2>5. ServedIsRight' /\ FinishedSaveIsAccepted'
    BY <2>1, <2>2, <2>3 DEF ReleaseInv, ServedIsRight, Right, IdsInOrder,
       FinishedSaveIsAccepted
  <2>6. QED
    BY <2>4, <2>5
<1>2. CASE CloseFile
  <2>1. training.open /\ upload' = upload /\ revision' = revision /\ api' = api
    BY <1>2 DEF CloseFile
  <2>2. CopiesAreFaithful'
    BY <2>1 DEF ReleaseInv, CopiesAreFaithful, Faithful, Loaded
  <2>3. QED
    BY <2>1, <2>2 DEF ReleaseInv, ServedIsRight, FinishedSaveIsAccepted
<1>3. CASE CutOff \/ \E r \in Runs, catalog \in SUBSET Stations : BeginTraining(r, catalog)
  <2>1. /\ tree' = tree /\ upload' = upload /\ revision' = revision /\ api' = api
        /\ ~ training'.open
    BY <1>3 DEF CutOff, BeginTraining, Idle
  <2>2. CopiesAreFaithful'
    BY <2>1 DEF ReleaseInv, CopiesAreFaithful, Faithful, Loaded
  <2>3. QED
    BY <2>1, <2>2 DEF ReleaseInv, ServedIsRight, FinishedSaveIsAccepted
<1>4. QED
  BY <1>1, <1>2, <1>3

LEMMA UploadKeepsCopies ==
    ASSUME ReleaseInv,
           BeginUpload \/ RollOut \/ AbortUpload \/ \E f \in Files : CopyFile(f)
    PROVE  CopiesAreFaithful' /\ ServedIsRight' /\ FinishedSaveIsAccepted'
<1>1. TypeOK /\ TrainingInv
  BY DEF ReleaseInv
<1>2. /\ training' = training /\ tree' = tree /\ api' = api
  BY DEF BeginUpload, RollOut, AbortUpload, CopyFile
<1>3. CASE BeginUpload
  <2>1. /\ upload'.step = "copying" /\ upload'.left = Files /\ upload'.image = Empty
        /\ upload'.copy = BeganNow /\ revision' = revision
    BY <1>3 DEF BeginUpload
  <2>2. Faithful(BeganNow, {}, Empty)
    BY <1>1, BeganNowIsFaithful
  <2>3. CopiesAreFaithful'
    BY <1>2, <2>1, <2>2 DEF ReleaseInv, CopiesAreFaithful, Faithful, Loaded
  <2>4. QED
    BY <1>2, <2>1, <2>3 DEF ReleaseInv, ServedIsRight, FinishedSaveIsAccepted
<1>4. ASSUME NEW f \in Files, CopyFile(f)
      PROVE  CopiesAreFaithful' /\ ServedIsRight' /\ FinishedSaveIsAccepted'
  <2>1. /\ upload.step = "copying" /\ upload'.step = "copying"
        /\ upload'.left = upload.left \ {f} /\ upload'.copy = upload.copy
        /\ upload'.image = [upload.image EXCEPT ![f] = tree[f]]
        /\ revision' = revision
    BY <1>1, <1>4 DEF CopyFile, TypeOK
  <2>2. /\ upload'.image[f] = tree[f]
        /\ \A g \in Files \ {f} : upload'.image[g] = upload.image[g]
    BY <1>1, <1>4, <2>1 DEF TypeOK, Directory
  <2>3. CopiesAreFaithful'
    BY <1>2, <2>1, <2>2 DEF ReleaseInv, CopiesAreFaithful, Faithful, Loaded
  <2>4. QED
    BY <1>2, <2>1, <2>3 DEF ReleaseInv, ServedIsRight, FinishedSaveIsAccepted
<1>5. CASE RollOut
  <2>1. /\ upload.step = "copying" /\ upload.left = {} /\ upload.image \in Directory
    BY <1>1, <1>5 DEF RollOut, TypeOK
  <2>2. Faithful(upload.copy, Files, upload.image)
    BY <2>1 DEF ReleaseInv, CopiesAreFaithful
  <2>3. upload'.step # "copying"
    <3>1. CASE Healthy(upload.image)
      BY <1>5, <3>1 DEF RollOut, NoUpload
    <3>2. CASE ~ Healthy(upload.image)
      BY <1>1, <1>5, <3>2 DEF RollOut, TypeOK
    <3>3. QED
      BY <3>1, <3>2
  <2>4. CopiesAreFaithful'
    BY <1>2, <2>3 DEF ReleaseInv, CopiesAreFaithful, Faithful, Loaded
  <2>5. CASE Healthy(upload.image)
    <3>1. /\ revision' = [live |-> TRUE, image |-> upload.image, copy |-> upload.copy]
          /\ upload' = NoUpload
      BY <1>5, <2>5 DEF RollOut
    <3>2. \A f \in Files : Loads(upload.image[f])
      BY <2>5 DEF Healthy, ComesUp
    <3>3. Right(upload.copy, upload.image)
      BY <1>1, <2>1, <2>2, <3>2, CompleteCopyIsRight
    <3>4. ServedIsRight'
      BY <1>2, <3>1, <3>3 DEF ReleaseInv, ServedIsRight, Right, IdsInOrder
    <3>5. FinishedSaveIsAccepted'
      BY <3>1, <3>2 DEF FinishedSaveIsAccepted, NoUpload
    <3>6. QED
      BY <2>4, <3>4, <3>5
  <2>6. CASE ~ Healthy(upload.image)
    <3>1. revision' = revision /\ upload'.copy = upload.copy
      BY <1>1, <1>5, <2>6 DEF RollOut, TypeOK
    <3>2. upload.copy.of = NoRun
      <4>1. SUFFICES ASSUME upload.copy.of # NoRun PROVE Healthy(upload.image)
        BY <2>6
      <4>2. upload.copy.of \in Runs /\ tree = FilesOf(upload.copy.of)
        BY <1>1, <2>2, <4>1 DEF TypeOK, Copy, Faithful
      <4>3. \A f \in Files : upload.image[f] = upload.copy.of
        BY <2>2, <4>1, <4>2 DEF Faithful, FilesOf
      <4>4. QED
        BY <4>1, <4>2, <4>3 DEF Healthy, ComesUp, ArtifactsExist, Loads
    <3>3. QED
      BY <1>2, <2>4, <3>1, <3>2 DEF ReleaseInv, ServedIsRight, FinishedSaveIsAccepted
  <2>7. QED
    BY <2>5, <2>6
<1>6. CASE AbortUpload
  <2>1. upload' = NoUpload /\ revision' = revision
    BY <1>6 DEF AbortUpload
  <2>2. QED
    BY <1>2, <2>1 DEF ReleaseInv, CopiesAreFaithful, Faithful, Loaded,
       ServedIsRight, FinishedSaveIsAccepted, NoUpload
<1>7. QED
  BY <1>3, <1>4, <1>5, <1>6

\* Which files a process has loaded, by the number of the next.
LEMMA LoadedFiles ==
    ASSUME TypeOK
    PROVE  /\ api.file = 1 => Loaded = {}
           /\ api.file = 2 => Loaded = {MODEL}
           /\ api.file = 3 => Loaded = {MODEL, ENCODING}
BY FilesInOrder DEF Loaded, TypeOK

LEMMA ApiKeepsCopies ==
    ASSUME ReleaseInv, Boot \/ Load \/ Stop
    PROVE  CopiesAreFaithful' /\ ServedIsRight' /\ FinishedSaveIsAccepted'
<1>1. TypeOK /\ TrainingInv
  BY DEF ReleaseInv
<1>2. /\ training' = training /\ tree' = tree /\ upload' = upload /\ revision' = revision
  BY DEF Boot, Load, Stop
<1>3. FinishedSaveIsAccepted'
  BY <1>2 DEF ReleaseInv, FinishedSaveIsAccepted
<1>4. CASE Boot
  <2>1. /\ api'.file = 1 /\ api'.copy = BeganNow /\ api'.loaded = Empty
        /\ api'.step = IF ArtifactsExist(tree) THEN "loading" ELSE "up"
    BY <1>4 DEF Boot, Off
  <2>2. Loaded' = {}
    BY <2>1, FilesInOrder DEF Loaded
  <2>3. Faithful(BeganNow, {}, Empty)
    BY <1>1, BeganNowIsFaithful
  <2>4. CopiesAreFaithful'
    BY <1>2, <2>1, <2>2, <2>3 DEF ReleaseInv, CopiesAreFaithful, Faithful
  <2>5. ASSUME ~ ArtifactsExist(tree) PROVE Right(BeganNow, Empty)
    <3>1. BeganNow.of = NoRun
      <4>1. SUFFICES ASSUME finished # NoRun PROVE ArtifactsExist(tree)
        BY <2>5 DEF BeganNow
      <4>2. QED
        BY <1>1, <4>1 DEF TrainingInv, FinishedIsWhole, FilesOf, ArtifactsExist
    <3>2. IdsInOrder(Empty)
      BY FileNames, RunNumbers DEF Empty, IdsInOrder
    <3>3. QED
      BY <3>1, <3>2 DEF Right
  <2>6. api'.step = "up" => ~ ArtifactsExist(tree)
    BY <2>1
  <2>7. ServedIsRight'
    BY <1>2, <2>1, <2>5, <2>6 DEF ReleaseInv, ServedIsRight, Right, IdsInOrder, BeganNow
  <2>8. QED
    BY <1>3, <2>4, <2>7
<1>5. CASE Load
  <2> DEFINE f == InOrder[api.file]
  <2>1. /\ api.step = "loading" /\ api.file \in {1, 2, 3} /\ f \in Files
        /\ Faithful(api.copy, Loaded, api.loaded)
        /\ \A g \in Loaded : Loads(api.loaded[g])
    BY <1>1, <1>5, FilesInOrder DEF Load, ReleaseInv, CopiesAreFaithful, TypeOK
  <2>2. CASE ~ Loads(tree[f])
    <3>1. api' = Off
      BY <1>5, <2>2 DEF Load
    <3>2. QED
      BY <1>2, <1>3, <3>1 DEF ReleaseInv, CopiesAreFaithful, Faithful, ServedIsRight, Off
  <2>3. CASE Loads(tree[f])
    <3>1. /\ api'.loaded = [api.loaded EXCEPT ![f] = tree[f]]
          /\ api'.copy = api.copy
          /\ api.file = 3 => api'.step = "up"
          /\ api.file # 3 => api'.step = "loading" /\ api'.file = api.file + 1
      BY <1>1, <1>5, <2>1, <2>3, FilesInOrder DEF Load, TypeOK
    <3>2. /\ api'.loaded[f] = tree[f]
          /\ \A g \in Files \ {f} : api'.loaded[g] = api.loaded[g]
          /\ api'.loaded \in Directory
      BY <1>1, <2>1, <3>1 DEF TypeOK, Directory
    <3>3. /\ Loaded \subseteq Files
          /\ api.file = 3 => Loaded \cup {f} = Files
      BY <1>1, <2>1, LoadedFiles, FilesInOrder, FileNames
    <3>4. /\ Faithful(api.copy, Loaded \cup {f}, api'.loaded)
          /\ \A g \in Loaded \cup {f} : Loads(api'.loaded[g])
      BY <2>1, <2>3, <3>2, <3>3 DEF Faithful
    <3>5. CASE api.file = 3
      <4>1. Right(api.copy, api'.loaded)
        BY <1>1, <3>2, <3>3, <3>4, <3>5, CompleteCopyIsRight
      <4>2. CopiesAreFaithful'
        BY <1>2, <3>1, <3>5 DEF ReleaseInv, CopiesAreFaithful, Faithful
      <4>3. ServedIsRight'
        BY <1>2, <3>1, <4>1 DEF ReleaseInv, ServedIsRight, Right, IdsInOrder
      <4>4. QED
        BY <1>3, <4>2, <4>3
    <3>6. CASE api.file # 3
      <4>1. Loaded' = Loaded \cup {f}
        <5>1. api.file = 1 \/ api.file = 2
          BY <2>1, <3>6
        <5>2. CASE api.file = 1
          <6>1. Loaded' = {MODEL}
            BY <3>1, <5>2, FilesInOrder DEF Loaded
          <6>2. QED
            BY <1>1, <5>2, <6>1, LoadedFiles, FilesInOrder
        <5>3. CASE api.file = 2
          <6>1. Loaded' = {MODEL, ENCODING}
            BY <3>1, <5>3, FilesInOrder DEF Loaded
          <6>2. QED
            BY <1>1, <5>3, <6>1, LoadedFiles, FilesInOrder
        <5>4. QED
          BY <5>1, <5>2, <5>3
      <4>2. CopiesAreFaithful'
        BY <1>2, <3>1, <3>4, <4>1 DEF ReleaseInv, CopiesAreFaithful, Faithful
      <4>3. ServedIsRight'
        BY <1>2, <3>1, <3>6 DEF ReleaseInv, ServedIsRight, Right, IdsInOrder
      <4>4. QED
        BY <1>3, <4>2, <4>3
    <3>7. QED
      BY <3>5, <3>6
  <2>4. QED
    BY <2>2, <2>3
<1>6. CASE Stop
  <2>1. api' = Off
    BY <1>6 DEF Stop
  <2>2. QED
    BY <1>2, <1>3, <2>1 DEF ReleaseInv, CopiesAreFaithful, Faithful, ServedIsRight, Off
<1>7. QED
  BY <1>4, <1>5, <1>6

LEMMA ReleaseInvHolds == Spec => []ReleaseInv
<1>1. ReleaseInv /\ [Next]_vars => ReleaseInv'
  <2> SUFFICES ASSUME ReleaseInv, [Next]_vars PROVE ReleaseInv'
    OBVIOUS
  <2>1. TypeOK' /\ TrainingInv'
    BY TypeOKStep, TrainingInvStep DEF ReleaseInv
  <2>2. CASE UNCHANGED vars
    BY <2>1, <2>2 DEF vars, ReleaseInv, CopiesAreFaithful, Faithful, Loaded,
       ServedIsRight, FinishedSaveIsAccepted
  <2>3. CASE Next
    BY <2>1, <2>3, TrainingKeepsCopies, UploadKeepsCopies, ApiKeepsCopies DEF Next, ReleaseInv
  <2>4. QED
    BY <2>2, <2>3
<1>2. QED
  BY <1>1, ReleaseInvInit, PTL DEF Spec

-----------------------------------------------------------------------------
(***************************************************************************)
(* Theorems.                                                                *)
(***************************************************************************)
\* A deployment, or a process started, after a save that finished and before the
\* next one begins serves that run's booster, encoding and id.
THEOREM SaveIsServedWhole == Spec => []FinishedSaveIsServedWhole
<1>1. ReleaseInv => FinishedSaveIsServedWhole
  BY DEF ReleaseInv, ServedIsRight, Right, FinishedSaveIsServedWhole, Served
<1>2. QED
  BY <1>1, ReleaseInvHolds, PTL

\* Such a deployment is never refused.
THEOREM SaveIsAccepted == Spec => []FinishedSaveIsAccepted
BY ReleaseInvHolds, PTL DEF ReleaseInv

\* Of files copied while none was being written, the id is never of a later run
\* than the encoding, nor the encoding than a booster that is whole.
THEOREM IdFollows == Spec => []IdIsNeverAhead
<1>1. ReleaseInv => IdIsNeverAhead
  BY DEF ReleaseInv, ServedIsRight, Right, IdsInOrder, IdIsNeverAhead, Served
<1>2. QED
  BY <1>1, ReleaseInvHolds, PTL

=============================================================================
