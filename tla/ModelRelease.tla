----------------------------- MODULE ModelRelease -----------------------------
(***************************************************************************)
(* A model on its way from training to the API.  A training run reads the   *)
(* archive, fits, and writes three files over those of the run before, one  *)
(* by one (modeling/train.py, modeling/artifacts.py).  A deployment copies  *)
(* the working tree into an image, file by file, and only a revision that   *)
(* comes up healthy replaces the one that serves (scripts/deploy.sh); an    *)
(* API started in the working tree reads the files themselves, one by one   *)
(* (api/main.py).  All three happen on one machine with nothing to keep     *)
(* them apart, and training may stop anywhere.                              *)
(*                                                                         *)
(* A file stands for the run that wrote it.  What a run knows of stations   *)
(* is the catalog it read, which only grows: the archive keeps every row.   *)
(***************************************************************************)
EXTENDS StationEncoding, Sequences

CONSTANTS
    Stations,   \* station ids
    MaxRun      \* bound: how many training runs a behaviour has

ASSUME ReleaseAssumption == Stations \subseteq Int /\ IsFiniteSet(Stations) /\ MaxRun \in Nat

Runs     == 1..MaxRun
NoRun    == 0       \* no such file, or nothing finished
Torn     == -1      \* written in part, and refused by whoever loads it
Partial  == -2      \* a booster written in part that LightGBM nevertheless reads
Contents == Runs \cup {NoRun, Torn, Partial}

MODEL    == "model.txt"
ENCODING == "station_id_encoding.json"
METADATA == "metadata.json"
Files    == {MODEL, ENCODING, METADATA}
\* Mutants, here and below: a mistake in the definition that follows, which the
\* run must notice.  The run's id is written before what it stands for.
InOrderIdFirst == <<METADATA, MODEL, ENCODING>>

InOrder == <<MODEL, ENCODING, METADATA>>

Directory == [Files -> Contents]
Empty == [f \in Files |-> NoRun]
FilesOf(r) == [f \in Files |-> r]

VARIABLES
    catalogs,   \* the stations each training run read; none before it begins
    training,   \* the run in progress and the file it writes
    tree,       \* settings.model_dir in the working tree
    finished,   \* history: the last run that saved, NoRun if it did not finish
    upload,     \* the deployment in progress
    revision,   \* what the deployed revision's image holds
    api         \* an API started in the working tree, and what it has loaded

vars == <<catalogs, training, tree, finished, upload, revision, api>>

\* of, quiet: history of a copy of the files made one by one.  All of them are
\* those of run `of`, when that had finished and no other save began meanwhile;
\* quiet says only that none was writing meanwhile.
Copy == [of : Runs \cup {NoRun}, quiet : BOOLEAN]
NoCopy == [of |-> NoRun, quiet |-> FALSE]

Idle == [run |-> NoRun, file |-> 1, open |-> FALSE]

TypeOK ==
    /\ catalogs \in [Runs -> SUBSET Stations]
    /\ training \in [run : Runs \cup {NoRun}, file : DOMAIN InOrder, open : BOOLEAN]
    /\ tree     \in Directory
    /\ finished \in Runs \cup {NoRun}
    /\ upload   \in [step : {"none", "copying", "refused"}, left : SUBSET Files,
                     image : Directory, copy : Copy]
    /\ revision \in [live : BOOLEAN, image : Directory, copy : Copy]
    /\ api      \in [step : {"off", "loading", "up"}, file : DOMAIN InOrder,
                     loaded : Directory, copy : Copy]

NoUpload == [step |-> "none", left |-> {}, image |-> Empty, copy |-> NoCopy]
Off == [step |-> "off", file |-> 1, loaded |-> Empty, copy |-> NoCopy]

Init ==
    /\ catalogs = [r \in Runs |-> {}]
    /\ training = Idle
    /\ tree     = Empty
    /\ finished = NoRun
    /\ upload   = NoUpload
    /\ revision = [live |-> FALSE, image |-> Empty, copy |-> NoCopy]
    /\ api      = Off

-----------------------------------------------------------------------------
(* Training.                                                                *)

Begun == {r \in Runs : catalogs[r] # {}}

\* The data is read and prepared and the model is fitted and logged.  Nothing is
\* saved before that, so a failure until then is CutOff's.  A run that gets
\* anywhere has stations: without rows there is nothing to split.
BeginTraining(r, catalog) ==
    /\ training = Idle
    /\ r \notin Begun /\ \A q \in Runs : q < r => q \in Begun
    /\ catalog # {} /\ \A q \in Begun : catalogs[q] \subseteq catalog
    /\ catalogs' = [catalogs EXCEPT ![r] = catalog]
    /\ training' = [Idle EXCEPT !.run = r]
    /\ UNCHANGED <<tree, finished, upload, revision, api>>

\* What a file holds from the moment it is opened for writing until it is closed,
\* or for good if training ends in between.
WhileWritten(f) == IF f = MODEL THEN {Torn, Partial} ELSE {Torn}

OpenFile ==
    /\ training # Idle /\ ~ training.open
    /\ training' = [training EXCEPT !.open = TRUE]
    /\ \E c \in WhileWritten(InOrder[training.file]) :
         tree' = [tree EXCEPT ![InOrder[training.file]] = c]
    /\ finished' = NoRun
    /\ upload' = IF upload.step = "copying" THEN [upload EXCEPT !.copy = NoCopy] ELSE upload
    /\ api'    = IF api.step = "loading" THEN [api EXCEPT !.copy = NoCopy] ELSE api
    /\ UNCHANGED <<catalogs, revision>>

\* Another file after the last.
NextFileAlways ==
    training' = [training EXCEPT !.file = @ + 1, !.open = FALSE] /\ UNCHANGED finished

\* A save that leaves out the id.
NextFileWithoutId ==
    IF InOrder[training.file] = ENCODING
    THEN training' = Idle /\ finished' = training.run
    ELSE training' = [training EXCEPT !.file = @ + 1, !.open = FALSE] /\ UNCHANGED finished

\* The next file, or the end of the save.
NextFile ==
    IF training.file = Len(InOrder)
    THEN training' = Idle /\ finished' = training.run
    ELSE training' = [training EXCEPT !.file = @ + 1, !.open = FALSE] /\ UNCHANGED finished

\* The encoding stays that of the first run, "so a code means the same station".
CloseFileFirstEncoding ==
    /\ training.open
    /\ tree' = [tree EXCEPT ![InOrder[training.file]] =
                  IF InOrder[training.file] = ENCODING THEN 1 ELSE training.run]
    /\ NextFile
    /\ UNCHANGED <<catalogs, upload, revision, api>>

CloseFile ==
    /\ training.open
    /\ tree' = [tree EXCEPT ![InOrder[training.file]] = training.run]
    /\ NextFile
    /\ UNCHANGED <<catalogs, upload, revision, api>>

\* A failing call or a kill, before, between and within the writes.
CutOff ==
    /\ training # Idle
    /\ training' = Idle
    /\ UNCHANGED <<catalogs, tree, finished, upload, revision, api>>

-----------------------------------------------------------------------------
(* Start-up.                                                                *)

\* model_artifacts_exist: presence is all that is asked.
ArtifactsExist(dir) == \A f \in Files : dir[f] # NoRun

Loads(c) == c \in Runs \cup {Partial}

\* lifespan: without the files the API comes up without a model, with a file it
\* cannot load not at all.
ComesUp(dir) == ArtifactsExist(dir) => \A f \in Files : Loads(dir[f])

\* /health is 200 only with a model.
Healthy(dir) == ComesUp(dir) /\ ArtifactsExist(dir)

BeganNow == [of |-> finished, quiet |-> ~ training.open]

-----------------------------------------------------------------------------
(* Deployment.                                                              *)

BeginUpload ==
    /\ upload.step # "copying"
    /\ upload' = [step |-> "copying", left |-> Files, image |-> Empty, copy |-> BeganNow]
    /\ UNCHANGED <<catalogs, training, tree, finished, revision, api>>

CopyFile(f) ==
    /\ upload.step = "copying" /\ f \in upload.left
    /\ upload' = [upload EXCEPT !.left = @ \ {f}, !.image[f] = tree[f]]
    /\ UNCHANGED <<catalogs, training, tree, finished, revision, api>>

\* The startup probe decides: traffic moves to a revision that comes up healthy
\* and otherwise stays where it is.
RollOut ==
    /\ upload.step = "copying" /\ upload.left = {}
    /\ IF Healthy(upload.image)
       THEN /\ revision' = [live |-> TRUE, image |-> upload.image, copy |-> upload.copy]
            /\ upload'   = NoUpload
       ELSE /\ upload'   = [upload EXCEPT !.step = "refused", !.image = Empty]
            /\ UNCHANGED revision
    /\ UNCHANGED <<catalogs, training, tree, finished, api>>

\* set -e: the script ends with the first command that fails.
AbortUpload ==
    /\ upload.step = "copying"
    /\ upload' = NoUpload
    /\ UNCHANGED <<catalogs, training, tree, finished, revision, api>>

-----------------------------------------------------------------------------
(* An API in the working tree.                                              *)

Boot ==
    /\ api.step = "off"
    /\ api' = [Off EXCEPT !.step = IF ArtifactsExist(tree) THEN "loading" ELSE "up",
                          !.copy = BeganNow]
    /\ UNCHANGED <<catalogs, training, tree, finished, upload, revision>>

Load ==
    /\ api.step = "loading"
    /\ LET f == InOrder[api.file]
       IN  api' = IF ~ Loads(tree[f]) THEN Off
                  ELSE [api EXCEPT !.loaded[f] = tree[f],
                                   !.step = IF api.file = Len(InOrder) THEN "up" ELSE @,
                                   !.file = IF api.file = Len(InOrder) THEN 1 ELSE @ + 1]
    /\ UNCHANGED <<catalogs, training, tree, finished, upload, revision>>

Stop ==
    /\ api.step = "up"
    /\ api' = Off
    /\ UNCHANGED <<catalogs, training, tree, finished, upload, revision>>

Next ==
    \/ \E r \in Runs, catalog \in SUBSET Stations : BeginTraining(r, catalog)
    \/ OpenFile \/ CloseFile \/ CutOff
    \/ BeginUpload \/ RollOut \/ AbortUpload
    \/ \E f \in Files : CopyFile(f)
    \/ Boot \/ Load \/ Stop

Spec == Init /\ [][Next]_vars

-----------------------------------------------------------------------------
(* Properties.                                                              *)

\* A directory that is served, and the history of how it was copied.
Served == (IF revision.live THEN {[dir |-> revision.image, copy |-> revision.copy]} ELSE {})
     \cup (IF api.step = "up" THEN {[dir |-> api.loaded, copy |-> api.copy]} ELSE {})

\* What is copied or loaded after a save that finished, with none beginning
\* meanwhile, is that run's booster, encoding and id together, whatever earlier
\* saves left behind (modeling/artifacts.py:18-28).
FinishedSaveIsServedWhole ==
    \A x \in Served : x.copy.of # NoRun => x.dir = FilesOf(x.copy.of)

\* And no deployment of it is refused: only what a save cut off or beside the
\* upload left can be.
FinishedSaveIsAccepted == upload.step = "refused" => upload.copy.of = NoRun

\* The files are written in the order booster, encoding, id: after a save that
\* was cut off the id that /health and predictions report is never newer than
\* what they are computed with (modeling/artifacts.py:25-28, api/main.py:69-72).
IdIsNeverAhead ==
    \A x \in Served : x.copy.quiet =>
        /\ x.dir[METADATA] <= x.dir[ENCODING]
        /\ x.dir[MODEL] \in Runs => x.dir[ENCODING] <= x.dir[MODEL]

\* "A code means the same station across runs" (modeling/encoding.py:14-18).  It
\* does not: a code is a place in the catalog of its run, and a station that
\* enters the catalog moves every station after it.
CodesMeanTheSame ==
    \A q, r \in Begun : \A s \in catalogs[q], t \in catalogs[r] :
        BuildStationIdEncoding(catalogs[q])[s] = BuildStationIdEncoding(catalogs[r])[t] => s = t
=============================================================================
