------------------------------- MODULE Evidence -------------------------------
(***************************************************************************)
(* The pictures of an event, on top of TrackedEvents: the thumbnail and    *)
(* the license plate the processor crops from the frames of a track, keeps *)
(* the best of in memory and writes to files, and the recognizer, which    *)
(* reads the plate's file once the event is completed.                     *)
(*                                                                         *)
(* Files are named by camera and tracker id, so all events of a track      *)
(* share them, and those of earlier runs of the program, whose tracker ids *)
(* started from the same number.  A picture is known by the event it was   *)
(* taken for.                                                              *)
(***************************************************************************)
EXTENDS TrackedEvents

CONSTANT ImagesMayFail  \* may imwrite fail without an exception? (its result is ignored)

ASSUME EvidenceAssumption == ImagesMayFail \in BOOLEAN

VARIABLES
    best,       \* bestThumbnail and bestPlate of the remembered tracks
    thumbFile,  \* track -> whose picture <camera>_<tracker>.jpg shows
    plateFile,  \* track -> whose plate <camera>_<tracker>_lp.jpg shows
    taken,      \* row id -> the appearance the row was made for
    shown,      \* the appearances that showed a plate (a history of the model)
    reading     \* whose plate the recognizer has read

pictureVars == <<best, thumbFile, plateFile, taken, shown, reading>>
allVars == <<vars, pictureVars>>

\* Whose picture: nobody's (no file), an earlier run's, or that of the appearance
\* which began in frame n.
NoFile == 0
EarlierRun == 1
Appearance(n) == n + 1

NoBest == [born |-> 0, count |-> 0, smart |-> FALSE, plate |-> FALSE]

EvidenceInit ==
    /\ Init
    /\ best = [t \in Track |-> NoBest]
    /\ thumbFile \in [Track -> {NoFile, EarlierRun}]
    /\ plateFile = thumbFile
    /\ taken = <<>> /\ shown = {} /\ reading = NoFile
------------------------------------------------------------------------------
(* The processor: updateThumbnails and processLicensePlates.               *)

\* The entry of the current object; operator[] makes one at its first sighting.
Mine == IF best[Track1].born # 0 THEN best[Track1]
        ELSE [NoBest EXCEPT !.born = Appearance(frames[camera])]

\* Slip: the file on the disk tells whether there is a picture already.
BetterShotByFile(m, smart, larger) ==
    m.count <= 2 /\ (\/ thumbFile[Track1] = NoFile
                     \/ smart /\ (~m.smart \/ larger))

\* Three pictures at most; then only one that is the first, or that may be cropped
\* to the wanted shape and is the first such one or notably larger.
BetterShot(m, smart, larger) ==
    m.count <= 2 /\ (m.count = 0 \/ (smart /\ (~m.smart \/ larger)))

\* imwrite replaces the file.
Written(files, owner) ==
    { [files EXCEPT ![Track1] = owner] } \cup (IF ImagesMayFail THEN {files} ELSE {})

UpdateThumbnails(m, smart, larger) ==
    IF BetterShot(m, smart, larger)
    THEN /\ best' = [best EXCEPT ![Track1] = [m EXCEPT !.count = @ + 1, !.smart = smart]]
         /\ thumbFile' \in Written(thumbFile, m.born)
    ELSE /\ best' = [best EXCEPT ![Track1] = m]
         /\ UNCHANGED thumbFile

\* Slip: the plate is kept for its text but its file is left as it is.
ProcessPlatesKeepsFile(m, smart, larger, plate) ==
    /\ UpdateThumbnails([m EXCEPT !.plate = @ \/ plate], smart, larger)
    /\ plateFile' = IF plate /\ plateFile[Track1] = NoFile
                    THEN [plateFile EXCEPT ![Track1] = m.born] ELSE plateFile
    /\ shown' = IF plate THEN shown \cup {<<Track1, m.born>>} ELSE shown

\* A plate well inside the box, and notably larger than the best one so far.
ProcessPlates(m, smart, larger, plate) ==
    /\ UpdateThumbnails([m EXCEPT !.plate = @ \/ plate], smart, larger)
    /\ IF plate THEN /\ plateFile' \in Written(plateFile, m.born)
                     /\ shown' = shown \cup {<<Track1, m.born>>}
       ELSE UNCHANGED <<plateFile, shown>>

Look == \E smart, larger, plate \in BOOLEAN : ProcessPlates(Mine, smart, larger, plate)

\* Cropping throws, or imwrite of a thumbnail kept already, or everything after:
\* the plate stays as it was.
LookFails ==
    \/ best' = [best EXCEPT ![Track1] = Mine] /\ UNCHANGED <<thumbFile, plateFile, shown>>
    \/ \E smart, larger \in BOOLEAN :
         UpdateThumbnails(Mine, smart, larger) /\ UNCHANGED <<plateFile, shown>>
    \/ Look

SeePersist ==
    /\ PersistEvent /\ Look
    /\ taken' = Append(taken, Mine.born)
    /\ UNCHANGED reading

SeeObject ==
    /\ PersistCommitFails \/ UpdateEvent
    /\ Look
    /\ UNCHANGED <<taken, reading>>

SeeNothing ==
    /\ ObjectFails /\ LookFails
    /\ UNCHANGED <<taken, reading>>

\* The pictures in memory go with the entry; the files stay.
Forget(t) ==
    /\ CompleteEvent(t)
    /\ best' = [best EXCEPT ![t] = NoBest]
    /\ UNCHANGED <<thumbFile, plateFile, taken, shown, reading>>
------------------------------------------------------------------------------
(* The recognizer.                                                         *)

ReadPlate ==
    /\ lpr.id # 0 /\ reading = NoFile
    /\ plateFile[lpr.row.track] # NoFile
    /\ reading' = plateFile[lpr.row.track]
    /\ UNCHANGED <<vars, best, thumbFile, plateFile, taken, shown>>

RecognizePlate ==
    /\ reading # NoFile
    /\ LprUpdate
    /\ reading' = NoFile
    /\ UNCHANGED <<best, thumbFile, plateFile, taken, shown>>

LeaveUnread ==
    /\ LprGiveUp
    /\ reading' = NoFile
    /\ UNCHANGED <<best, thumbFile, plateFile, taken, shown>>

OtherSteps ==
    /\ \/ LoopCheck
       \/ \E c \in Cameras, objects \in Contents : TakeFrame(c, objects)
       \/ ObjectsDone
       \/ \E t \in Track : CompleteFails(t)
       \/ CleanupDone
       \/ \E t \in Track : FinalizeEvent(t) \/ FinalizeFails(t)
       \/ FinalizeDone
       \/ LprLoad
       \/ InterruptProcessor \/ AbortQueue
       \/ Stopped
    /\ UNCHANGED pictureVars

EvidenceNext ==
    \/ SeePersist \/ SeeObject \/ SeeNothing
    \/ \E t \in Track : Forget(t)
    \/ ReadPlate \/ RecognizePlate \/ LeaveUnread
    \/ OtherSteps

EvidenceSpec == EvidenceInit /\ [][EvidenceNext]_allVars
------------------------------------------------------------------------------
(* Properties.                                                             *)

(***************************************************************************)
(* An event that is remembered shows itself: while its track is followed,  *)
(* the thumbnail its row names, and the plate if one was seen, are its     *)
(* own, whatever earlier events and runs left under the same names.        *)
(***************************************************************************)
OpenEventShowsItself ==
    \A t \in Track :
        /\ history[t].persisted => thumbFile[t] = best[t].born
        /\ best[t].plate => plateFile[t] = best[t].born

(***************************************************************************)
(* An event that showed a plate gets its text from this plate, or from one *)
(* of a later event of the track if the recognizer is late: never from     *)
(* what an earlier event or run left in the file.  (An event that showed   *)
(* none is given whatever is there: see the README.)                       *)
(***************************************************************************)
PlateIsNotOlder ==
    [][reading = NoFile /\ reading' # NoFile
          /\ <<lpr.row.track, taken[lpr.id]>> \in shown
          => reading' >= taken[lpr.id]]_allVars
===============================================================================
