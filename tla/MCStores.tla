------------------------------ MODULE MCStores ------------------------------
(* Bytes and the rows that name them: what an image consists of, the copy of *)
(* its labels that the Mongo backend keeps, the edits of its regions, and    *)
(* its move from store to store. They share nothing: a behaviour is one of   *)
(* them, and the others stand still.                                         *)
EXTENDS MCImages, Labels, Review, Moves

CONSTANT Owned

VARIABLE part

MCOwner == [c \in ExternalId |-> Owned]

storesVars == <<part, imagesVars, labelsVars, reviewVars, movesVars>>

StoresInit ==
    /\ part \in {"images", "labels", "review", "moves"}
    /\ ImagesInit /\ LabelsInit /\ ReviewInit /\ MovesInit
    /\ part # "moves" => active = "local"

StoresNext ==
    /\ \/ part = "images" /\ ImagesNext /\ UNCHANGED <<labelsVars, reviewVars, movesVars>>
       \/ part = "labels" /\ LabelsNext /\ UNCHANGED <<imagesVars, reviewVars, movesVars>>
       \/ part = "review" /\ ReviewNext /\ UNCHANGED <<imagesVars, labelsVars, movesVars>>
       \/ part = "moves"  /\ MovesNext  /\ UNCHANGED <<imagesVars, labelsVars, reviewVars>>
    /\ UNCHANGED part

Stores == StoresInit /\ [][StoresNext]_storesVars

\* The variables of every part keep their types.
StoresTypeOK == ImagesTypeOK /\ LabelsTypeOK /\ ReviewTypeOK /\ MovesTypeOK
=============================================================================
