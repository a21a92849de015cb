------------------------------ MODULE NftStore ------------------------------
(***************************************************************************)
(* The server's store of NFT pictures: uploads that check the count of     *)
(* stored NFTs, await the request's body, and write two files one after    *)
(* the other; and a server that may stop at any time.  An upload is named  *)
(* by the random id it is given.  A file that a crash interrupts is there  *)
(* but not whole: the picture is cut off, the description does not parse.  *)
(***************************************************************************)
EXTENDS Integers, FiniteSets

CONSTANTS
    Ids,
    MaxStored   \* MAX_STORED

ASSUME StoreAssumption == IsFiniteSet(Ids) /\ MaxStored \in Nat \ {0}

VARIABLES
    upload,     \* where each upload is
    picture,    \* <id>.img and <id>.json: "none", "cut" or "whole"
    description,
    linked,     \* ids whose links were returned to the wallet (history)
    overlapped     \* two uploads were past the count at the same time (history)

storeVars == <<upload, picture, description, linked, overlapped>>

StoreInit ==
    /\ upload = [i \in Ids |-> "idle"]
    /\ picture = [i \in Ids |-> "none"]
    /\ description = [i \in Ids |-> "none"]
    /\ linked = {} /\ overlapped = FALSE

(* count() looks at the names of the files only. *)
Stored == Cardinality({i \in Ids : description[i] # "none"})

Running == {i \in Ids : upload[i] \notin {"idle", "over"}}

FullByOne == Stored > MaxStored

Full == Stored >= MaxStored

(* The count is checked before the body has arrived. *)
Accept(i) ==
    /\ upload[i] = "idle"
    /\ ~Full
    /\ upload' = [upload EXCEPT ![i] = "reading"]
    /\ overlapped' = (overlapped \/ Running # {})
    /\ UNCHANGED <<picture, description, linked>>

(* A form that is not one, no picture, a bad name, too much text, too many *)
(* bytes, or bytes that are no picture.                                    *)
Reject(i) ==
    /\ upload[i] = "reading"
    /\ upload' = [upload EXCEPT ![i] = "over"]
    /\ UNCHANGED <<picture, description, linked, overlapped>>

(* save writes the picture first, then the description. *)
StartSave(i) ==
    /\ upload[i] = "reading"
    /\ upload' = [upload EXCEPT ![i] = "saving picture"]
    /\ picture' = [picture EXCEPT ![i] = "cut"]
    /\ UNCHANGED <<description, linked, overlapped>>

DescriptionStartedEarly(i) == upload[i] \in {"reading", "saving picture"}

DescriptionStarted(i) == upload[i] = "saving picture" /\ picture[i] = "whole"

PictureWritten(i) ==
    /\ upload[i] = "saving picture" /\ picture[i] = "cut"
    /\ picture' = [picture EXCEPT ![i] = "whole"]
    /\ UNCHANGED <<upload, description, linked, overlapped>>

StartDescription(i) ==
    /\ DescriptionStarted(i)
    /\ upload' = [upload EXCEPT ![i] = "saving text"]
    /\ description' = [description EXCEPT ![i] = "cut"]
    /\ UNCHANGED <<picture, linked, overlapped>>

DescriptionWritten(i) ==
    /\ upload[i] = "saving text"
    /\ description' = [description EXCEPT ![i] = "whole"]
    /\ linked' = linked \cup {i}
    /\ upload' = [upload EXCEPT ![i] = "over"]
    /\ UNCHANGED <<picture, overlapped>>

(* The disk refuses: the route answers with an error and cleans nothing. *)
SaveFails(i) ==
    /\ upload[i] \in {"saving picture", "saving text"}
    /\ upload' = [upload EXCEPT ![i] = "over"]
    /\ UNCHANGED <<picture, description, linked, overlapped>>

(* The server stops: the uploads end where they are, the files stay. *)
Stop ==
    /\ Running # {}
    /\ upload' = [i \in Ids |-> IF i \in Running THEN "over" ELSE upload[i]]
    /\ UNCHANGED <<picture, description, linked, overlapped>>

StoreNext ==
    \/ \E i \in Ids :
        \/ Accept(i) \/ Reject(i) \/ StartSave(i) \/ PictureWritten(i)
        \/ StartDescription(i) \/ DescriptionWritten(i) \/ SaveFails(i)
    \/ Stop

StoreSpec == StoreInit /\ [][StoreNext]_storeVars

(* What the two routes serve: the description if it parses, the picture if *)
(* there is a description and the file is there, cut off or not.           *)
Info(i) == description[i] = "whole"
Image(i) == Info(i) /\ picture[i] # "none"

-----------------------------------------------------------------------------
(* Properties.                                                             *)

(* A link that was handed out works for ever, and no page ever shows a     *)
(* description without its whole picture, after a crash or a full disk     *)
(* either: the order of the two writes guarantees it.                      *)
NeverHalfServed ==
    /\ \A i \in linked : Info(i) /\ Image(i)
    /\ \A i \in Ids : Info(i) => picture[i] = "whole"

(* The cap holds unless uploads overlap, and then by their number.         *)
CapUnlessCrowded == Stored > MaxStored => overlapped
=============================================================================
