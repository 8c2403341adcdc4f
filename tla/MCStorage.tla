----------------------------- MODULE MCStorage -----------------------------
(* The storage of the archive in three parts that share no state: the      *)
(* backup of roots, the files of one download, and the slots of network    *)
(* pins.  In every world one of them moves and the others have nothing to  *)
(* do, so that each is checked in full without the product of all three.   *)
EXTENDS MCRootBackup, ArchiveFiles, PinSlots

CONSTANTS c1, c2

QuietWorld == Archive(FALSE, [a \in {a1, a2} |-> Refs(NoRoot, NoRoot)], 2, 0, 0)
MCStorageWorlds == MCWorlds \cup {QuietWorld}

QuietSetup == [linked |-> TRUE, archiver |-> FALSE, callers |-> {}, mishaps |-> 0]
MCSetups == {QuietSetup} \cup
    [linked : BOOLEAN, archiver : BOOLEAN, callers : {{c1, c2}}, mishaps : {1}]

StorageInit ==
    /\ Init /\ FilesInit /\ SlotsInit
    /\ world = QuietWorld \/ setup = QuietSetup

SlotsTurn == world = QuietWorld /\ setup = QuietSetup /\ SlotsNext

StorageNext ==
    \/ Next /\ UNCHANGED <<filesVars, slotVars>>
    \/ FilesNext /\ UNCHANGED <<vars, slotVars>>
    \/ SlotsTurn /\ UNCHANGED <<vars, filesVars>>

StorageSpec == StorageInit /\ [][StorageNext]_<<vars, filesVars, slotVars>>
                           /\ Fairness
=============================================================================
