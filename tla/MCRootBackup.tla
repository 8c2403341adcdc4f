---------------------------- MODULE MCRootBackup ----------------------------
(* Small archives: two artworks that share a root, with failures or with a *)
(* user who asks; one artwork whose media root waits for the next tier, or  *)
(* lies above the ceiling; a root whose size nobody can tell and another    *)
(* one that waits behind it.                                               *)
EXTENDS RootBackup

CONSTANTS a1, a2, r1, r2, r3

Refs(metadata, media) == [metadata |-> metadata, media |-> media]
Shared == [a \in {a1, a2} |-> Refs(r1, NoRoot)]
Single == [a \in {a1, a2} |-> IF a = a1 THEN Refs(r1, r2)
                             ELSE Refs(NoRoot, NoRoot)]
Tall == [a \in {a1, a2} |-> IF a = a1 THEN Refs(r1, r3)
                           ELSE Refs(NoRoot, NoRoot)]
Apart == [a \in {a1, a2} |-> IF a = a1 THEN Refs(r1, NoRoot) ELSE Refs(r2, NoRoot)]
Archive(pinning, roots, start, setbacks, requests) ==
    [pinning |-> pinning, roots |-> roots, mute |-> {}, start |-> start,
     setbacks |-> setbacks, requests |-> requests, backlogs |-> 0]
Backlog(archive) == [archive EXCEPT !.backlogs = 1]

MCWorlds == {Archive(TRUE, Shared, 2, 1, 0), Archive(FALSE, Shared, 2, 1, 0),
             Archive(TRUE, Shared, 2, 0, 1), Archive(TRUE, Single, 1, 1, 1),
             Backlog(Archive(FALSE, Single, 1, 1, 0)),
             Backlog(Archive(FALSE, Tall, 1, 0, 1)),
             [Archive(FALSE, Apart, 1, 0, 1) EXCEPT !.mute = {r1}]}

MCSkipWorlds == {Archive(TRUE, Shared, 2, 1, 0)}

MCSize == [r \in {r1, r2, r3} |-> IF r = r1 THEN 1 ELSE IF r = r2 THEN 2 ELSE 3]
=============================================================================
