---------------------------- MODULE StorageProofs ----------------------------
(***************************************************************************)
(* The storage below the archive, for any number of calls: no slot of the  *)
(* network pins is wasted, files that were saved are kept, readers are     *)
(* served while the files move into Kubo, and what the backup writes of    *)
(* roots and artworks is true and stays so.                                *)
(***************************************************************************)
EXTENDS PinSlots, ArchiveFiles, IpfsGateway, RootBackup, FiniteSetTheorems,
        TLAPS

-----------------------------------------------------------------------------
(* Slots.  Whoever is in the line waits, and is there once: so the call    *)
(* that a release wakes is not one that pins.                              *)

PinSteps == {"idle", "waiting", "woken", "pinning", "done"}

SlotTypes ==
    /\ active \in Int
    /\ waiters \in Seq(Pins)
    /\ pin \in [Pins -> PinSteps]

InLine ==
    /\ \A i \in 1..Len(waiters) : pin[waiters[i]] = "waiting"
    /\ \A i, j \in 1..Len(waiters) : waiters[i] = waiters[j] => i = j

SlotsInv == SlotTypes /\ InLine /\ NoSlotIsWasted

\* Moving one call from a step to another one moves it between the sets.
LEMMA CountedStep ==
    ASSUME SlotTypes, NEW p \in Pins, NEW from \in PinSteps, NEW to \in PinSteps,
           from # to, Become(p, from, to)
    PROVE  /\ AtStep(from)' = AtStep(from) \ {p} /\ p \in AtStep(from)
           /\ AtStep(to)' = AtStep(to) \cup {p} /\ p \notin AtStep(to)
           /\ \A s \in PinSteps \ {from, to} : AtStep(s)' = AtStep(s)
           /\ pin' \in [Pins -> PinSteps]
BY DEF SlotTypes, Become, AtStep

LEMMA StepsAreFinite ==
    \A s \in PinSteps : IsFiniteSet(AtStep(s)) /\ Cardinality(AtStep(s)) \in Nat
<1> TAKE s \in PinSteps
<1>1. IsFiniteSet(AtStep(s))
  BY FS_Subset, SlotsAssumption DEF AtStep
<1> QED BY <1>1, FS_CardinalityType

LEMMA AcquireKeeps ==
    ASSUME SlotsInv, NEW p \in Pins, Acquire(p)
    PROVE  SlotsInv'
<1> USE DEF SlotsInv
<1>1. CASE active >= MaxSlots
  <2>1. /\ Become(p, "idle", "waiting") /\ waiters' = Append(waiters, p)
        /\ active' = active
    BY <1>1 DEF Acquire
  <2>2. /\ AtStep("pinning")' = AtStep("pinning") /\ AtStep("woken")' = AtStep("woken")
        /\ pin' \in [Pins -> PinSteps]
    BY <2>1, CountedStep DEF PinSteps
  <2>3. InLine'
    BY <2>1 DEF InLine, SlotTypes, Become
  <2>4. Cardinality(AtStep("woken")) \in Nat
    BY StepsAreFinite DEF PinSteps
  <2>5. NoSlotIsWasted'
    BY <1>1, <2>1, <2>2, <2>4, SlotsAssumption DEF NoSlotIsWasted, SlotTypes
  <2> QED BY <2>1, <2>2, <2>3, <2>5 DEF SlotTypes
<1>2. CASE ~(active >= MaxSlots)
  <2>1. /\ Become(p, "idle", "pinning") /\ waiters' = waiters
        /\ active' = active + 1
    BY <1>2 DEF Acquire
  <2>2. /\ AtStep("pinning")' = AtStep("pinning") \cup {p} /\ p \notin AtStep("pinning")
        /\ AtStep("woken")' = AtStep("woken") /\ pin' \in [Pins -> PinSteps]
    BY <2>1, CountedStep DEF PinSteps
  <2>3. Cardinality(AtStep("pinning")') = Cardinality(AtStep("pinning")) + 1
    BY <2>2, StepsAreFinite, FS_AddElement DEF PinSteps
  <2>4. Cardinality(AtStep("woken")) \in Nat
    BY StepsAreFinite DEF PinSteps
  <2>5. InLine'
    BY <2>1 DEF InLine, SlotTypes, Become
  <2>6. NoSlotIsWasted'
    BY <2>1, <2>2, <2>3, <2>4, SlotsAssumption DEF NoSlotIsWasted, SlotTypes
  <2> QED BY <2>1, <2>2, <2>5, <2>6 DEF SlotTypes
<1> QED BY <1>1, <1>2

LEMMA ResumeKeeps ==
    ASSUME SlotsInv, NEW p \in Pins, Resume(p)
    PROVE  SlotsInv'
<1> USE DEF SlotsInv
<1>1. Become(p, "woken", "pinning") /\ active' = active + 1 /\ waiters' = waiters
  BY DEF Resume
<1>2. /\ AtStep("pinning")' = AtStep("pinning") \cup {p} /\ p \notin AtStep("pinning")
      /\ AtStep("woken")' = AtStep("woken") \ {p} /\ p \in AtStep("woken")
      /\ pin' \in [Pins -> PinSteps]
  BY <1>1, CountedStep DEF PinSteps
<1>3. Cardinality(AtStep("pinning")') = Cardinality(AtStep("pinning")) + 1
  BY <1>2, StepsAreFinite, FS_AddElement DEF PinSteps
<1>4. Cardinality(AtStep("woken")') = Cardinality(AtStep("woken")) - 1
  BY <1>2, StepsAreFinite, FS_RemoveElement DEF PinSteps
<1>5. Cardinality(AtStep("woken")) \in Nat
  BY StepsAreFinite DEF PinSteps
<1>6. InLine'
  BY <1>1 DEF InLine, SlotTypes, Become
<1>7. NoSlotIsWasted'
  BY <1>1, <1>3, <1>4, <1>5, SlotsAssumption DEF NoSlotIsWasted, SlotTypes
<1> QED BY <1>1, <1>2, <1>6, <1>7 DEF SlotTypes

\* A release with nobody in line, or one that wakes the first in line.
LEMMA ReleaseKeeps ==
    ASSUME SlotsInv, NEW p \in Pins, Release(p)
    PROVE  SlotsInv'
<1> USE DEF SlotsInv
<1>1. pin[p] = "pinning" /\ active' = active - 1
  BY DEF Release
<1>2. p \in AtStep("pinning")
  BY <1>1 DEF AtStep
<1>3. Cardinality(AtStep("pinning") \ {p}) = Cardinality(AtStep("pinning")) - 1
  BY <1>2, StepsAreFinite, FS_RemoveElement DEF PinSteps
<1>4. Cardinality(AtStep("woken")) \in Nat
  BY StepsAreFinite DEF PinSteps
<1>5. CASE waiters = <<>>
  <2>1. Become(p, "pinning", "done") /\ waiters' = <<>>
    BY <1>5 DEF Release
  <2>2. AtStep("pinning")' = AtStep("pinning") \ {p} /\ pin' \in [Pins -> PinSteps]
    BY <2>1, CountedStep DEF PinSteps
  <2>3. NoSlotIsWasted'
    BY <1>1, <1>3, <2>1, <2>2 DEF NoSlotIsWasted, SlotTypes
  <2> QED BY <1>1, <2>1, <2>2, <2>3 DEF SlotTypes, InLine
<1>6. CASE waiters # <<>>
  <2> DEFINE q == Head(waiters)
  <2>1. /\ pin' = [pin EXCEPT ![p] = "done", ![q] = "woken"]
        /\ waiters' = Tail(waiters)
    BY <1>6 DEF Release
  <2>2. q \in Pins /\ q = waiters[1] /\ 1 \in 1..Len(waiters)
    BY <1>6 DEF SlotTypes
  <2>3. pin[q] = "waiting" /\ q # p
    BY <1>1, <2>2 DEF InLine
  <2> HIDE DEF q
  <2>4. \A r \in Pins : pin'[r] = CASE r = p -> "done" [] r = q -> "woken"
                                    [] OTHER -> pin[r]
    BY <2>1, <2>2, <2>3 DEF SlotTypes
  <2>5. pin' \in [Pins -> PinSteps]
    BY <2>1 DEF SlotTypes, PinSteps
  <2>6. AtStep("pinning")' = AtStep("pinning") \ {p}
    BY <2>3, <2>4 DEF AtStep
  <2>7. AtStep("woken")' = AtStep("woken") \cup {q} /\ q \notin AtStep("woken")
    BY <1>1, <2>2, <2>3, <2>4 DEF AtStep
  <2>8. Cardinality(AtStep("woken")') = Cardinality(AtStep("woken")) + 1
    BY <2>7, StepsAreFinite, FS_AddElement DEF PinSteps
  <2>9. /\ waiters' \in Seq(Pins) /\ Len(waiters') = Len(waiters) - 1
        /\ \A i \in 1..Len(waiters') : waiters'[i] = waiters[i + 1]
    BY <1>6, <2>1 DEF SlotTypes
  <2>10. InLine'
    <3>1. \A i \in 1..Len(waiters') : /\ i + 1 \in 1..Len(waiters)
                                      /\ waiters[i + 1] # q /\ waiters[i + 1] \in Pins
                                      /\ pin[waiters[i + 1]] = "waiting"
      BY <2>2, <2>9 DEF InLine, SlotTypes
    <3>2. \A i \in 1..Len(waiters') : pin'[waiters'[i]] = "waiting"
      BY <1>1, <2>4, <2>9, <3>1
    <3>3. \A i, j \in 1..Len(waiters') : waiters'[i] = waiters'[j] => i = j
      BY <2>9, <3>1 DEF InLine, SlotTypes
    <3> QED BY <3>2, <3>3 DEF InLine
  <2>11. NoSlotIsWasted'
    <3>1. active' = Cardinality(AtStep("pinning")')
      BY <1>1, <1>3, <2>6 DEF NoSlotIsWasted
    <3>2. active + Cardinality(AtStep("woken")) >= MaxSlots
      BY <1>6 DEF NoSlotIsWasted
    <3>3. active' + Cardinality(AtStep("woken")') >= MaxSlots
      BY <1>1, <1>4, <2>8, <3>2, SlotsAssumption DEF SlotTypes
    <3> QED BY <3>1, <3>3 DEF NoSlotIsWasted
  <2> QED BY <1>1, <2>5, <2>9, <2>10, <2>11 DEF SlotTypes
<1> QED BY <1>5, <1>6

\* makeSemaphore: no slot is idle while somebody waits, for any number of
\* pins and slots.
THEOREM NoSlotIsWastedHolds == SlotsSpec => []NoSlotIsWasted
<1>1. SlotsInit => SlotsInv
  <2> SUFFICES ASSUME SlotsInit PROVE SlotsInv
    OBVIOUS
  <2>1. AtStep("pinning") = {}
    BY DEF SlotsInit, AtStep
  <2> QED BY <2>1, FS_EmptySet DEF SlotsInit, SlotsInv, SlotTypes, InLine,
                                   NoSlotIsWasted, PinSteps
<1>2. SlotsInv /\ [SlotsNext]_slotVars => SlotsInv'
  <2> SUFFICES ASSUME SlotsInv, [SlotsNext]_slotVars PROVE SlotsInv'
    OBVIOUS
  <2>1. CASE UNCHANGED slotVars
    BY <2>1 DEF SlotsInv, SlotTypes, InLine, NoSlotIsWasted, AtStep, slotVars
  <2>2. CASE SlotsNext
    BY <2>2, AcquireKeeps, ResumeKeeps, ReleaseKeeps DEF SlotsNext, SlotStep
  <2> QED BY <2>1, <2>2
<1>3. SlotsInv => NoSlotIsWasted
  BY DEF SlotsInv
<1> QED BY <1>1, <1>2, <1>3, PTL DEF SlotsSpec

-----------------------------------------------------------------------------
(* Files.  Every agent's step tells what it has seen of the file, and that  *)
(* stays true: the cold file goes only when Kubo has the content, the hot   *)
(* one only when there is a cold one.                                       *)

AgentSteps == {"idle", "asking", "queued", "look", "lookhot", "fetch", "rename",
               "promote", "link", "copy", "copying", "loose", "discard", "stat",
               "done", "failed"}

FilesTypes ==
    /\ setup \in Setup
    /\ hot \in {"absent", "whole", "linked", "torn"}
    /\ cold \in {"absent", "whole", "torn"}
    /\ copier \in Agents \cup {Unheld}
    /\ agent \in [Agents -> AgentSteps]
    /\ blocks \in BOOLEAN /\ fetched \in BOOLEAN /\ cut \in BOOLEAN
    /\ mishaps \in Nat

\* The file is in cold storage, or need not be.
Stored == cold # "absent" \/ blocks

TornIsCopied ==
    /\ cold = "torn" => copier # Unheld \/ cut
    /\ hot = "torn" => cut
    /\ hot = "linked" => cold # "absent" /\ (cold = "torn" => cut)

Witnessed ==
    /\ \A x \in Agents : agent[x] \in {"copying", "loose", "discard", "stat", "done"} => Stored
    /\ \A x \in Agents : agent[x] \in {"promote", "link", "copy"} => hot # "absent" \/ Stored

FilesInv == FilesTypes /\ TornIsCopied /\ Witnessed /\ FetchedIsKept /\ FailureIsHarmless

LEMMA FilesInvSuffices == FilesInv => FilesKept
BY DEF FilesInv, FilesKept, FilesTypes, TornIsCopied, Witnessed, Stored, SavedIsWhole,
       Agents, Node

LEMMA FilesInitHolds == FilesInit => FilesInv
<1> SUFFICES ASSUME FilesInit PROVE FilesInv
  OBVIOUS
<1>1. FilesTypes
  BY FilesAssumption DEF FilesInit, FilesTypes, AgentSteps, Setup
<1>2. \A c \in Callers : agent[Node(c)] = "idle"
  BY DEF FilesInit, Agents, Node
<1> QED BY <1>1, <1>2 DEF FilesInit, FilesInv, TornIsCopied, Witnessed, FetchedIsKept,
                          FailureIsHarmless

\* A step of one agent: what its new step witnesses has to hold, and nothing
\* that others have seen may go.
LEMMA AgentMoves ==
    ASSUME FilesInv, FilesTypes', TornIsCopied', FetchedIsKept',
           NEW x \in Agents, NEW to \in AgentSteps, agent' = [agent EXCEPT ![x] = to],
           mishaps' = mishaps \/ mishaps' # 0,
           Stored => Stored', hot # "absent" => hot' # "absent" \/ Stored',
           to \in {"copying", "loose", "discard", "stat", "done"} => Stored',
           to \in {"promote", "link", "copy"} => hot' # "absent" \/ Stored',
           x.side = "node" /\ to = "failed" => mishaps' # 0 \/ Stored'
    PROVE  FilesInv'
<1>1. \A y \in Agents : agent'[y] = IF y = x THEN to ELSE agent[y]
  BY DEF FilesInv, FilesTypes
<1>2. Witnessed'
  BY <1>1 DEF FilesInv, Witnessed
<1>3. FailureIsHarmless'
  <2> SUFFICES ASSUME mishaps' = 0, NEW c \in Callers, agent'[Node(c)] = "failed"
               PROVE  Stored'
    BY DEF FailureIsHarmless, Stored
  <2>1. Node(c) \in Agents /\ Node(c).side = "node"
    BY DEF Agents, Node
  <2>2. CASE Node(c) = x
    BY <1>1, <2>1, <2>2
  <2>3. CASE Node(c) # x
    BY <1>1, <2>1, <2>3 DEF FilesInv, FailureIsHarmless, Stored
  <2> QED BY <2>2, <2>3
<1> QED BY <1>2, <1>3 DEF FilesInv

\* The steps of an agent that leave the files alone.
LEMMA LookingKeeps ==
    ASSUME FilesInv, NEW x \in Agents,
           \/ LookCold(x) \/ LookHot(x) \/ FetchSource(x) \/ CheckCold(x) \/ StatCold(x)
    PROVE  FilesInv'
<1> USE DEF FilesInv
<1>1. UNCHANGED <<setup, hot, cold, copier, fetched, blocks, cut>>
  BY DEF LookCold, LookHot, FetchSource, CheckCold, StatCold, files, rest
<1>2. mishaps' \in Nat /\ (mishaps' = mishaps \/ mishaps' # 0)
  BY DEF LookCold, LookHot, FetchSource, CheckCold, StatCold, rest, Mishap, FilesTypes
<1>3. x.side \in {"node", "rust"}
  BY DEF Agents
<1>4. PICK to \in AgentSteps :
          /\ agent' = [agent EXCEPT ![x] = to]
          /\ to \in {"copying", "loose", "discard", "stat", "done"} => Stored
          /\ to \in {"promote", "link", "copy"} => hot # "absent" \/ Stored
          /\ x.side = "node" /\ to = "failed" => mishaps' # 0 \/ Stored
  <2>1. CASE LookCold(x)
    BY <1>3, <2>1 DEF LookCold, Step, AgentSteps, Stored
  <2>2. CASE LookHot(x)
    BY <2>2 DEF LookHot, Step, AgentSteps
  <2>3. CASE FetchSource(x)
    <3>1. agent' = [agent EXCEPT ![x] = "rename"] \/
             (agent' = [agent EXCEPT ![x] = "failed"] /\ mishaps' # 0)
      BY <2>3 DEF FetchSource, Step, Mishap, FilesTypes
    <3> QED BY <3>1 DEF AgentSteps
  <2>4. CASE CheckCold(x)
    BY <2>4 DEF CheckCold, Step, AgentSteps, Stored, Witnessed
  <2>5. CASE StatCold(x)
    <3>1. agent[x] = "stat" /\ Stored
      BY <2>5 DEF StatCold, Step, Witnessed
    <3>2. agent' = [agent EXCEPT ![x] = "done"] \/ agent' = [agent EXCEPT ![x] = "failed"]
      BY <2>5 DEF StatCold, Step
    <3> QED BY <3>1, <3>2 DEF AgentSteps
  <2> QED BY <2>1, <2>2, <2>3, <2>4, <2>5
<1>5. FilesTypes'
  BY <1>1, <1>2, <1>4 DEF FilesTypes
<1>6. TornIsCopied' /\ FetchedIsKept' /\ (Stored' <=> Stored)
  BY <1>1 DEF TornIsCopied, FetchedIsKept, Stored
<1> QED BY <1>1, <1>2, <1>4, <1>5, <1>6, AgentMoves

\* Downloads, links and copies.
LEMMA RenameTempKeeps ==
    ASSUME FilesInv, NEW x \in Agents, RenameTemp(x)
    PROVE  FilesInv'
<1> USE DEF FilesInv
<1>1. /\ agent' = [agent EXCEPT ![x] = "promote"] /\ hot' = "whole" /\ fetched' = TRUE
      /\ UNCHANGED <<setup, cold, copier, blocks, cut, mishaps>>
  BY DEF RenameTemp, Step, rest
<1>2. FilesTypes' /\ "promote" \in AgentSteps
  BY <1>1 DEF FilesTypes, AgentSteps
<1>3. TornIsCopied' /\ FetchedIsKept' /\ (Stored' <=> Stored) /\ hot' # "absent"
  BY <1>1 DEF TornIsCopied, FetchedIsKept, Stored
<1> QED BY <1>1, <1>2, <1>3, AgentMoves

LEMMA LinkKeeps ==
    ASSUME FilesInv, NEW x \in Agents, Link(x)
    PROVE  FilesInv'
<1> USE DEF FilesInv
<1>1. agent[x] = "link" /\ UNCHANGED <<setup, copier, fetched, blocks, cut, mishaps>>
  BY DEF Link, Step, rest
<1>2. \/ cold' = cold /\ hot' = hot
      \/ hot # "absent" /\ cold = "absent" /\ cold' = hot /\ hot' = "linked"
  BY DEF Link
<1>3. PICK to \in {"copy", "discard"} :
          agent' = [agent EXCEPT ![x] = to] /\ (to = "discard" => Stored')
  BY DEF Link, Step, Stored, FilesTypes
<1>4. cold' \in {"absent", "whole", "torn"} /\ hot' \in {"absent", "whole", "linked", "torn"}
  BY <1>2 DEF FilesTypes, TornIsCopied
<1>5. FilesTypes' /\ to \in AgentSteps
  BY <1>1, <1>3, <1>4 DEF FilesTypes, AgentSteps
<1>6. TornIsCopied' /\ FetchedIsKept'
  BY <1>1, <1>2, <1>4 DEF TornIsCopied, FetchedIsKept, FilesTypes
<1>7. (Stored => Stored') /\ (hot # "absent" => hot' # "absent")
  BY <1>1, <1>2 DEF Stored
<1>8. hot # "absent" \/ Stored
  BY <1>1 DEF Witnessed
<1> QED BY <1>1, <1>3, <1>5, <1>6, <1>7, <1>8, AgentMoves

LEMMA OpenCopyKeeps ==
    ASSUME FilesInv, NEW x \in Agents, OpenCopy(x)
    PROVE  FilesInv'
<1> USE DEF FilesInv
<1>1. UNCHANGED <<setup, hot, fetched, blocks, mishaps>> /\ agent[x] = "copy"
  BY DEF OpenCopy, Step
<1>2. hot # "absent" \/ Stored
  BY <1>1 DEF Witnessed
<1>3. CASE hot = "absent"
  <2>1. agent' = [agent EXCEPT ![x] = "failed"] /\ UNCHANGED <<cold, copier, cut>>
    BY <1>3 DEF OpenCopy, Step
  <2>2. FilesTypes' /\ "failed" \in AgentSteps
    BY <1>1, <2>1 DEF FilesTypes, AgentSteps
  <2>3. TornIsCopied' /\ FetchedIsKept' /\ Stored'
    BY <1>1, <1>2, <1>3, <2>1 DEF TornIsCopied, FetchedIsKept, Stored
  <2> QED BY <1>1, <1>3, <2>1, <2>2, <2>3, AgentMoves
<1>4. CASE hot = "linked"
  <2>1. /\ agent' = [agent EXCEPT ![x] = "discard"] /\ copier' = copier
        /\ \/ cold' = cold /\ cut' = cut
           \/ cold' = "torn" /\ cut' = TRUE
    BY <1>4 DEF OpenCopy, Step, FilesTypes
  <2>2. FilesTypes' /\ "discard" \in AgentSteps
    BY <1>1, <2>1 DEF FilesTypes, AgentSteps
  <2>3. TornIsCopied' /\ FetchedIsKept' /\ Stored'
    BY <1>1, <1>4, <2>1 DEF TornIsCopied, FetchedIsKept, Stored
  <2> QED BY <1>1, <1>4, <2>1, <2>2, <2>3, AgentMoves
<1>5. CASE hot \notin {"absent", "linked"}
  <2>1. /\ agent' = [agent EXCEPT ![x] = "copying"]
        /\ cold' = "torn" /\ copier' = x /\ cut' = cut
    BY <1>5 DEF OpenCopy, Step
  <2>2. FilesTypes' /\ "copying" \in AgentSteps
    BY <1>1, <2>1 DEF FilesTypes, AgentSteps
  <2>3. TornIsCopied' /\ FetchedIsKept' /\ Stored'
    BY <1>1, <1>5, <2>1, FilesAssumption DEF TornIsCopied, FetchedIsKept, Stored
  <2> QED BY <1>1, <1>5, <2>1, <2>2, <2>3, AgentMoves
<1> QED BY <1>3, <1>4, <1>5

LEMMA FinishKeeps ==
    ASSUME FilesInv, NEW x \in Agents, FinishCopy(x) \/ FinishLooseCopy(x)
    PROVE  FilesInv'
<1> USE DEF FilesInv
<1>1. PICK to \in {"discard", "failed"} : agent' = [agent EXCEPT ![x] = to]
  BY DEF FinishCopy, FinishLooseCopy, Step
<1>2. /\ agent[x] \in {"copying", "loose"}
      /\ UNCHANGED <<setup, hot, fetched, blocks, cut, mishaps>>
      /\ \/ copier = x /\ cold' = "whole" /\ copier' = Unheld
         \/ copier # x /\ cold' = cold /\ copier' = copier
  BY DEF FinishCopy, FinishLooseCopy, Step, EndOfCopy, rest
<1>3. FilesTypes' /\ to \in AgentSteps
  BY <1>1, <1>2 DEF FilesTypes, AgentSteps
<1>4. TornIsCopied' /\ FetchedIsKept' /\ Stored'
  BY <1>2 DEF TornIsCopied, FetchedIsKept, Stored, Witnessed
<1> QED BY <1>1, <1>2, <1>3, <1>4, AgentMoves

LEMMA DiscardHotKeeps ==
    ASSUME FilesInv, NEW x \in Agents, DiscardHot(x)
    PROVE  FilesInv'
<1> USE DEF FilesInv
<1>1. /\ agent' = [agent EXCEPT ![x] = "stat"] /\ agent[x] = "discard" /\ hot' = "absent"
      /\ UNCHANGED <<setup, cold, copier, fetched, blocks, cut, mishaps>>
  BY DEF DiscardHot, Step, rest
<1>2. FilesTypes' /\ "stat" \in AgentSteps
  BY <1>1 DEF FilesTypes, AgentSteps
<1>3. TornIsCopied' /\ FetchedIsKept' /\ Stored'
  BY <1>1 DEF TornIsCopied, FetchedIsKept, Stored, Witnessed, FilesTypes
<1> QED BY <1>1, <1>2, <1>3, AgentMoves

\* Requests: nothing of the files changes.
LEMMA RequestKeeps ==
    ASSUME FilesInv, NEW c \in Callers,
           \/ AcceptRequest(c) \/ DropRequest(c) \/ TakeAnswer(c) \/ GiveUpAsking(c)
    PROVE  FilesInv'
<1> USE DEF FilesInv
<1>1. UNCHANGED <<setup, hot, cold, copier, fetched, blocks, cut>>
  BY DEF AcceptRequest, DropRequest, TakeAnswer, GiveUpAsking, files, rest
<1>2. mishaps' \in Nat /\ (mishaps' = mishaps \/ mishaps' # 0)
  BY DEF AcceptRequest, DropRequest, TakeAnswer, GiveUpAsking, rest, Mishap, FilesTypes
<1>3. Node(c) \in Agents /\ Rust(c) \in Agents /\ Rust(c).side = "rust"
  BY DEF Agents, Node, Rust
<1>4. PICK x \in Agents, to \in AgentSteps :
          /\ agent' = [agent EXCEPT ![x] = to]
          /\ to \notin {"promote", "link", "copy"}
          /\ to \in {"copying", "loose", "discard", "stat", "done"} => Stored
          /\ to = "failed" => x.side = "rust"
  <2>1. CASE AcceptRequest(c)
    <3>1. \/ agent' = [agent EXCEPT ![Rust(c)] = "done"] /\ Stored
          \/ agent' = [agent EXCEPT ![Rust(c)] = "look"]
      BY <2>1 DEF AcceptRequest, Step, Stored
    <3> QED BY <1>3, <3>1 DEF AgentSteps
  <2>2. CASE DropRequest(c)
    <3>1. \/ agent' = [agent EXCEPT ![Rust(c)] = "loose"] /\ agent[Rust(c)] = "copying"
          \/ agent' = [agent EXCEPT ![Rust(c)] = "failed"]
      BY <2>2, <1>3 DEF DropRequest, FilesTypes
    <3> QED BY <1>3, <3>1 DEF AgentSteps, Witnessed
  <2>3. CASE TakeAnswer(c)
    <3>1. \/ agent' = [agent EXCEPT ![Node(c)] = "done"] /\ Stored
          \/ agent' = [agent EXCEPT ![Node(c)] = "look"]
      BY <2>3 DEF TakeAnswer, Step, Stored
    <3> QED BY <1>3, <3>1 DEF AgentSteps
  <2>4. CASE GiveUpAsking(c)
    BY <1>3, <2>4 DEF GiveUpAsking, Step, AgentSteps
  <2> QED BY <2>1, <2>2, <2>3, <2>4
<1>5. FilesTypes'
  BY <1>1, <1>2, <1>4 DEF FilesTypes
<1>6. TornIsCopied' /\ FetchedIsKept' /\ (Stored' <=> Stored)
  BY <1>1 DEF TornIsCopied, FetchedIsKept, Stored
<1> QED BY <1>1, <1>2, <1>4, <1>5, <1>6, AgentMoves

LEMMA DownloadFileKeeps ==
    ASSUME FilesInv, NEW c \in Callers, DownloadFile(c)
    PROVE  FilesInv'
<1> USE DEF FilesInv
<1>1. UNCHANGED <<setup, hot, cold, copier, fetched, blocks, cut, mishaps>>
  BY DEF DownloadFile, files, rest
<1>2. /\ agent' \in [Agents -> AgentSteps]
      /\ \A y \in Agents : agent'[y] = agent[y] \/ agent'[y] \in {"asking", "queued", "look"}
  BY DEF DownloadFile, FilesTypes, AgentSteps
<1>3. FilesTypes'
  BY <1>1, <1>2 DEF FilesTypes
<1>4. TornIsCopied' /\ FetchedIsKept' /\ (Stored' <=> Stored)
  BY <1>1 DEF TornIsCopied, FetchedIsKept, Stored
<1>5. Witnessed'
  BY <1>1, <1>2, <1>4 DEF Witnessed
<1>6. FailureIsHarmless'
  BY <1>1, <1>2 DEF FailureIsHarmless, Agents, Node
<1> QED BY <1>3, <1>4, <1>5, <1>6

\* A death breaks off the copies of one program, and the calls with them.
LEMMA KillKeeps ==
    ASSUME FilesInv, NEW side \in {"node", "rust"}, Kill(side)
    PROVE  FilesInv'
<1> USE DEF FilesInv
<1>1. UNCHANGED <<setup, hot, cold, fetched, blocks>> /\ mishaps' \in Nat /\ mishaps' # 0
  BY DEF Kill, Mishap, FilesTypes
<1>2. /\ agent' \in [Agents -> AgentSteps]
      /\ \A y \in Agents : agent'[y] = agent[y] \/ agent'[y] = "failed"
  BY DEF Kill, FilesTypes, AgentSteps
<1>3. \/ cut' = cut /\ copier' = copier
      \/ cut' = TRUE /\ copier' = Unheld
  BY DEF Kill, FilesTypes
<1>4. FilesTypes'
  BY <1>1, <1>2, <1>3 DEF FilesTypes
<1>5. TornIsCopied' /\ FetchedIsKept' /\ (Stored' <=> Stored)
  BY <1>1, <1>3 DEF TornIsCopied, FetchedIsKept, Stored
<1>6. Witnessed'
  BY <1>1, <1>2, <1>5 DEF Witnessed
<1> QED BY <1>1, <1>4, <1>5, <1>6 DEF FailureIsHarmless

\* The content is in Kubo before it goes from cold storage.
LEMMA PinKeeps ==
    ASSUME FilesInv, PinBlocks \/ RemoveCold
    PROVE  FilesInv'
<1> USE DEF FilesInv
<1>1. UNCHANGED <<setup, fetched, agent, cut, mishaps>> /\ blocks' = TRUE
  BY DEF PinBlocks, RemoveCold, files, FilesTypes
<1>2. \/ UNCHANGED <<hot, cold, copier>>
      \/ /\ cold' = "absent" /\ copier' = Unheld
         /\ hot' = IF hot = "linked" THEN cold ELSE hot
  BY DEF PinBlocks, RemoveCold, files
<1>3. FilesTypes'
  BY <1>1, <1>2 DEF FilesTypes
<1>4. TornIsCopied'
  <2>1. CASE UNCHANGED <<hot, cold, copier>>
    BY <1>1, <2>1 DEF TornIsCopied
  <2>2. CASE hot = "linked" /\ cold = "torn"
    BY <1>1, <1>2, <2>2 DEF TornIsCopied
  <2> QED BY <1>1, <1>2, <2>1, <2>2 DEF TornIsCopied, FilesTypes
<1> QED BY <1>1, <1>3, <1>4 DEF Witnessed, Stored, FetchedIsKept, FailureIsHarmless

\* Downloads in both programs, deaths and the pin: what was saved is kept.
THEOREM FilesKeptHolds == FilesSpec => []FilesKept
<1>1. FilesInv /\ [FilesNext]_filesVars => FilesInv'
  <2> SUFFICES ASSUME FilesInv, [FilesNext]_filesVars PROVE FilesInv'
    OBVIOUS
  <2>1. ASSUME UNCHANGED <<setup, hot, cold, copier, agent, blocks, fetched, cut, mishaps>>
        PROVE  FilesInv'
    BY <2>1 DEF FilesInv, FilesTypes, TornIsCopied, Witnessed, Stored, FetchedIsKept,
                FailureIsHarmless
  <2>2. CASE \E x \in Agents : FileStep(x)
    BY <2>2, LookingKeeps, RenameTempKeeps, LinkKeeps, OpenCopyKeeps, FinishKeeps,
       DiscardHotKeeps DEF FileStep
  <2>3. CASE \E c \in Callers : ReleaseKey(c)
    BY <2>1, <2>3 DEF ReleaseKey, files, rest
  <2>4. CASE EndCooldown
    BY <2>1, <2>4 DEF EndCooldown, files, rest
  <2>5. CASE UNCHANGED filesVars
    BY <2>1, <2>5 DEF filesVars
  <2> QED BY <2>2, <2>3, <2>4, <2>5, RequestKeeps, DownloadFileKeeps, KillKeeps, PinKeeps
          DEF FilesNext
<1> QED BY FilesInitHolds, <1>1, FilesInvSuffices, PTL DEF FilesSpec

-----------------------------------------------------------------------------
(* Readers.  Before a tree is removed its DAG is in Kubo, and nothing that  *)
(* Kubo has goes away: so a visitor who could be served when asking can be  *)
(* served by the source in hand or by one that is still to come.            *)

SomeCid == Cids \cup {CHOOSE c \in Cids : TRUE}
Move == [step : {"idle", "look", "list", "send", "compare", "unpin", "remove"},
         cid : SomeCid, todo : SUBSET Cids, names : SUBSET Files]
VisitSteps == {"idle", "local", "relay", "kubo", "public", "served", "missing"}
Visit == [step : VisitSteps, cid : SomeCid, file : Files \cup {CHOOSE f \in Files : TRUE},
          sure : BOOLEAN]

MoversAreTyped ==
    /\ mover \in [Movers -> Move]
    /\ \A m \in Movers : mover[m].step # "idle" => mover[m].cid \in Cids
    /\ tree \in [Cids -> SUBSET Files]
    /\ hydrator \in [Cids -> [step : {"idle", "download"}, names : SUBSET Files]]
    /\ site \in Site

VisitorsAreTyped ==
    /\ visitor \in [Visitors -> Visit]
    /\ \A v \in Visitors : visitor[v].step # "idle" => visitor[v].cid \in Cids

PinsAreThere == pins \subseteq dags

\* What a mover has been told by Kubo.
MoversAreRight ==
    \A m \in Movers :
        /\ MoverAt(m, "compare") => Added(m) \in dags
        /\ MoverAt(m, "remove") => DagOf(mover[m].cid) \in dags

VisitorsAreServed ==
    \A v \in Visitors : visitor[v].sure =>
        LET there == DagOf(visitor[v].cid) \in dags IN
        /\ visitor[v].step = "local" => visitor[v].file \in tree[visitor[v].cid] \/ there
        /\ visitor[v].step \in {"relay", "kubo"} => there
        /\ visitor[v].step \notin {"public", "missing"}

ReadersInv == /\ MoversAreTyped /\ VisitorsAreTyped /\ PinsAreThere
              /\ MoversAreRight /\ VisitorsAreServed

LEMMA SourcesInOrder ==
    /\ Head(Sources) = "local"
    /\ NextSource("local") = "relay" /\ NextSource("relay") = "kubo"
    /\ NextSource("kubo") = "public" /\ NextSource("public") = "missing"
<1>1. /\ Len(Sources) = 4 /\ DOMAIN Sources = 1..4
      /\ Sources[1] = "local" /\ Sources[2] = "relay"
      /\ Sources[3] = "kubo" /\ Sources[4] = "public"
  BY DEF Sources
<1>2. ASSUME NEW n \in 1..4
      PROVE  (CHOOSE i \in DOMAIN Sources : Sources[i] = Sources[n]) = n
  BY <1>1
<1>3. \A n \in 1..4 : NextSource(Sources[n]) = IF n = 4 THEN "missing" ELSE Sources[n + 1]
  BY <1>1, <1>2 DEF NextSource
<1> QED BY <1>1, <1>3 DEF Sources

LEMMA GatewayInitHolds == GatewayInit => ReadersInv
<1> SUFFICES ASSUME GatewayInit PROVE ReadersInv
  OBVIOUS
<1>1. site \in Site
  BY GatewayAssumption DEF GatewayInit
<1>2. tree \in [Cids -> SUBSET Files]
  BY <1>1 DEF GatewayInit, Site
<1> DEFINE c0 == CHOOSE c \in Cids : TRUE
<1> DEFINE f0 == CHOOSE f \in Files : TRUE
<1>3. /\ NoMove = [step |-> "idle", cid |-> c0, todo |-> {}, names |-> {}]
      /\ NoVisit = [step |-> "idle", cid |-> c0, file |-> f0, sure |-> FALSE]
  BY DEF NoMove, NoVisit
<1>4. SomeCid = Cids \cup {c0} /\ Visit = [step : VisitSteps, cid : SomeCid,
                                           file : Files \cup {f0}, sure : BOOLEAN]
  BY DEF SomeCid, Visit
<1> HIDE DEF c0, f0
<1>5. MoversAreTyped
  BY <1>1, <1>2, <1>3, <1>4 DEF GatewayInit, MoversAreTyped, Move, NoHydration
<1>6. VisitorsAreTyped
  BY <1>3, <1>4 DEF GatewayInit, VisitorsAreTyped, VisitSteps
<1> QED BY <1>3, <1>5, <1>6 DEF GatewayInit, ReadersInv, PinsAreThere, MoversAreRight,
                                MoverAt, VisitorsAreServed

\* A step of a mover that leaves the tree alone: what it has been told is
\* still so, for Kubo forgets nothing.
LEMMA MoverMoves ==
    ASSUME ReadersInv, NEW m \in Movers, NEW move \in Move,
           mover' = [mover EXCEPT ![m] = move],
           move.step # "idle" => move.cid \in Cids,
           move.step = "compare" => Added(m)' \in dags',
           move.step = "remove" => DagOf(move.cid) \in dags',
           dags \subseteq dags', pins' \subseteq dags',
           tree' \in [Cids -> SUBSET Files],
           \A c \in Cids : tree'[c] = tree[c] \/ DagOf(c) \in dags,
           UNCHANGED <<site, hydrator, visitor>>
    PROVE  ReadersInv'
<1> USE DEF ReadersInv
<1>1. \A n \in Movers : mover'[n] = IF n = m THEN move ELSE mover[n]
  BY DEF MoversAreTyped
<1>2. MoversAreTyped' /\ VisitorsAreTyped' /\ PinsAreThere'
  BY <1>1 DEF MoversAreTyped, VisitorsAreTyped, PinsAreThere
<1>3. \A c : DagOf(c)' = DagOf(c)
  BY DEF DagOf
<1>4. \A n \in Movers : n # m => Added(n)' = Added(n)
  BY <1>1 DEF Added
<1>5. MoversAreRight'
  BY <1>1, <1>3, <1>4 DEF MoversAreRight, MoverAt
<1>6. VisitorsAreServed'
  BY <1>3 DEF VisitorsAreServed, VisitorsAreTyped
<1> QED BY <1>2, <1>5, <1>6

LEMMA MoverStepKeeps ==
    ASSUME ReadersInv, NEW m \in Movers, MoverStep(m) \/ Restart(m)
    PROVE  ReadersInv'
<1> USE DEF ReadersInv
<1> DEFINE old == mover[m]
           Stepped(step) == [old EXCEPT !.step = step]
<1>1. /\ old \in Move /\ (old.step # "idle" => old.cid \in Cids)
      /\ tree \in [Cids -> SUBSET Files]
  BY DEF MoversAreTyped
<1>2. CASE Send(m) \/ Unpin(m)
  <2>1. /\ UNCHANGED <<site, tree, hydrator, visitor>>
        /\ old.step \in {"send", "unpin"}
    BY <1>2 DEF Send, Unpin, MoverAt
  <2>2. /\ dags \subseteq dags' /\ pins' \subseteq dags'
        /\ \/ mover' = [mover EXCEPT ![m].step = "compare"] /\ Added(m) \in dags'
           \/ mover' = [mover EXCEPT ![m].step = "idle", ![m].names = {}]
    BY <1>2 DEF Send, Unpin, Finished, PinsAreThere
  <2>3. CASE mover' = [mover EXCEPT ![m].step = "compare"] /\ Added(m) \in dags'
    <3> DEFINE move == Stepped("compare")
    <3>1. /\ move \in Move /\ move.step = "compare" /\ move.cid = old.cid
          /\ mover' = [mover EXCEPT ![m] = move]
          /\ mover'[m].names = old.names /\ mover'[m].cid = old.cid
      BY <1>1, <2>3 DEF Move, MoversAreTyped
    <3>2. Added(m)' = Added(m) /\ old.cid \in Cids
      BY <1>1, <2>1, <3>1 DEF Added
    <3>3. move.step # "remove" /\ move.cid \in Cids /\ Added(m)' \in dags'
      BY <2>3, <3>1, <3>2
    <3>4. tree' \in [Cids -> SUBSET Files] /\ \A c \in Cids : tree'[c] = tree[c]
      BY <1>1, <2>1
    <3> HIDE DEF move, old
    <3> QED BY <2>1, <2>2, <3>1, <3>3, <3>4, MoverMoves
  <2>4. CASE mover' = [mover EXCEPT ![m].step = "idle", ![m].names = {}]
    <3> DEFINE move == [old EXCEPT !.step = "idle", !.names = {}]
    <3>1. move \in Move /\ move.step = "idle" /\ mover' = [mover EXCEPT ![m] = move]
      BY <1>1, <2>4 DEF Move, MoversAreTyped
    <3> HIDE DEF move
    <3> HIDE DEF old
    <3> QED BY <2>1, <2>2, <3>1, MoverMoves DEF MoversAreTyped, PinsAreThere
  <2> QED BY <2>2, <2>3, <2>4
<1>3. CASE RemoveTree(m)
  <2> DEFINE move == [old EXCEPT !.step = "idle", !.names = {}]
  <2>1. /\ UNCHANGED <<site, pins, dags, hydrator, visitor>>
        /\ old.step = "remove" /\ DagOf(old.cid) \in dags
        /\ mover' = [mover EXCEPT ![m].step = "idle", ![m].names = {}]
    BY <1>3 DEF RemoveTree, MoverAt, Finished, MoversAreRight
  <2>2. PICK left \in SUBSET tree[old.cid] : tree' = [tree EXCEPT ![old.cid] = left]
    BY <1>3 DEF RemoveTree
  <2>3. tree' \in [Cids -> SUBSET Files] /\ \A c \in Cids : c # old.cid => tree'[c] = tree[c]
    BY <1>1, <2>1, <2>2
  <2>4. move \in Move /\ move.step = "idle" /\ mover' = [mover EXCEPT ![m] = move]
    BY <1>1, <2>1 DEF Move, MoversAreTyped
  <2> HIDE DEF move
  <2> QED BY <2>1, <2>3, <2>4, MoverMoves DEF PinsAreThere
<1>4. CASE NewPass(m) \/ Take(m) \/ LookForPin(m) \/ ListTree(m) \/ Compare(m) \/ Restart(m)
  <2>1. UNCHANGED <<site, tree, pins, dags, hydrator, visitor>>
    BY <1>4 DEF NewPass, Take, LookForPin, ListTree, Compare, Restart, MoverOnly
  <2>8. /\ dags \subseteq dags' /\ pins' \subseteq dags' /\ tree' \in [Cids -> SUBSET Files]
        /\ \A c \in Cids : tree'[c] = tree[c]
    BY <1>1, <2>1 DEF PinsAreThere
  <2>2. CASE NewPass(m)
    <3> DEFINE move == [old EXCEPT !.todo = Cids]
    <3>1. move \in Move /\ move.step = "idle" /\ mover' = [mover EXCEPT ![m] = move]
      BY <1>1, <2>2 DEF NewPass, MoversAreTyped, Move
    <3> QED BY <1>1, <2>1, <3>1, MoverMoves DEF PinsAreThere
  <2>3. CASE Take(m)
    <3>0. PICK c \in mover[m].todo :
              mover' = [mover EXCEPT ![m].cid = c, ![m].todo = @ \ {c},
                            ![m].step = IF m \in Scripts /\ tree[c] = {} THEN "idle" ELSE "look"]
      BY <2>3, Zenon DEF Take
    <3> DEFINE s == IF m \in Scripts /\ tree[c] = {} THEN "idle" ELSE "look"
    <3>1. /\ s \in {"idle", "look"}
          /\ mover' = [mover EXCEPT ![m].cid = c, ![m].todo = @ \ {c}, ![m].step = s]
      BY <3>0, Zenon
    <3> HIDE DEF s
    <3> DEFINE move == [old EXCEPT !.cid = c, !.todo = @ \ {c}, !.step = s]
    <3>2. /\ move \in Move /\ move.step = s /\ move.cid \in Cids
          /\ mover' = [mover EXCEPT ![m] = move]
      BY <1>1, <3>1 DEF Move, SomeCid, MoversAreTyped
    <3> HIDE DEF move, old
    <3> QED BY <2>1, <2>8, <3>1, <3>2, MoverMoves
  <2>4. CASE LookForPin(m)
    <3>1. PICK s \in {"remove", "list"} : /\ mover' = [mover EXCEPT ![m].step = s]
                                          /\ s = "remove" => DagOf(old.cid) \in pins
      BY <2>4 DEF LookForPin
    <3>2. old.cid \in Cids
      BY <1>1, <2>4 DEF LookForPin, MoverAt
    <3> DEFINE move == Stepped(s)
    <3>3. /\ move \in Move /\ move.step = s /\ move.cid = old.cid
          /\ mover' = [mover EXCEPT ![m] = move]
      BY <1>1, <3>1 DEF Move, MoversAreTyped
    <3>4. /\ move.step = "remove" => DagOf(move.cid) \in dags'
          /\ move.step # "compare"
      BY <2>1, <3>1, <3>2, <3>3 DEF PinsAreThere
    <3> HIDE DEF move, old
    <3> QED BY <2>1, <2>8, <3>2, <3>3, <3>4, MoverMoves
  <2>5. CASE ListTree(m)
    <3>1. old.cid \in Cids
      BY <1>1, <2>5 DEF ListTree, MoverAt
    <3>2. PICK s \in {"idle", "send"}, names \in SUBSET Files :
              mover' = [mover EXCEPT ![m].step = s, ![m].names = names]
      BY <1>1, <2>5, <3>1 DEF ListTree, Finished
    <3> DEFINE move == [old EXCEPT !.step = s, !.names = names]
    <3>3. /\ move \in Move /\ move.step = s /\ move.cid = old.cid
          /\ mover' = [mover EXCEPT ![m] = move]
      BY <1>1, <3>2 DEF Move, MoversAreTyped
    <3> QED BY <1>1, <2>1, <3>1, <3>3, MoverMoves DEF PinsAreThere
  <2>6. CASE Compare(m)
    <3>1. PICK s \in {"remove", "unpin"} :
              /\ mover' = [mover EXCEPT ![m].step = s]
              /\ s = "remove" => Added(m) = DagOf(old.cid)
      BY <2>6 DEF Compare
    <3>2. old.cid \in Cids /\ Added(m) \in dags
      BY <1>1, <2>6 DEF Compare, MoverAt, MoversAreRight
    <3> DEFINE move == Stepped(s)
    <3>3. /\ move \in Move /\ move.step = s /\ move.cid = old.cid
          /\ mover' = [mover EXCEPT ![m] = move]
      BY <1>1, <3>1 DEF Move, MoversAreTyped
    <3>4. /\ move.step = "remove" => DagOf(move.cid) \in dags'
          /\ move.step # "compare"
      BY <2>1, <3>1, <3>2, <3>3 DEF PinsAreThere
    <3> HIDE DEF move, old
    <3> QED BY <2>1, <2>8, <3>2, <3>3, <3>4, MoverMoves
  <2>7. CASE Restart(m)
    <3>1. NoMove \in Move /\ NoMove.step = "idle" /\ mover' = [mover EXCEPT ![m] = NoMove]
      BY <2>7 DEF Restart, NoMove, Move, SomeCid
    <3> QED BY <1>1, <2>1, <3>1, MoverMoves DEF PinsAreThere
  <2> QED BY <1>4, <2>2, <2>3, <2>4, <2>5, <2>6, <2>7
<1> QED BY <1>2, <1>3, <1>4 DEF MoverStep

\* A directory that is completed only grows.
LEMMA HydrationKeeps ==
    ASSUME ReadersInv, NEW c \in Cids, ListLinks(c) \/ DownloadSibling(c)
    PROVE  ReadersInv'
<1> USE DEF ReadersInv
<1>1. UNCHANGED <<site, pins, dags, mover, visitor>>
  BY DEF ListLinks, DownloadSibling
<1>2. /\ tree' \in [Cids -> SUBSET Files]
      /\ \A d \in Cids : tree[d] \subseteq tree'[d]
      /\ hydrator' \in [Cids -> [step : {"idle", "download"}, names : SUBSET Files]]
  <2>1. CASE ListLinks(c)
    <3>1. site.holds[c] \subseteq Files
      BY DEF MoversAreTyped, Site
    <3>2. PICK names \in SUBSET Files :
              /\ hydrator' = [hydrator EXCEPT ![c] = [step |-> "download", names |-> names]]
              /\ tree' = tree
      BY <2>1, <3>1 DEF ListLinks, Lacking
    <3> QED BY <3>2 DEF MoversAreTyped
  <2>2. CASE DownloadSibling(c)
    <3>1. PICK f \in hydrator[c].names :
              /\ hydrator' = [hydrator EXCEPT ![c].names = @ \ {f}]
              /\ tree' = [tree EXCEPT ![c] = @ \cup {f}] \/ tree' = tree
      BY <2>2 DEF DownloadSibling
    <3>2. f \in Files
      BY <3>1 DEF MoversAreTyped
    <3> QED BY <3>1, <3>2 DEF MoversAreTyped
  <2> QED BY <2>1, <2>2
<1>3. MoversAreTyped' /\ VisitorsAreTyped' /\ PinsAreThere'
  BY <1>1, <1>2 DEF MoversAreTyped, VisitorsAreTyped, PinsAreThere
<1>4. \A d : DagOf(d)' = DagOf(d)
  BY <1>1 DEF DagOf
<1>5. \A m \in Movers : Added(m)' = Added(m)
  BY <1>1 DEF Added
<1>6. MoversAreRight'
  BY <1>1, <1>4, <1>5 DEF MoversAreRight, MoverAt
<1>7. VisitorsAreServed'
  BY <1>1, <1>2, <1>4 DEF VisitorsAreServed, VisitorsAreTyped, VisitSteps, Visit
<1> QED BY <1>3, <1>6, <1>7

\* A step of a request that leads it to what serves it.
LEMMA VisitorMoves ==
    ASSUME ReadersInv, NEW v \in Visitors, NEW visit \in Visit,
           visitor' = [visitor EXCEPT ![v] = visit],
           visit.step # "idle" => visit.cid \in Cids,
           visit.sure =>
               LET there == DagOf(visit.cid) \in dags IN
               /\ visit.step = "local" => visit.file \in tree[visit.cid] \/ there
               /\ visit.step \in {"relay", "kubo"} => there
               /\ visit.step \notin {"public", "missing"},
           UNCHANGED <<site, tree, pins, dags, mover, hydrator>>
    PROVE  ReadersInv'
<1> USE DEF ReadersInv
<1>1. \A w \in Visitors : visitor'[w] = IF w = v THEN visit ELSE visitor[w]
  BY DEF VisitorsAreTyped
<1>2. MoversAreTyped' /\ PinsAreThere'
  BY DEF MoversAreTyped, PinsAreThere
<1>3. VisitorsAreTyped'
  BY <1>1 DEF VisitorsAreTyped
<1>4. \A d : DagOf(d)' = DagOf(d)
  BY DEF DagOf
<1>5. \A m \in Movers : Added(m)' = Added(m)
  BY DEF Added
<1>6. MoversAreRight'
  BY <1>4, <1>5 DEF MoversAreRight, MoverAt
<1>7. VisitorsAreServed'
  BY <1>1, <1>4 DEF VisitorsAreServed
<1> QED BY <1>2, <1>3, <1>6, <1>7

LEMMA VisitorStepKeeps ==
    ASSUME ReadersInv, NEW v \in Visitors, Ask(v) \/ VisitorStep(v)
    PROVE  ReadersInv'
<1> USE DEF ReadersInv
<1> DEFINE old == visitor[v]
<1>1. /\ UNCHANGED <<site, tree, pins, dags, mover, hydrator>>
      /\ old \in Visit /\ (old.step # "idle" => old.cid \in Cids)
  BY DEF Ask, VisitorStep, ReadLocal, TryRelay, TryKubo, TryPublic, VisitorsAreTyped
<1>2. CASE Ask(v)
  <2>1. PICK c \in Cids : \E f \in site.holds[c] :
            visitor' = [visitor EXCEPT ![v] = [step |-> Head(Sources), cid |-> c, file |-> f,
                           sure |-> f \in tree[c] \/ DagOf(c) \in dags]]
    BY <1>2 DEF Ask
  <2>2. PICK f \in site.holds[c] :
            visitor' = [visitor EXCEPT ![v] = [step |-> Head(Sources), cid |-> c, file |-> f,
                           sure |-> f \in tree[c] \/ DagOf(c) \in dags]]
    BY <2>1
  <2> DEFINE visit == [step |-> "local", cid |-> c, file |-> f,
                       sure |-> f \in tree[c] \/ DagOf(c) \in dags]
  <2>3. f \in Files
    BY <2>2 DEF MoversAreTyped, Site
  <2>4. visit \in Visit
    BY <2>3 DEF Visit, VisitSteps, SomeCid
  <2>5. visitor' = [visitor EXCEPT ![v] = visit]
    BY <2>2, SourcesInOrder
  <2>6. visit.step = "local" /\ visit.cid = c
        /\ (visit.sure => visit.file \in tree[visit.cid] \/ DagOf(visit.cid) \in dags)
    OBVIOUS
  <2> HIDE DEF visit
  <2> QED BY <1>1, <2>4, <2>5, <2>6, VisitorMoves
<1>3. ASSUME NEW step \in VisitSteps, visitor' = [visitor EXCEPT ![v].step = step],
             old.step # "idle",
             old.sure =>
                 /\ step # "local"
                 /\ step \in {"relay", "kubo"} => DagOf(old.cid) \in dags
                 /\ step \notin {"public", "missing"}
      PROVE  ReadersInv'
  <2> DEFINE visit == [old EXCEPT !.step = step]
  <2>1. /\ visit \in Visit /\ visit.step = step /\ visit.cid = old.cid /\ visit.sure = old.sure
        /\ visitor' = [visitor EXCEPT ![v] = visit]
    BY <1>1, <1>3 DEF Visit, VisitorsAreTyped
  <2>2. visit.sure => /\ visit.step # "local"
                      /\ visit.step \in {"relay", "kubo"} => DagOf(visit.cid) \in dags
                      /\ visit.step \notin {"public", "missing"}
    BY <1>3, <2>1
  <2>3. visit.step # "idle" => visit.cid \in Cids
    BY <1>1, <1>3, <2>1
  <2> HIDE DEF visit, old
  <2> QED BY <1>1, <2>1, <2>2, <2>3, VisitorMoves
<1>4. CASE ReadLocal(v)
  <2>1. \/ Serve(v)
        \/ old.file \notin tree[old.cid] /\ visitor' = [visitor EXCEPT ![v].step = "relay"]
    BY <1>4, SourcesInOrder DEF ReadLocal, Asks, Pass, VisitorsAreTyped
  <2> QED BY <1>3, <1>4, <2>1 DEF Serve, VisitSteps, ReadLocal, Asks, VisitorsAreServed
<1>5. CASE TryRelay(v)
  <2>1. Serve(v) \/ visitor' = [visitor EXCEPT ![v].step = "kubo"]
    BY <1>5, SourcesInOrder DEF TryRelay, Asks, Pass, VisitorsAreTyped
  <2> QED BY <1>3, <1>5, <2>1 DEF Serve, VisitSteps, TryRelay, Asks, VisitorsAreServed
<1>6. CASE TryKubo(v)
  <2>1. CASE Serve(v)
    BY <1>3, <1>6, <2>1 DEF Serve, VisitSteps, TryKubo, Asks
  <2>2. CASE DagOf(old.cid) \notin dags /\ Pass(v)
    <3>1. visitor' = [visitor EXCEPT ![v].step = "public"]
      BY <1>6, <2>2, SourcesInOrder DEF TryKubo, Asks, Pass, VisitorsAreTyped
    <3> QED BY <1>3, <1>6, <2>2, <3>1 DEF VisitSteps, TryKubo, Asks, VisitorsAreServed
  <2>3. CASE visitor' = [visitor EXCEPT ![v].step = NextSource(@), ![v].sure = FALSE]
    <3> DEFINE visit == [old EXCEPT !.step = "public", !.sure = FALSE]
    <3>1. /\ visit \in Visit /\ visit.cid = old.cid /\ ~visit.sure /\ old.step # "idle"
          /\ visitor' = [visitor EXCEPT ![v] = visit]
      BY <1>1, <1>6, <2>3, SourcesInOrder
         DEF TryKubo, Asks, Visit, VisitSteps, VisitorsAreTyped
    <3>2. visit.cid \in Cids
      BY <1>1, <3>1
    <3> HIDE DEF visit, old
    <3> QED BY <1>1, <3>1, <3>2, VisitorMoves
  <2> QED BY <1>6, <2>1, <2>2, <2>3 DEF TryKubo
<1>7. CASE TryPublic(v)
  <2>1. Serve(v) \/ visitor' = [visitor EXCEPT ![v].step = "missing"]
    BY <1>7, SourcesInOrder DEF TryPublic, Asks, Pass, VisitorsAreTyped
  <2> QED BY <1>3, <1>7, <2>1 DEF Serve, VisitSteps, TryPublic, Asks, VisitorsAreServed
<1> QED BY <1>2, <1>4, <1>5, <1>6, <1>7 DEF VisitorStep

\* Movers, hydrations, failures and restarts, however they interleave: a file
\* that the archive had when it was asked for is served.
THEOREM ReadersAreServedHolds == GatewaySpec => []ReadersAreServed
<1>1. ReadersInv /\ [GatewayNext]_gatewayVars => ReadersInv'
  <2> SUFFICES ASSUME ReadersInv, [GatewayNext]_gatewayVars PROVE ReadersInv'
    OBVIOUS
  <2>1. ASSUME UNCHANGED <<site, tree, pins, dags, mover, hydrator, visitor>>
        PROVE  ReadersInv'
    BY <2>1 DEF ReadersInv, MoversAreTyped, VisitorsAreTyped, PinsAreThere, MoversAreRight,
                MoverAt, Added, DagOf, VisitorsAreServed
  <2>2. CASE \E c \in Cids : EndRest(c)
    BY <2>1, <2>2 DEF EndRest
  <2>3. CASE \E s \in Syncs : ReceiveInventory(s) \/ SyncStep(s)
    BY <2>1, <2>3 DEF ReceiveInventory, SyncStep, Upsert, FindStrays, UnpinStrays,
                      CommitInventory, BreakDeadlock, SyncOnly
  <2>4. CASE UNCHANGED gatewayVars
    BY <2>1, <2>4 DEF gatewayVars
  <2> QED BY <2>2, <2>3, <2>4, MoverStepKeeps, HydrationKeeps, VisitorStepKeeps
          DEF GatewayNext
<1>2. ReadersInv => ReadersAreServed
  BY DEF ReadersInv, VisitorsAreServed, ReadersAreServed
<1> QED BY GatewayInitHolds, <1>1, <1>2, PTL DEF GatewaySpec

-----------------------------------------------------------------------------
(* Inventories.  The transaction of an inventory that meets no other finds  *)
(* the routes as the one before has left them, and no row of it is locked.  *)

Syncing == [step : {"idle", "upsert", "upserted", "waiting", "unpinned"},
            items : SUBSET Cids, strays : SUBSET Cids, alone : BOOLEAN]
SyncIdle(s) == sync[s].step = "idle"

RoutesAreTyped ==
    /\ route \in [Cids -> [pinned : BOOLEAN, cooling : BOOLEAN]]
    /\ sync \in [Syncs -> Syncing]
    /\ last \in [items : SUBSET Cids, alone : BOOLEAN]

\* s is the transaction of the last inventory, and the only one.
Follows(s) ==
    /\ ~SyncIdle(s) /\ \A o \in Syncs \ {s} : SyncIdle(o)
    /\ sync[s].items = last.items
    /\ sync[s].step \in {"waiting", "unpinned"} => sync[s].strays = Pinned \ sync[s].items

Settled == (\A s \in Syncs : SyncIdle(s)) /\ Pinned = last.items

RoutesInv == RoutesAreTyped /\ (last.alone => Settled \/ \E s \in Syncs : Follows(s))

\* One transaction goes on to its next statement.
LEMMA SyncMoves ==
    ASSUME RoutesInv, NEW s \in Syncs, NEW next \in Syncing,
           ~SyncIdle(s), sync' = [sync EXCEPT ![s] = next], UNCHANGED last,
           route' \in [Cids -> [pinned : BOOLEAN, cooling : BOOLEAN]],
           Follows(s) => \/ /\ next.step # "idle" /\ next.items = sync[s].items
                            /\ next.step \in {"waiting", "unpinned"} =>
                                   next.strays = Pinned' \ next.items
                         \/ next.step = "idle" /\ Pinned' = sync[s].items
    PROVE  RoutesInv'
<1> USE DEF RoutesInv
<1>1. \A o \in Syncs : sync'[o] = IF o = s THEN next ELSE sync[o]
  BY DEF RoutesAreTyped
<1>2. RoutesAreTyped'
  BY <1>1 DEF RoutesAreTyped
<1>3. ASSUME last.alone PROVE Follows(s)
  BY <1>3 DEF Settled, Follows, SyncIdle
<1>4. Follows(s) => Settled' \/ Follows(s)'
  BY <1>1 DEF Follows, Settled, SyncIdle
<1> QED BY <1>2, <1>3, <1>4

LEMMA SyncStepKeeps ==
    ASSUME RoutesInv, NEW s \in Syncs, SyncStep(s)
    PROVE  RoutesInv'
<1> USE DEF RoutesInv
<1> DEFINE old == sync[s]
           Stepped(step) == [old EXCEPT !.step = step]
<1>1. old \in Syncing /\ UNCHANGED last
      /\ route \in [Cids -> [pinned : BOOLEAN, cooling : BOOLEAN]]
  BY DEF RoutesAreTyped, SyncStep, Upsert, FindStrays, UnpinStrays, CommitInventory,
         BreakDeadlock
<1>2. Pinned \subseteq Cids
  BY DEF Pinned
<1>3. CASE Upsert(s)
  <2> DEFINE next == Stepped("upserted")
  <2>1. /\ next \in Syncing /\ next.step = "upserted" /\ next.items = old.items
        /\ sync' = [sync EXCEPT ![s] = next] /\ ~SyncIdle(s) /\ UNCHANGED route
    BY <1>1, <1>3 DEF Upsert, Syncing, SyncIdle, RoutesAreTyped
  <2> HIDE DEF next
  <2> QED BY <1>1, <2>1, SyncMoves
<1>4. CASE FindStrays(s)
  <2> DEFINE next == [old EXCEPT !.step = "waiting", !.strays = Pinned \ old.items]
  <2>1. /\ next \in Syncing /\ next.step = "waiting" /\ next.items = old.items
        /\ next.strays = Pinned \ old.items
        /\ sync' = [sync EXCEPT ![s] = next] /\ ~SyncIdle(s) /\ UNCHANGED route
    BY <1>1, <1>2, <1>4 DEF FindStrays, Syncing, SyncIdle, RoutesAreTyped
  <2>2. Pinned' = Pinned
    BY <2>1 DEF Pinned
  <2> HIDE DEF next
  <2> QED BY <1>1, <2>1, <2>2, SyncMoves
<1>5. CASE UnpinStrays(s)
  <2> DEFINE next == Stepped("unpinned")
  <2>1. /\ next \in Syncing /\ next.step = "unpinned" /\ next.items = old.items
        /\ next.strays = old.strays /\ old.step = "waiting"
        /\ sync' = [sync EXCEPT ![s] = next] /\ ~SyncIdle(s) /\ UNCHANGED route
    BY <1>1, <1>5 DEF UnpinStrays, Syncing, SyncIdle, RoutesAreTyped
  <2>2. Pinned' = Pinned
    BY <2>1 DEF Pinned
  <2>3. Follows(s) => next.strays = Pinned' \ next.items
    BY <2>1, <2>2 DEF Follows
  <2> HIDE DEF next
  <2> QED BY <1>1, <2>1, <2>3, SyncMoves
<1>6. CASE CommitInventory(s)
  <2>1. /\ NoSync \in Syncing /\ NoSync.step = "idle" /\ old.step = "unpinned"
        /\ sync' = [sync EXCEPT ![s] = NoSync] /\ ~SyncIdle(s)
    BY <1>6 DEF CommitInventory, NoSync, Syncing, SyncIdle
  <2>2. /\ route' \in [Cids -> [pinned : BOOLEAN, cooling : BOOLEAN]]
        /\ \A c \in Cids : route'[c].pinned =
               (c \in old.items \/ (route[c].pinned /\ c \notin old.strays))
    BY <1>1, <1>6 DEF CommitInventory
  <2>3. Pinned' = old.items \cup (Pinned \ old.strays)
    BY <1>1, <2>2 DEF Pinned, Syncing
  <2>4. Follows(s) => Pinned' = old.items
    BY <2>1, <2>3 DEF Follows
  <2> QED BY <1>1, <2>1, <2>2, <2>4, SyncMoves
<1>7. CASE BreakDeadlock(s)
  <2>1. /\ NoSync \in Syncing /\ sync' = [sync EXCEPT ![s] = NoSync]
        /\ ~SyncIdle(s) /\ UNCHANGED route
    BY <1>7 DEF BreakDeadlock, NoSync, Syncing, SyncIdle
  <2>2. ~Follows(s)
    BY <1>7 DEF BreakDeadlock, Follows, SyncIdle
  <2> QED BY <1>1, <2>1, <2>2, SyncMoves
<1> QED BY <1>3, <1>4, <1>5, <1>6, <1>7 DEF SyncStep

LEMMA ReceiveInventoryKeeps ==
    ASSUME RoutesInv, NEW s \in Syncs, ReceiveInventory(s)
    PROVE  RoutesInv'
<1> USE DEF RoutesInv
<1> DEFINE alone == \A o \in Syncs : SyncIdle(o)
<1>1. PICK items \in SUBSET Cids :
          /\ sync' = [o \in Syncs |->
                 IF o = s THEN [step |-> "upsert", items |-> items, strays |-> {},
                                alone |-> alone]
                 ELSE [sync[o] EXCEPT !.alone = FALSE]]
          /\ last' = [items |-> items, alone |-> alone]
  BY DEF ReceiveInventory, SyncIdle
<1>2. route' = route
  BY DEF ReceiveInventory
<1>3. alone \in BOOLEAN
  OBVIOUS
<1>4. RoutesAreTyped'
  <2> HIDE DEF alone
  <2>1. \A o \in Syncs : sync'[o] \in Syncing
    <3> SUFFICES ASSUME NEW o \in Syncs PROVE sync'[o] \in Syncing
      OBVIOUS
    <3>1. sync[o] \in Syncing
      BY DEF RoutesAreTyped
    <3>2. CASE o = s
      BY <1>1, <1>3, <3>2 DEF Syncing
    <3>3. CASE o # s
      BY <1>1, <3>1, <3>3 DEF Syncing
    <3> QED BY <3>2, <3>3
  <2>2. sync' \in [Syncs -> Syncing]
    BY <1>1, <2>1
  <2>3. last' \in [items : SUBSET Cids, alone : BOOLEAN]
    BY <1>1, <1>3
  <2> QED BY <1>2, <2>2, <2>3 DEF RoutesAreTyped
<1>5. ASSUME last'.alone PROVE Follows(s)'
  <2>1. \A o \in Syncs : SyncIdle(o)
    BY <1>1, <1>5
  <2>2. \A o \in Syncs \ {s} : sync'[o].step = sync[o].step
    BY <1>1 DEF RoutesAreTyped, Syncing
  <2> QED BY <1>1, <2>1, <2>2 DEF Follows, SyncIdle
<1> QED BY <1>4, <1>5

\* Inventories that meet or do not meet, while requests cool routes: one that
\* met no other leaves the routes as it listed them.
THEOREM RoutesFollowInventoryHolds == GatewaySpec => []RoutesFollowInventory
<1>1. GatewayInit => RoutesInv
  <2> SUFFICES ASSUME GatewayInit PROVE RoutesInv
    OBVIOUS
  <2>1. RoutesAreTyped
    BY DEF GatewayInit, RoutesAreTyped, NoSync, Syncing
  <2>2. Settled
    BY DEF GatewayInit, Settled, SyncIdle, NoSync, Pinned
  <2> QED BY <2>1, <2>2 DEF RoutesInv
<1>2. RoutesInv /\ [GatewayNext]_gatewayVars => RoutesInv'
  <2> SUFFICES ASSUME RoutesInv, [GatewayNext]_gatewayVars PROVE RoutesInv'
    OBVIOUS
  <2>1. ASSUME UNCHANGED <<sync, last>>,
               route' \in [Cids -> [pinned : BOOLEAN, cooling : BOOLEAN]],
               \A c \in Cids : route'[c].pinned = route[c].pinned
        PROVE  RoutesInv'
    <3>1. Pinned' = Pinned
      BY <2>1 DEF Pinned
    <3> QED BY <2>1, <3>1 DEF RoutesInv, RoutesAreTyped, Settled, Follows, SyncIdle
  <2>2. ASSUME UNCHANGED <<route, sync, last>> PROVE RoutesInv'
    BY <2>1, <2>2 DEF RoutesInv, RoutesAreTyped
  <2>3. ASSUME NEW m \in Movers, MoverStep(m) \/ Restart(m) PROVE RoutesInv'
    <3>1. UNCHANGED <<route, sync, last>>
      <4>1. NewPass(m) \/ Send(m) \/ Unpin(m) \/ RemoveTree(m) => UNCHANGED routeVars
        BY DEF NewPass, Send, Unpin, RemoveTree
      <4>2. Take(m) \/ LookForPin(m) \/ ListTree(m) \/ Compare(m) \/ Restart(m)
                => UNCHANGED routeVars
        BY DEF Take, LookForPin, ListTree, Compare, Restart, MoverOnly
      <4> QED BY <2>3, <4>1, <4>2 DEF MoverStep, routeVars
    <3> QED BY <2>2, <3>1
  <2>4. ASSUME NEW c \in Cids, ListLinks(c) \/ DownloadSibling(c) PROVE RoutesInv'
    BY <2>2, <2>4 DEF ListLinks, DownloadSibling, routeVars
  <2>5. ASSUME NEW c \in Cids, EndRest(c) PROVE RoutesInv'
    BY <2>1, <2>5 DEF EndRest, RoutesInv, RoutesAreTyped
  <2>6. ASSUME NEW v \in Visitors, Ask(v) \/ ReadLocal(v) \/ TryKubo(v) \/ TryPublic(v)
        PROVE  RoutesInv'
    BY <2>2, <2>6 DEF Ask, ReadLocal, TryKubo, TryPublic, routeVars
  <2>7. ASSUME NEW v \in Visitors, TryRelay(v) PROVE RoutesInv'
    <3>1. /\ UNCHANGED <<sync, last>>
          /\ \/ route' = route
             \/ route' = [route EXCEPT ![visitor[v].cid].cooling = TRUE]
      BY <2>7 DEF TryRelay
    <3>2. /\ route' \in [Cids -> [pinned : BOOLEAN, cooling : BOOLEAN]]
          /\ \A c \in Cids : route'[c].pinned = route[c].pinned
      <4>1. route \in [Cids -> [pinned : BOOLEAN, cooling : BOOLEAN]]
        BY DEF RoutesInv, RoutesAreTyped
      <4>2. CASE route' = [route EXCEPT ![visitor[v].cid].cooling = TRUE]
        BY <4>1, <4>2
      <4> QED BY <3>1, <4>1, <4>2
    <3> QED BY <2>1, <3>1, <3>2
  <2>8. CASE UNCHANGED gatewayVars
    BY <2>2, <2>8 DEF gatewayVars, routeVars
  <2> QED BY <2>3, <2>4, <2>5, <2>6, <2>7, <2>8, SyncStepKeeps, ReceiveInventoryKeeps
          DEF GatewayNext, VisitorStep
<1>3. RoutesInv => RoutesFollowInventory
  BY DEF RoutesInv, RoutesFollowInventory, Settled, Follows, SyncIdle
<1> QED BY <1>1, <1>2, <1>3, PTL DEF GatewaySpec
-----------------------------------------------------------------------------
(* Statuses.  What a status says of a root is true once it has become true, *)
(* because content is never given up: so an old copy of a status is as good *)
(* as a new one, and an execution may write what it has read before.        *)

\* A status that is told of root r, which may be NoRoot.
IsTrue(r, status) ==
    IF r \in Roots
    THEN (status = "PINNED" => r \in kubo) /\ (status = "DOWNLOADED" => Held(r))
    ELSE status \notin {"PINNED", "DOWNLOADED"}

RowsAreTrue ==
    \A r \in Roots : /\ row[r].pin = "PINNED" => r \in kubo
                     /\ row[r].backup = "DOWNLOADED" => Held(r)

ShownIsTrue ==
    \A a \in Artworks, t \in Turns : IsTrue(world.roots[a][t], shown[a][t])

\* Between the judgement of a root and its last sync there is a root.
Rooted(a) ==
    \/ exec[a].step \in {"idle", "judge", "conclude", "abort"}
    \/ exec[a].step \in {"sync", "write"} /\ exec[a].after = "conclude"
    \/ Root(a) \in Roots

\* What an execution is about to write.
Knows(a) ==
    /\ Root(a) \in Roots /\ exec[a].step \in {"discard", "pinned", "mark"} =>
          Root(a) \in kubo
    /\ Root(a) \in Roots /\ exec[a].step = "record" => Held(Root(a))
    /\ exec[a].step = "write" =>
          \A b \in DOMAIN exec[a].view, t \in Turns :
              IsTrue(world.roots[b][t], exec[a].view[b][t])
    /\ Rooted(a)
    /\ exec[a].step = "mark" => exec[a].via # "none"
    /\ exec[a].step = "network" => exec[a].via # "none"

StatusInv ==
    /\ TypeOK /\ tier \in Nat /\ RowsAreTrue /\ ShownIsTrue
    /\ \A a \in Artworks : Knows(a)

\* Nothing that is held is given up.
Keeps ==
    /\ world' = world /\ kubo \subseteq kubo'
    /\ disk' \in [Roots -> {"none", "partial", "whole"}]
    /\ \A r \in Roots : Held(r) => Held(r)'

LEMMA KeepsTruth ==
    ASSUME Keeps, NEW r, NEW status, IsTrue(r, status)
    PROVE  IsTrue(r, status)'
BY DEF Keeps, IsTrue

LEMMA OthersKnow ==
    ASSUME StatusInv, Keeps, NEW b \in Artworks, exec'[b] = exec[b]
    PROVE  Knows(b)'
<1>1. Knows(b) /\ world' = world /\ kubo \subseteq kubo'
      /\ \A r \in Roots : Held(r) => Held(r)'
  BY DEF StatusInv, Keeps
<1>2. Root(b)' = Root(b)
  BY <1>1 DEF Root
<1>3. \A r, status : IsTrue(r, status) => IsTrue(r, status)'
  BY KeepsTruth
<1> QED BY <1>1, <1>2, <1>3 DEF Knows, Rooted

\* Idle files: what is stored stays as it is.
LEMMA StoresKeep ==
    ASSUME StatusInv, UNCHANGED <<world, disk, kubo>>
    PROVE  Keeps
BY DEF StatusInv, TypeOK, Keeps, Held

\* The types of a step of an execution.
ExecutionTypes(a) ==
    /\ exec' = [exec EXCEPT ![a] = exec'[a]] /\ exec'[a] \in Execution
    /\ row' \in [Roots -> RootRow] /\ kubo' \subseteq Roots /\ tier' = tier
    /\ shown' \in [Artworks -> [Turns -> BackupStatus]]
    /\ job' \in [Artworks -> {"none", "automatic", "public"}]

\* Of a step of an execution, what is left to show is what it writes.
LEMMA ExecutionStep ==
    ASSUME StatusInv, Keeps, NEW a \in Artworks, ExecutionTypes(a), Knows(a)',
           RowsAreTrue', ShownIsTrue'
    PROVE  StatusInv'
<1>1. \A b \in Artworks : exec'[b] \in Execution /\ Knows(b)'
  <2> SUFFICES ASSUME NEW b \in Artworks PROVE exec'[b] \in Execution /\ Knows(b)'
    OBVIOUS
  <2>1. CASE b # a
    <3>1. exec'[b] = exec[b] /\ exec[b] \in Execution
      BY <2>1 DEF StatusInv, TypeOK, ExecutionTypes
    <3> QED BY <3>1, OthersKnow
  <2> QED BY <2>1 DEF ExecutionTypes
<1>2. exec' \in [Artworks -> Execution]
  BY <1>1 DEF StatusInv, TypeOK, ExecutionTypes
<1>3. TypeOK' /\ tier' \in Nat
  BY <1>1, <1>2 DEF StatusInv, TypeOK, Keeps, ExecutionTypes
<1> QED BY <1>1, <1>3 DEF StatusInv

\* Where the steps of an execution lead it.
Moves(a, step) ==
    /\ exec' = [exec EXCEPT ![a] = exec'[a]] /\ exec'[a] \in Execution
    /\ exec'[a].step = step /\ exec'[a].turn = exec[a].turn
TurnsOver(a) ==
    /\ exec' = [exec EXCEPT ![a] = exec'[a]] /\ exec'[a] \in Execution
    /\ \/ exec'[a].step = "judge"
       \/ exec'[a].step = "sync" /\ exec'[a].after = "conclude"

Ways == {"none", "existing", "download", "mismatch"}
Afters == {"turn", "pin", "skip", "sync", "abort", "conclude"}

LEMMA ExecutionMoves ==
    ASSUME StatusInv, NEW a \in Artworks
    PROVE  /\ \A step \in Steps : Goto(a, step) => Moves(a, step) /\ exec'[a].via = exec[a].via
           /\ \A step \in Steps, via \in Ways :
                 GotoVia(a, step, via) => Moves(a, step) /\ exec'[a].via = via
           /\ \A after \in Afters : SyncThen(a, after) => Moves(a, "sync")
<1>1. exec \in [Artworks -> Execution] /\ exec[a] \in Execution
  BY DEF StatusInv, TypeOK
<1>2. ASSUME NEW step \in Steps, Goto(a, step)
      PROVE  Moves(a, step) /\ exec'[a].via = exec[a].via
  BY <1>1, <1>2 DEF Goto, Moves, Execution
<1>3. ASSUME NEW step \in Steps, NEW via \in Ways, GotoVia(a, step, via)
      PROVE  Moves(a, step) /\ exec'[a].via = via
  BY <1>1, <1>3 DEF GotoVia, Moves, Execution, Ways
<1>4. ASSUME NEW after \in Afters, SyncThen(a, after) PROVE Moves(a, "sync")
  BY <1>1, <1>4 DEF SyncThen, Moves, Execution, Afters, Steps
<1> QED BY <1>2, <1>3, <1>4

LEMMA NewRowIsRow == NewRow \in RootRow
BY DEF NewRow, RootRow, BackupStatus

IsTurned(e) ==
    /\ e \in Execution
    /\ e.step = "judge" \/ (e.step = "sync" /\ e.after = "conclude")

LEMMA TurnedMoves ==
    ASSUME NEW e \in Execution
    PROVE  IsTurned(Turned(e)) /\ IsTurned([Turned(e) EXCEPT !.deferred = TRUE])
<1>1. IsTurned(Turned(e))
  <2>1. CASE e.turn = "metadata"
    BY <2>1, NewRowIsRow DEF IsTurned, Turned, Execution, Turns, Steps
  <2>2. CASE e.turn # "metadata"
    BY <2>2, NewRowIsRow DEF IsTurned, Turned, Execution, Turns, Steps
  <2> QED BY <2>1, <2>2
<1>2. ASSUME NEW f, IsTurned(f) PROVE IsTurned([f EXCEPT !.deferred = TRUE])
  BY <1>2 DEF IsTurned, Execution
<1> QED BY <1>1, <1>2

LEMMA ExecutionTurns ==
    ASSUME StatusInv, NEW a \in Artworks, NextRoot(a) \/ DeferRoot(a)
    PROVE  TurnsOver(a)
<1>1. exec \in [Artworks -> Execution] /\ exec[a] \in Execution
  BY DEF StatusInv, TypeOK
<1>2. \/ exec' = [exec EXCEPT ![a] = Turned(exec[a])]
      \/ exec' = [exec EXCEPT ![a] = [Turned(exec[a]) EXCEPT !.deferred = TRUE]]
  BY DEF NextRoot, DeferRoot
<1> QED BY <1>1, <1>2, TurnedMoves DEF TurnsOver, IsTurned

\* There is still a root, or none is needed any more.
LEMMA StaysRooted ==
    ASSUME StatusInv, NEW a \in Artworks, world' = world,
           \/ TurnsOver(a)
           \/ Root(a) \in Roots /\ exec'[a].turn = exec[a].turn
    PROVE  Rooted(a)'
BY DEF TurnsOver, Rooted, Root

LEMMA HasRoot ==
    ASSUME StatusInv, NEW a \in Artworks,
           exec[a].step \notin {"idle", "judge", "conclude", "abort", "sync", "write"}
    PROVE  Root(a) \in Roots
BY DEF StatusInv, Knows, Rooted

Calm == Steps \ {"discard", "pinned", "mark", "record", "write", "network"}

LEMMA CalmStep ==
    ASSUME StatusInv, Keeps, NEW a \in Artworks, kubo' \subseteq Roots, tier' = tier,
           exec' = [exec EXCEPT ![a] = exec'[a]], exec'[a] \in Execution,
           exec'[a].step \in Calm, Rooted(a)', shown' = shown,
           job' \in [Artworks -> {"none", "automatic", "public"}],
           row' \in [Roots -> RootRow], RowsAreTrue'
    PROVE  StatusInv'
<1>1. Knows(a)'
  BY DEF Knows, Calm
<1>2. ShownIsTrue'
  <2>1. \A r, status : IsTrue(r, status) => IsTrue(r, status)'
    BY KeepsTruth
  <2> QED BY <2>1 DEF ShownIsTrue, StatusInv, Keeps
<1>3. ExecutionTypes(a)
  BY DEF ExecutionTypes, StatusInv, TypeOK
<1> QED BY <1>1, <1>2, <1>3, ExecutionStep

\* The rows under a step that does not write them, and under one that does.
LEMMA RowsStay ==
    ASSUME StatusInv, Keeps, row' = row
    PROVE  row' \in [Roots -> RootRow] /\ RowsAreTrue'
BY DEF StatusInv, TypeOK, RowsAreTrue, Keeps

IsTrueRow(r, new) ==
    r \in Roots => /\ new.pin = "PINNED" => r \in kubo
                   /\ new.backup = "DOWNLOADED" => Held(r)

LEMMA RowWritten ==
    ASSUME StatusInv, Keeps, NEW a \in Artworks, NEW new, WriteRow(a, new),
           Root(a) \in Roots => new \in RootRow, IsTrueRow(Root(a), new)
    PROVE  row' \in [Roots -> RootRow] /\ RowsAreTrue'
<1>1. row \in [Roots -> RootRow] /\ row' = [row EXCEPT ![Root(a)] = new]
  BY DEF StatusInv, TypeOK, WriteRow
<1>2. row' \in [Roots -> RootRow]
  BY <1>1
<1>3. ASSUME NEW r \in Roots
      PROVE  (row'[r].pin = "PINNED" => r \in kubo) /\ (row'[r].backup = "DOWNLOADED" => Held(r))
  BY <1>1 DEF IsTrueRow, StatusInv, RowsAreTrue
<1> QED BY <1>2, <1>3 DEF RowsAreTrue, Keeps

\* A step within the execution and, at most, the row of its root.
LEMMA IdleStores ==
    ASSUME StatusInv, UNCHANGED <<world, disk, kubo, tier, shown, job>>, NEW a \in Artworks,
           exec' = [exec EXCEPT ![a] = exec'[a]], exec'[a] \in Execution,
           exec'[a].step \in Calm, Rooted(a)',
           \/ row' = row
           \/ \E new : /\ WriteRow(a, new) /\ IsTrueRow(Root(a), new)
                       /\ Root(a) \in Roots => new \in RootRow
    PROVE  StatusInv'
<1>1. Keeps
  BY StoresKeep
<1>2. row' \in [Roots -> RootRow] /\ RowsAreTrue'
  BY <1>1, RowsStay, RowWritten
<1> QED BY <1>1, <1>2, CalmStep DEF StatusInv, TypeOK

LEMMA RowKnown ==
    ASSUME StatusInv, NEW a \in Artworks, Root(a) \in Roots
    PROVE  /\ row[Root(a)] \in RootRow
           /\ row[Root(a)].pin = "PINNED" => Root(a) \in kubo
           /\ row[Root(a)].backup = "DOWNLOADED" => Held(Root(a))
           /\ Size[Root(a)] \in Nat
BY RootsAssumption DEF StatusInv, TypeOK, RowsAreTrue

LEMMA NoExecTypes == NoExec \in Execution
<1>1. <<>> \in UNION {[S -> [Turns -> BackupStatus]] : S \in SUBSET Artworks}
  <2>1. <<>> \in [{} -> [Turns -> BackupStatus]]
    OBVIOUS
  <2> QED BY <2>1
<1>2. NoSnap \in [Turns -> RootRow]
  BY NewRowIsRow DEF NoSnap
<1> QED BY <1>1, <1>2 DEF NoExec, Execution, Steps, Turns

LEMMA StartKeeps ==
    ASSUME StatusInv, NEW a \in Artworks, Start(a) PROVE StatusInv'
<1>1. PICK snap \in [Turns -> RootRow], bypass \in BOOLEAN :
         exec' = [exec EXCEPT ![a] = [NoExec EXCEPT !.step = "judge",
                                         !.bypass = bypass, !.snap = snap]]
  <2> DEFINE b == (job[a] = "public")
             s == [t \in Turns |-> IF world.roots[a][t] = NoRoot THEN NewRow
                                  ELSE row[world.roots[a][t]]]
  <2>1. exec' = [exec EXCEPT ![a] = [NoExec EXCEPT !.step = "judge",
                                        !.bypass = b, !.snap = s]]
    BY Zenon DEF Start
  <2>2. b \in BOOLEAN
    OBVIOUS
  <2>3. s \in [Turns -> RootRow]
    BY RootsAssumption, NewRowIsRow DEF StatusInv, TypeOK, World
  <2> HIDE DEF b, s
  <2> QED BY <2>1, <2>2, <2>3
<1>3. exec \in [Artworks -> Execution]
  BY DEF StatusInv, TypeOK
<1>4. ASSUME NEW e \in Execution
      PROVE  LET f == [e EXCEPT !.step = "judge", !.bypass = bypass, !.snap = snap]
             IN  f \in Execution /\ f.step = "judge"
  BY DEF Execution, Steps
<1>5. exec'[a] \in Execution /\ exec'[a].step = "judge"
  BY <1>1, <1>3, <1>4, NoExecTypes
<1> QED BY <1>1, <1>3, <1>5, IdleStores DEF Start, Elsewhere, Stores, Calm, Steps, Rooted

LEMMA EndKeeps ==
    ASSUME StatusInv, NEW a \in Artworks, Conclude(a) \/ Abort(a) \/ Crash(a)
    PROVE  StatusInv'
<1>1. exec \in [Artworks -> Execution] /\ exec' = [exec EXCEPT ![a] = NoExec]
  BY DEF StatusInv, TypeOK, Conclude, Abort, Crash
<1>2. exec'[a] \in Execution /\ exec'[a].step = "idle"
  BY <1>1, NoExecTypes DEF NoExec
<1>3. job' \in [Artworks -> {"none", "automatic", "public"}]
  BY DEF StatusInv, TypeOK, Conclude, Abort, Crash, Stores
<1>4. UNCHANGED <<world, row, disk, kubo, shown, tier>>
  BY DEF Conclude, Abort, Crash, Stores, Elsewhere
<1>5. Keeps
  BY <1>4, StoresKeep
<1>6. row' \in [Roots -> RootRow] /\ RowsAreTrue'
  BY <1>4, <1>5, RowsStay
<1>7. exec' = [exec EXCEPT ![a] = exec'[a]] /\ kubo' \subseteq Roots
  BY <1>1, <1>4 DEF StatusInv, TypeOK
<1> QED BY <1>2, <1>3, <1>4, <1>5, <1>6, <1>7, CalmStep DEF Calm, Steps, Rooted

LEMMA RootIsRoot ==
    ASSUME StatusInv, NEW a \in Artworks
    PROVE  Root(a) \in Roots \/ Root(a) = NoRoot
BY RootsAssumption DEF StatusInv, TypeOK, World, Root, Execution

LEMMA JudgeKeeps ==
    ASSUME StatusInv, NEW a \in Artworks, Judge(a) PROVE StatusInv'
<1>1. UNCHANGED <<world, disk, kubo, tier, shown, job>> /\ row' = row
  BY DEF Judge, Elsewhere, Stores
<1>2. exec \in [Artworks -> Execution] /\ exec[a] \in Execution /\ tier \in Nat
  BY DEF StatusInv, TypeOK
<1>3. exec' = [exec EXCEPT ![a] = exec'[a]] /\ exec'[a] \in Execution
      /\ exec'[a].step \in Calm /\ Rooted(a)'
  <2>1. CASE NextRoot(a) \/ DeferRoot(a)
    BY <1>1, <2>1, ExecutionTurns, StaysRooted DEF TurnsOver, Calm, Steps
  <2>2. CASE ~(NextRoot(a) \/ DeferRoot(a))
    <3>1. PICK step \in {"existing", "probe"}, max \in Nat :
             exec' = [exec EXCEPT ![a].step = step, ![a].max = max]
      BY <1>2, <2>2 DEF Judge
    <3>2. Root(a) \in Roots
      BY <2>2, RootIsRoot DEF Judge
    <3>3. exec'[a] \in Execution /\ exec'[a].step = step /\ exec'[a].turn = exec[a].turn
          /\ exec' = [exec EXCEPT ![a] = exec'[a]]
      BY <1>2, <3>1 DEF Execution, Steps
    <3> QED BY <1>1, <3>2, <3>3, StaysRooted DEF Calm, Steps
  <2> QED BY <2>1, <2>2
<1> QED BY <1>1, <1>3, IdleStores

LEMMA ProbeKeeps ==
    ASSUME StatusInv, NEW a \in Artworks, Probe(a) \/ Park(a) PROVE StatusInv'
<1>0. Root(a) \in Roots
  BY HasRoot DEF Probe, Park, At
<1>1. UNCHANGED <<world, disk, kubo, tier, shown, job>>
  BY DEF Probe, Park, Elsewhere
<1>2. exec' = [exec EXCEPT ![a] = exec'[a]] /\ exec'[a] \in Execution
      /\ exec'[a].step \in Calm /\ Rooted(a)'
  BY <1>0, <1>1, ExecutionMoves, ExecutionTurns, StaysRooted
     DEF Probe, Park, Moves, TurnsOver, Calm, Steps
<1>3. \E new : /\ WriteRow(a, new) /\ IsTrueRow(Root(a), new)
               /\ Root(a) \in Roots => new \in RootRow
  <2>1. ASSUME NEW new, new = [row[Root(a)] EXCEPT !.size = Size[Root(a)]],
               WriteRow(a, new)
        PROVE  IsTrueRow(Root(a), new) /\ (Root(a) \in Roots => new \in RootRow)
    BY <2>1, RowKnown DEF IsTrueRow, RootRow
  <2>2. ASSUME NEW new, NEW why \in {"no", "probe", "size"},
               new = [row[Root(a)] EXCEPT !.deferred = why], WriteRow(a, new)
        PROVE  IsTrueRow(Root(a), new) /\ (Root(a) \in Roots => new \in RootRow)
    BY <2>2, RowKnown DEF IsTrueRow, RootRow
  <2>3. CASE WriteRow(a, [row[Root(a)] EXCEPT !.size = Size[Root(a)]])
    BY <2>1, <2>3
  <2>4. CASE WriteRow(a, [row[Root(a)] EXCEPT !.deferred =
                              IF @ = "no" THEN "probe" ELSE @])
    <3>1. CASE Root(a) \in Roots
      <4>1. (IF row[Root(a)].deferred = "no" THEN "probe" ELSE row[Root(a)].deferred)
               \in {"no", "probe", "size"}
        BY <3>1, RowKnown DEF RootRow
      <4> QED BY <2>2, <2>4, <4>1
    <3>2. CASE Root(a) \notin Roots
      BY <2>4, <3>2 DEF IsTrueRow
    <3> QED BY <3>1, <3>2
  <2>5. CASE WriteRow(a, [row[Root(a)] EXCEPT !.deferred = "size"])
    BY <2>2, <2>5
  <2> QED BY <2>3, <2>4, <2>5 DEF Probe, Park
<1> QED BY <1>1, <1>2, <1>3, IdleStores

LEMMA FetchKeeps ==
    ASSUME StatusInv, NEW a \in Artworks, Fetch(a) PROVE StatusInv'
<1>0. Root(a) \in Roots
  BY HasRoot DEF Fetch, At
<1>1. UNCHANGED <<world, disk, kubo, tier, shown, job>>
  BY DEF Fetch, Elsewhere
<1>2. exec' = [exec EXCEPT ![a] = exec'[a]] /\ exec'[a] \in Execution
      /\ exec'[a].step \in Calm /\ Rooted(a)'
  BY <1>0, <1>1, ExecutionMoves, StaysRooted DEF Fetch, AfterDownload, Moves, Calm, Steps
<1>3. ASSUME NEW new, new = [row[Root(a)] EXCEPT !.backup = "PENDING",
                                        !.pin = "PENDING", !.local = FALSE]
      PROVE  IsTrueRow(Root(a), new) /\ (Root(a) \in Roots => new \in RootRow)
  BY <1>3, RowKnown DEF IsTrueRow, RootRow, BackupStatus
<1>4. \/ row' = row
      \/ \E new : /\ WriteRow(a, new) /\ IsTrueRow(Root(a), new)
                  /\ Root(a) \in Roots => new \in RootRow
  BY <1>3 DEF Fetch
<1> QED BY <1>1, <1>2, <1>4, IdleStores

LEMMA RecordKeeps ==
    ASSUME StatusInv, NEW a \in Artworks,
           \/ RecordDownload(a) \/ RecordPin(a) \/ MarkPinned(a)
           \/ SkipPin(a) \/ FailPin(a) \/ FailRoot(a)
    PROVE  StatusInv'
<1>0. Root(a) \in Roots
  BY HasRoot DEF RecordDownload, RecordPin, MarkPinned, SkipPin, FailPin, FailRoot, At
<1>1. UNCHANGED <<world, disk, kubo, tier, shown, job>>
  BY DEF RecordDownload, RecordPin, MarkPinned, SkipPin, FailPin, FailRoot, Elsewhere
<1>2. exec[a] \in Execution /\ Knows(a)
  BY DEF StatusInv, TypeOK
<1>3. PICK after \in Afters : SyncThen(a, after)
  <2>1. CASE MarkPinned(a)
    <3>1. exec[a].via \in {"existing", "download", "mismatch"}
      BY <1>2, <2>1 DEF MarkPinned, At, Knows, Execution
    <3> QED BY <2>1, <3>1 DEF MarkPinned, Afters
  <2>2. CASE ~MarkPinned(a)
    BY <2>2 DEF RecordDownload, RecordPin, SkipPin, FailPin, FailRoot, Afters, AfterDownload
  <2> QED BY <2>1, <2>2
<1>4. exec' = [exec EXCEPT ![a] = exec'[a]] /\ exec'[a] \in Execution
      /\ exec'[a].step \in Calm /\ Rooted(a)'
  BY <1>0, <1>1, <1>3, ExecutionMoves, StaysRooted DEF Moves, Calm, Steps
<1>5. \/ row' = row
      \/ \E new : /\ WriteRow(a, new) /\ IsTrueRow(Root(a), new)
                  /\ Root(a) \in Roots => new \in RootRow
  <2>1. CASE RecordDownload(a)
    <3> DEFINE n == [row[Root(a)] EXCEPT
           !.backup = "DOWNLOADED", !.local = TRUE, !.size = Size[Root(a)],
           !.deferred = "no"]
    <3>1. IsTrueRow(Root(a), n) /\ (Root(a) \in Roots => n \in RootRow)
      BY <1>2, <2>1, RowKnown
         DEF RecordDownload, At, Knows, IsTrueRow, RootRow, BackupStatus
    <3> QED BY <2>1, <3>1 DEF RecordDownload
  <2>2. CASE RecordPin(a)
    <3> DEFINE n == [row[Root(a)] EXCEPT
           !.pin = "PINNED", !.local = FALSE, !.deferred = "no"]
    <3>1. IsTrueRow(Root(a), n) /\ (Root(a) \in Roots => n \in RootRow)
      BY <1>2, <2>2, RowKnown
         DEF RecordPin, At, Knows, IsTrueRow, RootRow, BackupStatus
    <3> QED BY <2>2, <3>1 DEF RecordPin
  <2>3. CASE MarkPinned(a)
    <3>1. IsTrueRow(Root(a), PinnedByKubo(row[Root(a)]))
          /\ (Root(a) \in Roots => PinnedByKubo(row[Root(a)]) \in RootRow)
      BY <1>2, <2>3, RowKnown
         DEF MarkPinned, At, Knows, IsTrueRow, RootRow, BackupStatus, PinnedByKubo, Held
    <3> QED BY <2>3, <3>1 DEF MarkPinned
  <2>4. CASE SkipPin(a)
    <3> DEFINE n == [row[Root(a)] EXCEPT !.pin = "SKIPPED"]
    <3>1. IsTrueRow(Root(a), n) /\ (Root(a) \in Roots => n \in RootRow)
      BY RowKnown DEF IsTrueRow, RootRow, BackupStatus
    <3> QED BY <2>4, <3>1 DEF SkipPin
  <2>5. CASE FailPin(a)
    <3> DEFINE n == [row[Root(a)] EXCEPT !.pin = "FAILED"]
    <3>1. IsTrueRow(Root(a), n) /\ (Root(a) \in Roots => n \in RootRow)
      BY RowKnown DEF IsTrueRow, RootRow, BackupStatus
    <3> QED BY <2>5, <3>1 DEF FailPin
  <2>6. CASE FailRoot(a)
    <3> DEFINE n == [row[Root(a)] EXCEPT !.backup = "FAILED", !.pin = "FAILED"]
    <3>1. IsTrueRow(Root(a), n) /\ (Root(a) \in Roots => n \in RootRow)
      BY RowKnown DEF IsTrueRow, RootRow, BackupStatus
    <3> QED BY <2>6, <3>1 DEF FailRoot
  <2> QED BY <2>1, <2>2, <2>3, <2>4, <2>5, <2>6
<1> QED BY <1>1, <1>4, <1>5, IdleStores

\* A step that leaves the rows, but knows more, or does more, than before.
LEMMA KnowingStep ==
    ASSUME StatusInv, Keeps, NEW a \in Artworks, NEW step \in Steps \ {"write"},
           Moves(a, step), Root(a) \in Roots, UNCHANGED <<row, shown, job, tier>>, kubo' \subseteq Roots,
           step \in {"discard", "pinned", "mark"} => Root(a) \in kubo',
           step = "record" => Held(Root(a))',
           step \in {"mark", "network"} => exec'[a].via # "none"
    PROVE  StatusInv'
<1>1. Root(a)' = Root(a)
  BY DEF Root, Moves, Keeps
<1>2. Held(Root(a))' <=> (disk'[Root(a)] # "none" \/ Root(a) \in kubo')
  BY <1>1 DEF Held
<1>3. Knows(a)'
  BY <1>1, <1>2 DEF Knows, Rooted, Moves
<1>4. RowsAreTrue' /\ row' \in [Roots -> RootRow]
  BY RowsStay
<1>5. ShownIsTrue'
  <2>1. \A r, status : IsTrue(r, status) => IsTrue(r, status)'
    BY KeepsTruth
  <2> QED BY <2>1 DEF ShownIsTrue, StatusInv, Keeps
<1>6. ExecutionTypes(a)
  BY <1>4 DEF ExecutionTypes, StatusInv, TypeOK, Moves
<1> QED BY <1>3, <1>4, <1>5, <1>6, ExecutionStep

LEMMA LookKeeps ==
    ASSUME StatusInv, NEW a \in Artworks, FindExistingPin(a) \/ PinLocally(a)
    PROVE  StatusInv'
<1> Root(a) \in Roots
  BY HasRoot DEF FindExistingPin, PinLocally, At
<1>1. UNCHANGED <<world, row, disk, kubo, tier, shown, job>>
  BY DEF FindExistingPin, PinLocally, Elsewhere, Stores
<1>2. Keeps /\ kubo' \subseteq Roots
  BY <1>1, StoresKeep DEF StatusInv, TypeOK
<1>3. CASE GotoVia(a, "mark", "existing") /\ Root(a) \in kubo
  <2>1. Moves(a, "mark") /\ exec'[a].via = "existing"
    BY <1>3, ExecutionMoves DEF Steps, Ways
  <2> QED BY <1>1, <1>2, <1>3, <2>1, KnowingStep DEF Steps
<1>4. CASE Goto(a, "discard") /\ Root(a) \in kubo
  <2>1. Moves(a, "discard")
    BY <1>4, ExecutionMoves DEF Steps
  <2> QED BY <1>1, <1>2, <1>4, <2>1, KnowingStep DEF Steps
<1>5. ASSUME NEW step \in {"fetch", "pinfail", "add"}, Goto(a, step) PROVE StatusInv'
  <2>1. Moves(a, step)
    BY <1>5, ExecutionMoves DEF Steps
  <2> QED BY <1>1, <1>2, <1>5, <2>1, KnowingStep DEF Steps
<1> QED BY <1>3, <1>4, <1>5 DEF FindExistingPin, PinLocally

LEMMA DownloadKeeps ==
    ASSUME StatusInv, NEW a \in Artworks, Download(a) PROVE StatusInv'
<1> Root(a) \in Roots
  BY HasRoot DEF Download, At
<1>1. UNCHANGED <<world, row, kubo, tier, shown, job>> /\ kubo' \subseteq Roots
  BY DEF Download, Elsewhere, StatusInv, TypeOK
<1>2. disk \in [Roots -> {"none", "partial", "whole"}]
  BY DEF StatusInv, TypeOK
<1>3. CASE \E found \in {"partial", "whole"} :
              disk' = [disk EXCEPT ![Root(a)] = IF @ = "whole" THEN @ ELSE found]
           /\ Goto(a, "record")
  <2>1. PICK found \in {"partial", "whole"} :
             disk' = [disk EXCEPT ![Root(a)] = IF @ = "whole" THEN @ ELSE found]
           /\ Goto(a, "record")
    BY <1>3
  <2>2. disk' \in [Roots -> {"none", "partial", "whole"}]
        /\ disk'[Root(a)] # "none"
        /\ \A r \in Roots : disk[r] # "none" => disk'[r] # "none"
    BY <1>2, <2>1
  <2>3. Keeps
    BY <1>1, <2>2 DEF Keeps, Held
  <2>4. Moves(a, "record")
    BY <2>1, ExecutionMoves DEF Steps
  <2>5. Root(a)' = Root(a)
    BY <1>1, <2>4 DEF Root, Moves
  <2>6. Held(Root(a))'
    BY <2>2, <2>5 DEF Held
  <2> QED BY <1>1, <2>3, <2>4, <2>6, KnowingStep DEF Steps
<1>4. CASE disk' = disk /\ (GotoVia(a, "network", "download") \/ Goto(a, "fail"))
  <2>1. Keeps
    BY <1>1, <1>4, StoresKeep
  <2>2. (Moves(a, "network") /\ exec'[a].via = "download") \/ Moves(a, "fail")
    BY <1>4, ExecutionMoves DEF Steps, Ways
  <2>3. CASE Moves(a, "network") /\ exec'[a].via = "download"
    BY <1>1, <2>1, <2>3, KnowingStep DEF Steps
  <2>4. CASE Moves(a, "fail")
    BY <1>1, <2>1, <2>4, KnowingStep DEF Steps
  <2> QED BY <2>2, <2>3, <2>4
<1> QED BY <1>3, <1>4 DEF Download

LEMMA AddKeeps ==
    ASSUME StatusInv, NEW a \in Artworks, Add(a) \/ PinFromNetwork(a)
    PROVE  StatusInv'
<1> Root(a) \in Roots
  BY HasRoot DEF Add, PinFromNetwork, At
<1>1. UNCHANGED <<world, row, disk, tier, shown, job>>
  BY DEF Add, PinFromNetwork, Elsewhere
<1>2. At(a, "network") /\ PinFromNetwork(a) => exec[a].via # "none"
  BY DEF StatusInv, Knows, At
<1>3. CASE kubo' = kubo
  <2>1. Keeps /\ kubo' \subseteq Roots
    BY <1>1, <1>3, StoresKeep DEF StatusInv, TypeOK
  <2>2. ASSUME NEW step \in {"pinfail", "fail"}, Goto(a, step) PROVE StatusInv'
    <3>1. Moves(a, step)
      BY <2>2, ExecutionMoves DEF Steps
    <3> QED BY <1>1, <2>1, <2>2, <3>1, KnowingStep DEF Steps
  <2>3. ASSUME GotoVia(a, "network", "mismatch") PROVE StatusInv'
    <3>1. Moves(a, "network") /\ exec'[a].via = "mismatch"
      BY <2>3, ExecutionMoves DEF Steps, Ways
    <3> QED BY <1>1, <2>1, <3>1, KnowingStep DEF Steps
  <2>4. ASSUME NEW step \in {"discard", "mark"}, Goto(a, step), Root(a) \in kubo,
               exec[a].via # "none" \/ step # "mark"
        PROVE  StatusInv'
    <3>1. Moves(a, step) /\ exec'[a].via = exec[a].via
      BY <2>4, ExecutionMoves DEF Steps
    <3> QED BY <1>1, <1>3, <2>1, <2>4, <3>1, KnowingStep DEF Steps
  <2> QED BY <1>2, <1>3, <2>2, <2>3, <2>4 DEF Add, PinFromNetwork
<1>4. CASE kubo' = kubo \cup {Root(a)}
  <2>1. Keeps /\ kubo' \subseteq Roots
    BY <1>1, <1>4 DEF StatusInv, TypeOK, Keeps, Held
  <2>2. ASSUME NEW step \in {"discard", "mark"}, Goto(a, step),
               exec[a].via # "none" \/ step # "mark"
        PROVE  StatusInv'
    <3>1. Moves(a, step) /\ exec'[a].via = exec[a].via
      BY <2>2, ExecutionMoves DEF Steps
    <3> QED BY <1>1, <1>4, <2>1, <2>2, <3>1, KnowingStep DEF Steps
  <2>3. Goto(a, "discard") \/ (Goto(a, "mark") /\ exec[a].via # "none") \/ kubo' = kubo
    BY <1>2 DEF Add, PinFromNetwork
  <2> QED BY <1>3, <2>2, <2>3
<1> QED BY <1>3, <1>4 DEF Add, PinFromNetwork

LEMMA DiscardKeeps ==
    ASSUME StatusInv, NEW a \in Artworks, Discard(a) PROVE StatusInv'
<1>1. UNCHANGED <<world, row, kubo, tier, shown, job>> /\ kubo' \subseteq Roots
      /\ disk' = [disk EXCEPT ![Root(a)] = "none"]
  BY DEF Discard, Elsewhere, StatusInv, TypeOK
<1>2. Root(a) \in Roots /\ Root(a) \in kubo
  BY HasRoot DEF Discard, At, StatusInv, Knows
<1>3. disk' \in [Roots -> {"none", "partial", "whole"}]
      /\ \A r \in Roots \ {Root(a)} : disk'[r] = disk[r]
  BY <1>1 DEF StatusInv, TypeOK
<1>4. Keeps
  BY <1>1, <1>2, <1>3 DEF Keeps, Held
<1>5. Moves(a, "pinned")
  BY ExecutionMoves DEF Discard, Steps
<1> QED BY <1>1, <1>2, <1>4, <1>5, KnowingStep DEF Steps

\* What a sync reads is what the rows say.
LEMMA StatusesAreTrue ==
    ASSUME StatusInv, NEW b \in Artworks
    PROVE  /\ Statuses(b) \in [Turns -> BackupStatus]
           /\ \A t \in Turns : IsTrue(world.roots[b][t], Statuses(b)[t])
<1> SUFFICES ASSUME NEW t \in Turns
             PROVE  Statuses(b)[t] \in BackupStatus
                    /\ IsTrue(world.roots[b][t], Statuses(b)[t])
  BY DEF Statuses
<1>1. world.roots[b][t] \in Roots \/ world.roots[b][t] = NoRoot
  BY RootsAssumption DEF StatusInv, TypeOK, World
<1>2. CASE world.roots[b][t] = NoRoot
  <2>1. Statuses(b)[t] = "SKIPPED"
    BY <1>2 DEF Statuses
  <2> QED BY <1>2, <2>1, RootsAssumption DEF IsTrue, BackupStatus
<1>3. CASE world.roots[b][t] \in Roots
  <2> DEFINE r == row[world.roots[b][t]]
  <2>1. Statuses(b)[t] = deriveArtworkStatusFromRoot(r)
    BY <1>3, RootsAssumption DEF Statuses
  <2>2. r \in RootRow /\ (r.pin = "PINNED" => world.roots[b][t] \in kubo)
        /\ (r.backup = "DOWNLOADED" => Held(world.roots[b][t]))
    BY <1>3 DEF StatusInv, TypeOK, RowsAreTrue
  <2> HIDE DEF r
  <2>3. deriveArtworkStatusFromRoot(r) \in BackupStatus
        /\ (deriveArtworkStatusFromRoot(r) = "PINNED" => r.pin = "PINNED")
        /\ (deriveArtworkStatusFromRoot(r) = "DOWNLOADED" => r.backup = "DOWNLOADED")
    <3>1. CASE r.pin = "PINNED"
      BY <3>1 DEF deriveArtworkStatusFromRoot, BackupStatus
    <3>2. CASE r.pin # "PINNED" /\ r.backup = "DOWNLOADED"
      BY <3>2 DEF deriveArtworkStatusFromRoot, BackupStatus
    <3>3. CASE r.pin # "PINNED" /\ r.backup # "DOWNLOADED" /\ "FAILED" \in {r.pin, r.backup}
      <4>1. {r.pin, r.backup} # {"SKIPPED"}
        BY <3>3
      <4>2. deriveArtworkStatusFromRoot(r) = "FAILED"
        BY <3>3, <4>1 DEF deriveArtworkStatusFromRoot
      <4> QED BY <4>2 DEF BackupStatus
    <3>4. CASE /\ r.pin # "PINNED" /\ r.backup # "DOWNLOADED"
               /\ "FAILED" \notin {r.pin, r.backup}
      <4>1. deriveArtworkStatusFromRoot(r) \in {"SKIPPED", "PENDING"}
        <5>1. CASE {r.pin, r.backup} = {"SKIPPED"}
          BY <3>4, <5>1 DEF deriveArtworkStatusFromRoot
        <5>2. CASE {r.pin, r.backup} # {"SKIPPED"}
          BY <3>4, <5>2 DEF deriveArtworkStatusFromRoot
        <5> QED BY <5>1, <5>2
      <4> QED BY <4>1 DEF BackupStatus
    <3> QED BY <3>1, <3>2, <3>3, <3>4
  <2> QED BY <1>3, <2>1, <2>2, <2>3 DEF IsTrue
<1> QED BY <1>1, <1>2, <1>3

LEMMA SyncReadKeeps ==
    ASSUME StatusInv, NEW a \in Artworks, SyncRead(a) PROVE StatusInv'
<1>1. UNCHANGED <<world, row, disk, kubo, tier, shown, job>>
  BY DEF SyncRead, Elsewhere, Stores
<1>2. Keeps
  BY <1>1, StoresKeep
<1>3. exec \in [Artworks -> Execution] /\ exec[a] \in Execution /\ Rooted(a)
      /\ exec[a].step = "sync"
  BY DEF StatusInv, TypeOK, Knows, SyncRead, At
<1>4. PICK view : /\ view = [b \in Synced(a) |-> Statuses(b)]
                  /\ exec' = [exec EXCEPT ![a].step = "write", ![a].view = view]
  BY DEF SyncRead
<1>5. Synced(a) \subseteq Artworks
  BY DEF Synced, ArtworksOf
<1>6. view \in UNION {[S -> [Turns -> BackupStatus]] : S \in SUBSET Artworks}
  BY <1>4, <1>5, StatusesAreTrue
<1>7. exec' = [exec EXCEPT ![a] = exec'[a]] /\ exec'[a] \in Execution
      /\ exec'[a].step = "write" /\ exec'[a].view = view
      /\ exec'[a].turn = exec[a].turn /\ exec'[a].after = exec[a].after
  BY <1>3, <1>4, <1>6 DEF Execution, Steps
<1>8. \A b \in DOMAIN view, t \in Turns : IsTrue(world.roots[b][t], view[b][t])'
  <2>1. \A b \in DOMAIN view, t \in Turns : IsTrue(world.roots[b][t], view[b][t])
    BY <1>4, <1>5, StatusesAreTrue
  <2> QED BY <1>1, <2>1 DEF IsTrue, Held
<1>9. Rooted(a)'
  BY <1>1, <1>3, <1>7 DEF Rooted, Root
<1>10. Knows(a)'
  BY <1>7, <1>8, <1>9 DEF Knows
<1>11. RowsAreTrue' /\ row' \in [Roots -> RootRow]
  BY <1>1, <1>2, RowsStay
<1>12. ShownIsTrue'
  BY <1>1 DEF StatusInv, ShownIsTrue, IsTrue, Held
<1>13. ExecutionTypes(a)
  BY <1>1, <1>7, <1>11 DEF ExecutionTypes, StatusInv, TypeOK
<1> QED BY <1>2, <1>10, <1>11, <1>12, <1>13, ExecutionStep

LEMMA SyncWriteKeeps ==
    ASSUME StatusInv, NEW a \in Artworks, SyncWrite(a) PROVE StatusInv'
<1>1. UNCHANGED <<world, row, disk, kubo, tier>>
  BY DEF SyncWrite, Elsewhere
<1>2. Keeps
  BY <1>1, StoresKeep
<1>3. /\ exec \in [Artworks -> Execution] /\ exec[a] \in Execution
      /\ shown \in [Artworks -> [Turns -> BackupStatus]]
      /\ job \in [Artworks -> {"none", "automatic", "public"}]
      /\ Knows(a) /\ exec[a].step = "write"
  BY DEF StatusInv, TypeOK, SyncWrite, At
<1>4. PICK view : view = exec[a].view
  OBVIOUS
<1>5. view \in UNION {[S -> [Turns -> BackupStatus]] : S \in SUBSET Artworks}
  BY <1>3, <1>4 DEF Execution
<1>6. PICK S \in SUBSET Artworks : view \in [S -> [Turns -> BackupStatus]]
  BY <1>5
<1>7. shown' = [b \in Artworks |-> IF b \in S THEN view[b] ELSE shown[b]]
  BY <1>4, <1>6 DEF SyncWrite
<1>8. shown' \in [Artworks -> [Turns -> BackupStatus]]
  BY <1>3, <1>6, <1>7
<1>9. ShownIsTrue'
  <2>1. \A b \in S, t \in Turns : IsTrue(world.roots[b][t], view[b][t])
    BY <1>3, <1>4, <1>6 DEF Knows
  <2>2. \A b \in Artworks, t \in Turns : IsTrue(world.roots[b][t], shown'[b][t])
    BY <1>7, <2>1 DEF StatusInv, ShownIsTrue
  <2> QED BY <1>1, <2>2 DEF ShownIsTrue, IsTrue, Held
<1>10. job' \in [Artworks -> {"none", "automatic", "public"}]
  BY <1>3 DEF SyncWrite
<1>11. RowsAreTrue' /\ row' \in [Roots -> RootRow]
  BY <1>1, <1>2, RowsStay
<1>12. PICK e : /\ e = [exec[a] EXCEPT !.view = <<>>]
                /\ exec' = [exec EXCEPT ![a] =
                       CASE e.after = "turn" -> Turned(e)
                         [] e.after = "sync" -> [e EXCEPT !.step = "sync", !.after = "turn"]
                         [] OTHER -> [e EXCEPT !.step = e.after]]
  BY Zenon DEF SyncWrite
<1>13. /\ e \in Execution /\ e.turn = exec[a].turn /\ e.after = exec[a].after
  <2>1. <<>> \in UNION {[T -> [Turns -> BackupStatus]] : T \in SUBSET Artworks}
    BY NoExecTypes DEF NoExec, Execution
  <2> QED BY <1>3, <1>12, <2>1 DEF Execution
<1>14. /\ exec' = [exec EXCEPT ![a] = exec'[a]] /\ exec'[a] \in Execution
       /\ exec'[a].step \in Calm /\ Rooted(a)'
  <2>1. CASE e.after = "turn"
    <3>1. exec' = [exec EXCEPT ![a] = Turned(e)]
      BY <1>12, <2>1
    <3>2. TurnsOver(a)
      BY <1>3, <1>13, <3>1, TurnedMoves DEF TurnsOver, IsTurned
    <3> QED BY <1>1, <3>2, StaysRooted DEF TurnsOver, Calm, Steps
  <2>2. CASE e.after = "sync"
    <3>1. exec' = [exec EXCEPT ![a] = [e EXCEPT !.step = "sync", !.after = "turn"]]
      BY <1>12, <2>2
    <3>2. /\ exec' = [exec EXCEPT ![a] = exec'[a]] /\ exec'[a] \in Execution
          /\ exec'[a].step = "sync" /\ exec'[a].turn = exec[a].turn
      BY <1>3, <1>13, <3>1 DEF Execution, Steps
    <3>3. Root(a) \in Roots
      BY <1>3, <1>13, <2>2 DEF Knows, Rooted
    <3> QED BY <1>1, <3>2, <3>3, StaysRooted DEF Calm, Steps
  <2>3. CASE e.after \notin {"turn", "sync"}
    <3>1. exec' = [exec EXCEPT ![a] = [e EXCEPT !.step = e.after]]
      BY <1>12, <2>3
    <3>2. e.after \in {"pin", "skip", "abort", "conclude"}
      BY <1>13, <2>3 DEF Execution
    <3>3. /\ exec' = [exec EXCEPT ![a] = exec'[a]] /\ exec'[a] \in Execution
          /\ exec'[a].step = e.after /\ exec'[a].turn = exec[a].turn
      BY <1>3, <1>13, <3>1, <3>2 DEF Execution, Steps
    <3>4. e.after = "conclude" \/ Root(a) \in Roots
      BY <1>3, <1>13 DEF Knows, Rooted
    <3>5. Rooted(a)'
      BY <1>1, <3>3, <3>4 DEF Rooted, Root
    <3> QED BY <3>2, <3>3, <3>5 DEF Calm, Steps
  <2> QED BY <2>1, <2>2, <2>3
<1>15. Knows(a)'
  BY <1>14 DEF Knows, Calm
<1>16. ExecutionTypes(a)
  BY <1>1, <1>8, <1>10, <1>11, <1>14 DEF ExecutionTypes, StatusInv, TypeOK
<1> QED BY <1>2, <1>9, <1>11, <1>15, <1>16, ExecutionStep

LEMMA BackupKeeps ==
    ASSUME StatusInv, NEW a \in Artworks, Backup(a) \/ Crash(a) PROVE StatusInv'
BY StartKeeps, JudgeKeeps, ProbeKeeps, LookKeeps, FetchKeeps, DownloadKeeps,
   RecordKeeps, AddKeeps, DiscardKeeps, SyncReadKeeps, SyncWriteKeeps, EndKeeps
   DEF Backup

\* What users and the queue do beside the executions.
LEMMA OtherStep ==
    ASSUME StatusInv, UNCHANGED <<world, disk, kubo, exec>>, tier' \in Nat,
           job' \in [Artworks -> {"none", "automatic", "public"}],
           row' \in [Roots -> RootRow], RowsAreTrue',
           shown' \in [Artworks -> [Turns -> BackupStatus]], ShownIsTrue'
    PROVE  StatusInv'
<1>1. Keeps
  BY StoresKeep
<1>2. \A b \in Artworks : Knows(b)'
  BY <1>1, OthersKnow
<1> QED BY <1>2 DEF StatusInv, TypeOK

LEMMA ShownStays ==
    ASSUME StatusInv, UNCHANGED <<world, disk, kubo, shown>>
    PROVE  ShownIsTrue' /\ shown' \in [Artworks -> [Turns -> BackupStatus]]
BY DEF StatusInv, TypeOK, ShownIsTrue, IsTrue, Held

LEMMA EnqueueKeeps ==
    ASSUME StatusInv, NEW a \in Artworks, Enqueue(a) PROVE StatusInv'
<1>1. UNCHANGED <<world, row, disk, kubo, shown, exec, tier>>
  BY DEF Enqueue, Elsewhere
<1>2. job' \in [Artworks -> {"none", "automatic", "public"}] /\ tier' \in Nat
  BY <1>1 DEF Enqueue, StatusInv, TypeOK
<1> QED BY <1>1, <1>2, OtherStep, StoresKeep, RowsStay, ShownStays

LEMMA ResetKeeps ==
    ASSUME StatusInv, NEW a \in Artworks, ResetRoots(a) PROVE StatusInv'
<1>1. UNCHANGED <<world, disk, kubo, shown, exec, tier, job>>
  BY DEF ResetRoots
<1>2. job' \in [Artworks -> {"none", "automatic", "public"}] /\ tier' \in Nat
  BY <1>1 DEF StatusInv, TypeOK
<1>3. ASSUME NEW r \in RootRow
      PROVE  LET new == [r EXCEPT !.backup = "PENDING", !.pin = "PENDING", !.deferred = "no"]
             IN  new \in RootRow /\ new.pin = "PENDING" /\ new.backup = "PENDING"
  BY DEF RootRow, BackupStatus
<1>4. row \in [Roots -> RootRow]
  BY DEF StatusInv, TypeOK
<1>5. row' = [r \in Roots |->
           IF r \in RootsOf(a)
           THEN [row[r] EXCEPT !.backup = "PENDING", !.pin = "PENDING",
                               !.deferred = "no"]
           ELSE row[r]]
  BY DEF ResetRoots
<1>6. row' \in [Roots -> RootRow]
  BY <1>3, <1>4, <1>5
<1>7. \A r \in Roots : \/ row'[r] = row[r]
                       \/ row'[r].pin = "PENDING" /\ row'[r].backup = "PENDING"
  BY <1>3, <1>4, <1>5
<1>8. RowsAreTrue'
  BY <1>1, <1>7 DEF StatusInv, RowsAreTrue, Held
<1> QED BY <1>1, <1>2, <1>6, <1>8, OtherStep, ShownStays

LEMMA QueueKeeps ==
    ASSUME StatusInv, NEW a \in Artworks, QueuePublic(a) PROVE StatusInv'
<1>1. UNCHANGED <<world, row, disk, kubo, exec, tier>>
  BY DEF QueuePublic
<1>2. job' \in [Artworks -> {"none", "automatic", "public"}] /\ tier' \in Nat
  BY <1>1 DEF QueuePublic, StatusInv, TypeOK
<1>3. shown' = [shown EXCEPT ![a] = Statuses(a)]
      /\ shown \in [Artworks -> [Turns -> BackupStatus]]
  BY DEF QueuePublic, StatusInv, TypeOK
<1>4. shown' \in [Artworks -> [Turns -> BackupStatus]]
  BY <1>3, StatusesAreTrue
<1>5. \A b \in Artworks, t \in Turns : IsTrue(world.roots[b][t], shown'[b][t])
  BY <1>3, StatusesAreTrue DEF StatusInv, ShownIsTrue
<1>6. ShownIsTrue'
  BY <1>1, <1>5 DEF ShownIsTrue, IsTrue, Held
<1> QED BY <1>1, <1>2, <1>4, <1>6, OtherStep, StoresKeep, RowsStay

\* Below the ceiling there is a next tier, so the choice is one.
LEMMA NextTierExists ==
    ASSUME NEW current \in Nat
    PROVE  nextSmartPinBudgetTier(current) \in Nat
<1>1. Tiers \subseteq Nat /\ Ceiling \in Tiers /\ Ceiling \in Nat
  BY RootsAssumption DEF Tiers
<1>2. CASE current >= Ceiling
  BY <1>1, <1>2 DEF nextSmartPinBudgetTier
<1>3. CASE ~(current >= Ceiling)
  <2> DEFINE N == {1, 2, 5, 10, 20, 50, 100, 200, 500}
  <2>1. Tiers = {Ceiling} \cup
                {t \in N : t < Ceiling}
    <3>1. {f * m : f \in {1, 2, 5}, m \in {1, 10, 100}}
            = N
      <4>1. \A f \in {1, 2, 5}, m \in {1, 10, 100} :
               f * m \in {1, 2, 5, 10, 20, 50, 100, 200, 500}
        OBVIOUS
      <4>2. 1 * 1 = 1 /\ 2 * 1 = 2 /\ 5 * 1 = 5 /\ 1 * 10 = 10 /\ 2 * 10 = 20 /\ 5 * 10 = 50
            /\ 1 * 100 = 100 /\ 2 * 100 = 200 /\ 5 * 100 = 500
        OBVIOUS
      <4> QED BY <4>1, <4>2
    <3> QED BY <3>1 DEF Tiers
  <2>2. ASSUME NEW t \in N, t > current, \A u \in N : u > current => t <= u
        PROVE  \E c \in Tiers : c > current /\ \A u \in Tiers : u > current => c <= u
    <3> t \in Nat /\ N \subseteq Nat
      OBVIOUS
    <3>1. CASE t < Ceiling
      <4>1. t \in Tiers /\ \A u \in Tiers : u > current => t <= u
        BY <1>1, <2>1, <2>2, <3>1
      <4> QED BY <2>2, <4>1
    <3>2. CASE ~(t < Ceiling)
      <4>1. ASSUME NEW u \in Tiers, u > current PROVE Ceiling <= u
        <5>1. u = Ceiling \/ (u \in N /\ u < Ceiling)
          BY <2>1
        <5>2. u \in N /\ u < Ceiling => FALSE
          <6> HIDE DEF N
          <6> QED BY <1>1, <2>2, <3>2, <4>1
        <5> QED BY <1>1, <5>1, <5>2
      <4> QED BY <1>1, <1>3, <4>1
    <3> QED BY <3>1, <3>2
  <2>3. ASSUME current >= 500
        PROVE  \E c \in Tiers : c > current /\ \A u \in Tiers : u > current => c <= u
    <3>1. ASSUME NEW u \in Tiers, u > current PROVE Ceiling <= u
      BY <1>1, <2>1, <2>3, <3>1
    <3> QED BY <1>1, <1>3, <3>1
  <2>4. ASSUME current < 500
        PROVE  \E t \in N : t > current /\ \A u \in N : u > current => t <= u
    <3>1. CASE current < 1
      <4>1. 1 > current /\ \A u \in N : u > current => 1 <= u
        BY <3>1
      <4> QED BY <4>1
    <3>2. CASE 1 <= current /\ current < 2
      <4>1. 2 > current /\ \A u \in N : u > current => 2 <= u
        BY <3>2
      <4> QED BY <4>1
    <3>3. CASE 2 <= current /\ current < 5
      <4>1. 5 > current /\ \A u \in N : u > current => 5 <= u
        BY <3>3
      <4> QED BY <4>1
    <3>4. CASE 5 <= current /\ current < 10
      <4>1. 10 > current /\ \A u \in N : u > current => 10 <= u
        BY <3>4
      <4> QED BY <4>1
    <3>5. CASE 10 <= current /\ current < 20
      <4>1. 20 > current /\ \A u \in N : u > current => 20 <= u
        BY <3>5
      <4> QED BY <4>1
    <3>6. CASE 20 <= current /\ current < 50
      <4>1. 50 > current /\ \A u \in N : u > current => 50 <= u
        BY <3>6
      <4> QED BY <4>1
    <3>7. CASE 50 <= current /\ current < 100
      <4>1. 100 > current /\ \A u \in N : u > current => 100 <= u
        BY <3>7
      <4> QED BY <4>1
    <3>8. CASE 100 <= current /\ current < 200
      <4>1. 200 > current /\ \A u \in N : u > current => 200 <= u
        BY <3>8
      <4> QED BY <4>1
    <3>9. CASE 200 <= current /\ current < 500
      <4>1. 500 > current /\ \A u \in N : u > current => 500 <= u
        BY <3>9
      <4> QED BY <4>1
    <3> QED BY <2>4, <3>1, <3>2, <3>3, <3>4, <3>5, <3>6, <3>7, <3>8, <3>9
  <2>6. \E t \in Tiers : t > current /\ \A u \in Tiers : u > current => t <= u
    <3> HIDE DEF N
    <3> QED BY <2>2, <2>3, <2>4
  <2>5. nextSmartPinBudgetTier(current)
          = CHOOSE t \in Tiers : t > current /\ \A u \in Tiers : u > current => t <= u
    BY <1>3 DEF nextSmartPinBudgetTier
  <2> QED BY <1>1, <2>5, <2>6
<1> QED BY <1>2, <1>3

KeeperTypes ==
    keeper \in [step : {"idle", "judge", "raise", "requeue"}, max : Nat,
                jobs : SUBSET Artworks]

LEMMA PolicyKeeps ==
    ASSUME StatusInv, KeeperTypes, Policy PROVE StatusInv' /\ KeeperTypes'
<1>1. UNCHANGED <<world, row, disk, kubo, shown, exec>>
  BY DEF Policy, ReadPolicy, JudgeTier, RaiseTier, RequeueDeferred, Stores
<1>2. tier \in Nat /\ job \in [Artworks -> {"none", "automatic", "public"}]
  BY DEF StatusInv, TypeOK
<1>3. job' \in [Artworks -> {"none", "automatic", "public"}]
  BY <1>2 DEF Policy, ReadPolicy, JudgeTier, RaiseTier, RequeueDeferred, Stores
<1>4. tier' \in Nat /\ KeeperTypes'
  <2>1. CASE ReadPolicy
    BY <1>2, <2>1 DEF ReadPolicy, KeeperTypes
  <2>2. CASE JudgeTier
    <3>1. PICK step \in {"raise", "idle"}, max \in Nat :
             keeper' = [keeper EXCEPT !.step = step, !.max = max, !.jobs = {}]
      BY <2>2 DEF JudgeTier, KeeperTypes
    <3> QED BY <1>2, <2>2, <3>1 DEF JudgeTier, KeeperTypes
  <2>3. CASE RaiseTier
    <3>1. tier' \in Nat
      BY <2>3, NextTierExists DEF RaiseTier, KeeperTypes
    <3> QED BY <2>3, <3>1 DEF RaiseTier, KeeperTypes
  <2>4. CASE RequeueDeferred
    BY <1>2, <2>4 DEF RequeueDeferred, KeeperTypes
  <2> QED BY <2>1, <2>2, <2>3, <2>4 DEF Policy
<1> QED BY <1>1, <1>3, <1>4, OtherStep, StoresKeep, RowsStay, ShownStays

LEMMA BackupInitially ==
    ASSUME Init PROVE StatusInv /\ KeeperTypes
<1>1. world \in World /\ world.start \in Nat
  BY RootsAssumption DEF Init, World
<1>2. TypeOK
  <2>1. shown \in [Artworks -> [Turns -> BackupStatus]]
    BY DEF Init, BackupStatus
  <2> QED BY <2>1, NewRowIsRow, NoExecTypes DEF Init, TypeOK
<1>3. RowsAreTrue
  BY DEF Init, RowsAreTrue, NewRow
<1>4. ShownIsTrue
  BY <1>1, RootsAssumption DEF Init, ShownIsTrue, IsTrue, World
<1>5. \A a \in Artworks : Knows(a)
  <2>1. \A a \in Artworks : exec[a].step = "idle"
    BY DEF Init, NoExec
  <2> QED BY <2>1 DEF Knows, Rooted
<1> QED BY <1>1, <1>2, <1>3, <1>4, <1>5 DEF Init, StatusInv, KeeperTypes

LEMMA BackupStep ==
    ASSUME StatusInv, KeeperTypes, [Next]_vars PROVE StatusInv' /\ KeeperTypes'
<1>1. ASSUME NEW a \in Artworks, Backup(a) \/ Crash(a) PROVE keeper' = keeper
  BY <1>1 DEF Backup, Start, Judge, Probe, Park, FindExistingPin, Fetch, Download,
     RecordDownload, PinLocally, Add, Discard, RecordPin, PinFromNetwork,
     MarkPinned, SkipPin, FailPin, FailRoot, SyncRead, SyncWrite, Conclude, Abort,
     Crash, Elsewhere
<1>2. CASE \E a \in Artworks : Backup(a) \/ Crash(a)
  BY <1>1, <1>2, BackupKeeps DEF KeeperTypes
<1>3. CASE \E a \in Artworks : Enqueue(a)
  <2>1. keeper' = keeper
    BY <1>3 DEF Enqueue, Elsewhere
  <2> QED BY <1>3, <2>1, EnqueueKeeps DEF KeeperTypes
<1>4. CASE \E a \in Artworks : ResetRoots(a)
  <2>1. keeper' = keeper
    BY <1>4 DEF ResetRoots
  <2> QED BY <1>4, <2>1, ResetKeeps DEF KeeperTypes
<1>5. CASE \E a \in Artworks : QueuePublic(a)
  <2>1. keeper' = keeper
    BY <1>5 DEF QueuePublic
  <2> QED BY <1>5, <2>1, QueueKeeps DEF KeeperTypes
<1>6. CASE Policy
  BY <1>6, PolicyKeeps
<1>7. CASE UNCHANGED vars
  <2>1. UNCHANGED <<world, row, disk, kubo, shown, job, exec, tier, keeper>>
    BY <1>7 DEF vars
  <2>2. tier' \in Nat /\ job' \in [Artworks -> {"none", "automatic", "public"}]
    BY <2>1 DEF StatusInv, TypeOK
  <2> QED BY <2>1, <2>2, OtherStep, StoresKeep, RowsStay, ShownStays DEF KeeperTypes
<1> QED BY <1>2, <1>3, <1>4, <1>5, <1>6, <1>7 DEF Next

LEMMA StatusInvariance == Spec => [](StatusInv /\ KeeperTypes)
BY BackupInitially, BackupStep, PTL DEF Spec

\* The variables of the backup keep their types, for any archive.
THEOREM BackupTypesHold == Spec => []TypeOK
<1>1. StatusInv /\ KeeperTypes => TypeOK
  BY DEF StatusInv
<1> QED BY <1>1, StatusInvariance, PTL

\* No status claims more than the archive holds: not of a root, and not of an
\* artwork as it is shown to users.
THEOREM StatusIsTrueHolds == Spec => []StatusIsTrue
<1>1. StatusInv /\ KeeperTypes => StatusIsTrue
  <2> SUFFICES ASSUME StatusInv PROVE StatusIsTrue
    OBVIOUS
  <2>1. ASSUME NEW a \in Artworks, NEW t \in Turns
        PROVE  /\ shown[a][t] = "PINNED" => world.roots[a][t] \in kubo
               /\ shown[a][t] = "DOWNLOADED" => Held(world.roots[a][t])
    BY DEF StatusInv, ShownIsTrue, IsTrue
  <2> QED BY <2>1 DEF StatusIsTrue, StatusInv, RowsAreTrue
<1> QED BY <1>1, StatusInvariance, PTL

\* A step keeps what is held: only Discard removes a directory, of a root that
\* the execution knows to be pinned.
LEMMA StepKeepsContent ==
    ASSUME StatusInv, Next PROVE \A r \in Roots : Held(r) => Held(r)'
<1>1. disk \in [Roots -> {"none", "partial", "whole"}]
  BY DEF StatusInv, TypeOK
<1>2. CASE \E a \in Artworks : Discard(a)
  <2>1. PICK a \in Artworks : Discard(a)
    BY <1>2
  <2>2. Root(a) \in kubo /\ kubo' = kubo /\ disk' = [disk EXCEPT ![Root(a)] = "none"]
    BY <2>1, HasRoot DEF Discard, At, StatusInv, Knows
  <2> QED BY <1>1, <2>2 DEF Held
<1>3. CASE \E a \in Artworks : Download(a)
  BY <1>1, <1>3 DEF Download, Held
<1>4. CASE \E a \in Artworks : Add(a) \/ PinFromNetwork(a)
  BY <1>4 DEF Add, PinFromNetwork, Held
<1>5. CASE UNCHANGED <<disk, kubo>>
  BY <1>5 DEF Held
<1>6. ASSUME NEW a \in Artworks, Backup(a) \/ Crash(a)
      PROVE  Discard(a) \/ Download(a) \/ Add(a) \/ PinFromNetwork(a)
             \/ UNCHANGED <<disk, kubo>>
  BY <1>6 DEF Backup, Start, Judge, Probe, Park, FindExistingPin, Fetch,
     RecordDownload, PinLocally, RecordPin, MarkPinned, SkipPin, FailPin,
     FailRoot, SyncRead, SyncWrite, Conclude, Abort, Crash, Stores
<1>7. ASSUME \/ \E a \in Artworks : Enqueue(a) \/ ResetRoots(a) \/ QueuePublic(a)
             \/ Policy
      PROVE  UNCHANGED <<disk, kubo>>
  BY <1>7 DEF Enqueue, ResetRoots, QueuePublic, Policy, ReadPolicy, JudgeTier,
     RaiseTier, RequeueDeferred, Stores
<1> QED BY <1>2, <1>3, <1>4, <1>5, <1>6, <1>7 DEF Next

\* Content that the archive holds is never given up.
THEOREM ContentKeptHolds == Spec => ContentKept
<1>1. StatusInv /\ KeeperTypes /\ [Next]_vars => [\A r \in Roots : Held(r) => Held(r)']_vars
  BY StepKeepsContent
<1> QED BY <1>1, StatusInvariance, PTL DEF Spec, ContentKept
=============================================================================
