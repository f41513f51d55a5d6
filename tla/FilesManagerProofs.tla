------------------------- MODULE FilesManagerProofs -------------------------
(* The panics of the files manager are out of reach, its count of handles is *)
(* exact, no file is closed with writes in the buffer of its owner unless    *)
(* its flush failed, and the limit is exceeded only when no file could be    *)
(* closed, for any number of files and any limit.                            *)
EXTENDS FilesManager, TLAPS, FiniteSetTheorems

(* The time each step may take, for the ones that name no prover. *)
USE SMTT(60)

(* The values of the state of a file and of what its owner is doing. *)
Shape ==
    /\ fmState \in [Files -> {"none", "inUse", "opened", "closing", "closed", "removed", "fmClosed"}]
    /\ fmPc \in [Files -> {"idle", "opening", "waiting", "using", "toClose", "gone"}]
    /\ handle \subseteq Files /\ buffered \subseteq Files /\ managed \subseteq Files
    /\ closing \subseteq Files /\ (closing # {} => isClosed)
    /\ IsFiniteSet(handle)
    /\ openedFDs = Cardinality(handle)

(* The manager opens one file at a time and closes one other meanwhile.       *)
SweepShape ==
    /\ sweep \in [for : SUBSET Files, left : SUBSET Files, at : SUBSET Files]
    /\ sweep.for = {} => sweep = NoSweep
    /\ isClosed => sweep.for = {}
    /\ \A g, h \in sweep.for : g = h
    /\ \A g, h \in sweep.at : g = h

(* What closeUnusedFiles has passed is not open and unused, unless its owner  *)
(* unlocked it since.                                                         *)
Swept ==
    sweep.for # {} /\ FDLimit > 0 /\ openedFDs >= FDLimit =>
        \A g \in managed : fmState[g] = "opened" => g \in sweep.left \cup touched

(* A file is in use or being closed exactly when its owner, or the loop of    *)
(* closeUnusedFiles, is at it: that is what the compare-and-swap of a state   *)
(* protects. The manager's own close switches files that nobody has locked.   *)
FileRight(f) ==
    /\ fmState[f] \in {"inUse", "opened", "closing"} => f \in handle
    /\ fmState[f] \in {"none", "closed", "removed"} => f \notin handle /\ (f \in buffered => f \in unflushed)
    /\ fmState[f] = "inUse" <=> fmPc[f] = "using"
    /\ fmState[f] = "opened" => fmPc[f] = "idle"
    /\ fmState[f] = "closing" <=> fmPc[f] = "toClose" \/ f \in sweep.at
    /\ f \in sweep.at => fmPc[f] \in {"idle", "opening"}
    /\ fmPc[f] = "opening" => fmState[f] \in {"closed", "removed", "fmClosed"} \/ f \in sweep.at
    /\ fmPc[f] = "waiting" <=> f \in sweep.for
    /\ f \in sweep.for => fmState[f] \in {"none", "closed"}
    /\ fmState[f] = "fmClosed" =>
          isClosed /\ (f \in switched \/ (f \notin handle /\ (f \in buffered => f \in unflushed)))
    /\ f \in switched => fmState[f] = "fmClosed" /\ f \in handle

FMInv ==
    /\ Shape /\ SweepShape /\ Swept
    /\ \A f \in Files : FileRight(f)
    /\ switched = {} \/ \E f \in Files : switched = {f}
    /\ ~panicked

(* One file changes: the rest of the invariant is about that file. *)
LEMMA OneFile ==
    ASSUME FMInv, NEW f \in Files, Shape', SweepShape', Swept', FileRight(f)', UNCHANGED <<isClosed, panicked>>,
           \A g \in Files \ {f} : /\ fmState'[g] = fmState[g] /\ fmPc'[g] = fmPc[g]
                                  /\ (g \in handle' <=> g \in handle)
                                  /\ (g \in buffered' <=> g \in buffered)
                                  /\ (g \in unflushed' <=> g \in unflushed)
                                  /\ (g \in sweep'.at <=> g \in sweep.at)
                                  /\ (g \in sweep'.for <=> g \in sweep.for)
                                  /\ (g \in switched' <=> g \in switched),
           switched' = {} \/ \E g \in Files : switched' = {g}
    PROVE  FMInv'
<1>1. ASSUME NEW g \in Files PROVE FileRight(g)'
    BY DEF FMInv, FileRight
<1> QED
    BY <1>1 DEF FMInv

(* The loop of closeUnusedFiles, and the opening that follows it. *)
LEMMA SweepSteps ==
    ASSUME FMInv, NEW f \in Files, closeUnused(f) \/ closedUnused(f) \/ Opened(f)
    PROVE  FMInv'
<1>0. FileRight(f) /\ Shape /\ SweepShape /\ Swept
    BY DEF FMInv
<1>c. /\ IsFiniteSet(handle \ {f}) /\ IsFiniteSet(handle \cup {f})
      /\ Cardinality(handle \ {f}) = IF f \in handle THEN Cardinality(handle) - 1 ELSE Cardinality(handle)
      /\ Cardinality(handle \cup {f}) = IF f \in handle THEN Cardinality(handle) ELSE Cardinality(handle) + 1
    BY <1>0, FS_RemoveElement, FS_AddElement DEF Shape
<1>t. openedFDs \in Nat /\ FDLimit \in Nat
    BY <1>0, FS_CardinalityType, FilesManagerAssumption DEF Shape
<1>1. CASE closeUnused(f)
    <2> DEFINE A == IF fmState[f] = "opened" THEN {f} ELSE {}
    <2>a. f \in sweep.left /\ sweep.at = {} /\ sweep' = [for |-> sweep.for, left |-> sweep.left \ {f}, at |-> A]
        BY <1>1 DEF closeUnused
    <2>b. A \in SUBSET Files
        OBVIOUS
    <2> HIDE DEF A
    <2>c. /\ sweep'.for = sweep.for /\ sweep'.left = sweep.left \ {f} /\ sweep'.at = A
          /\ sweep' \in [for : SUBSET Files, left : SUBSET Files, at : SUBSET Files]
        BY <1>0, <2>a, <2>b DEF SweepShape
    <2>0. /\ f \in sweep.left /\ sweep.at = {} /\ sweep'.for = sweep.for /\ sweep'.left = sweep.left \ {f}
          /\ sweep'.at = (IF fmState[f] = "opened" THEN {f} ELSE {})
          /\ sweep' \in [for : SUBSET Files, left : SUBSET Files, at : SUBSET Files]
        BY <2>a, <2>c, Zenon DEF A
    <2>1. sweep.for # {} /\ ~isClosed
        BY <1>0, <2>0 DEF SweepShape, NoSweep
    <2>2. SweepShape'
        BY <1>0, <1>1, <2>0, <2>1 DEF closeUnused, SweepShape
    <2>3. Shape' /\ FileRight(f)'
        BY <1>0, <1>1, <2>0 DEF closeUnused, Shape, FileRight
    <2>4. Swept'
        BY <1>0, <1>1, <2>0 DEF closeUnused, Shape, Swept
    <2>5. \A g \in Files \ {f} : fmState'[g] = fmState[g]
        BY <1>0, <1>1 DEF closeUnused, Shape
    <2> QED
        BY <1>1, <2>0, <2>2, <2>3, <2>4, <2>5, OneFile DEF closeUnused, FMInv
<1>2. CASE closedUnused(f)
    <2> DEFINE L == IF openedFDs' >= FDLimit THEN sweep.left ELSE {}
    <2>a. sweep' = [for |-> sweep.for, at |-> {}, left |-> L]
        BY <1>2 DEF closedUnused
    <2>d. sweep.at = {f}
        BY <1>0, <1>2 DEF closedUnused, SweepShape
    <2>b. L \in SUBSET Files
        BY <1>0 DEF SweepShape
    <2> HIDE DEF L
    <2>c. /\ sweep'.for = sweep.for /\ sweep'.left = L /\ sweep'.at = {}
          /\ sweep' \in [for : SUBSET Files, left : SUBSET Files, at : SUBSET Files]
        BY <1>0, <2>a, <2>b DEF SweepShape
    <2>0. /\ sweep.at = {f} /\ sweep'.for = sweep.for /\ sweep'.at = {}
          /\ sweep'.left = (IF openedFDs' >= FDLimit THEN sweep.left ELSE {})
          /\ sweep' \in [for : SUBSET Files, left : SUBSET Files, at : SUBSET Files]
        BY <2>c, <2>d, Zenon DEF L
    <2>1. sweep.for # {} /\ ~isClosed
        BY <1>0, <2>0 DEF SweepShape, NoSweep
    <2>2. SweepShape'
        BY <1>0, <1>2, <2>0, <2>1 DEF closedUnused, SweepShape
    <2>3. Shape' /\ FileRight(f)'
        BY <1>0, <1>c, <1>2, <2>0 DEF closedUnused, doClose, Shape, FileRight
    <2>4. Swept'
        BY <1>0, <1>t, <1>2, <2>0 DEF closedUnused, doClose, Shape, Swept
    <2>5. \A g \in Files \ {f} : fmState'[g] = fmState[g]
        BY <1>0, <1>2 DEF closedUnused, doClose, Shape
    <2>6. \A g \in Files \ {f} : /\ (g \in handle' <=> g \in handle) /\ (g \in buffered' <=> g \in buffered)
                                 /\ (g \in unflushed' <=> g \in unflushed)
        BY <1>2 DEF closedUnused, doClose
    <2> QED
        BY <1>2, <2>0, <2>2, <2>3, <2>4, <2>5, <2>6, OneFile DEF closedUnused, FMInv
<1>3. CASE Opened(f)
    <2>0. sweep.for = {f} /\ sweep.at = {} /\ sweep' = NoSweep
        BY <1>0, <1>3 DEF Opened, SweepShape
    <2>1. SweepShape' /\ Swept'
        BY <2>0 DEF SweepShape, Swept, NoSweep
    <2>2. Shape' /\ FileRight(f)'
        BY <1>0, <1>c, <1>3, <2>0 DEF Opened, Goto, Shape, FileRight, NoSweep
    <2>3. \A g \in Files \ {f} : /\ fmState'[g] = fmState[g] /\ fmPc'[g] = fmPc[g]
                                 /\ (g \in handle' <=> g \in handle) /\ (g \in buffered' <=> g \in buffered)
                                 /\ (g \in unflushed' <=> g \in unflushed)
        BY <1>0, <1>3 DEF Opened, Goto, Shape
    <2> QED
        BY <1>3, <2>0, <2>1, <2>2, <2>3, OneFile DEF Opened, NoSweep, FMInv
<1> QED
    BY <1>1, <1>2, <1>3

(* createFile and openFile take the lock and begin. *)
LEMMA StartSteps ==
    ASSUME FMInv, NEW f \in Files, StartOpen(f), Unlocked, ~isClosed,
           fmState[f] \in {"none", "closed"}, fmPc[f] \in {"idle", "opening"},
           UNCHANGED <<fmState, handle, managed, buffered, openedFDs, isClosed, closing, switched,
                       panicked, touched, unflushed>>
    PROVE  FMInv'
<1>0. FileRight(f) /\ Shape /\ SweepShape
    BY DEF FMInv
<1>1. /\ sweep'.for = {f} /\ sweep'.at = {} /\ sweep.at = {} /\ sweep.for = {}
      /\ sweep'.left = (IF FDLimit > 0 /\ openedFDs >= FDLimit THEN managed \ {f} ELSE {})
      /\ sweep' \in [for : SUBSET Files, left : SUBSET Files, at : SUBSET Files]
    BY <1>0 DEF StartOpen, Unlocked, SweepShape, NoSweep, Shape
<1>2. SweepShape'
    BY <1>1 DEF SweepShape
<1>3. Swept'
    BY <1>1 DEF Swept
<1>4. Shape' /\ FileRight(f)'
    BY <1>0, <1>1 DEF StartOpen, Goto, Shape, FileRight
<1>5. \A g \in Files \ {f} : fmPc'[g] = fmPc[g]
    BY <1>0 DEF StartOpen, Goto, Shape
<1> QED
    BY <1>1, <1>2, <1>3, <1>4, <1>5, OneFile DEF FMInv

(* The owner locks, uses, unlocks, closes or removes its file. *)
LEMMA OwnerSteps ==
    ASSUME FMInv, NEW f \in Files,
           \/ createFile(f) \/ lockFile(f) \/ openFile(f) \/ WriteFile(f) \/ unlockFile(f)
           \/ closeLockedFile(f) \/ closeFileIfOpened(f) \/ CloseFile(f) \/ removeFile(f)
    PROVE  FMInv'
<1>0. FileRight(f) /\ Shape /\ SweepShape /\ Swept
    BY DEF FMInv
<1>c. /\ IsFiniteSet(handle \ {f})
      /\ Cardinality(handle \ {f}) = IF f \in handle THEN Cardinality(handle) - 1 ELSE Cardinality(handle)
    BY <1>0, FS_RemoveElement DEF Shape
<1>s. ASSUME UNCHANGED <<sweep, isClosed>> PROVE SweepShape'
    BY <1>0, <1>s DEF SweepShape
<1>w. ASSUME UNCHANGED sweep, Unlocked PROVE Swept'
    BY <1>w DEF Swept, Unlocked
<1>1. CASE createFile(f)
    BY <1>1, StartSteps DEF createFile
<1>2. CASE lockFile(f)
    <2>1. Shape' /\ FileRight(f)'
        BY <1>0, <1>2 DEF lockFile, Shape, FileRight, Goto
    <2>2. Swept'
        BY <1>0, <1>2 DEF lockFile, Shape, Swept
    <2>3. \A g \in Files \ {f} : fmState'[g] = fmState[g] /\ fmPc'[g] = fmPc[g]
        BY <1>0, <1>2 DEF lockFile, Shape, Goto
    <2> QED
        BY <1>2, <1>s, <2>1, <2>2, <2>3, OneFile DEF lockFile, FMInv
<1>3. CASE openFile(f)
    <2>0. fmPc[f] = "opening" /\ sweep.for = {} /\ sweep.at = {}
        BY <1>0, <1>3 DEF openFile, Unlocked, SweepShape, NoSweep
    <2>1. CASE Goto(f, "idle") /\ UNCHANGED <<sweep, panicked>>
        <3>1. Shape' /\ FileRight(f)'
            BY <1>0, <1>3, <2>0, <2>1 DEF openFile, Shape, FileRight, Goto
        <3>2. SweepShape' /\ Swept'
            BY <1>3, <1>s, <1>w, <2>1 DEF openFile
        <3>3. \A g \in Files \ {f} : fmPc'[g] = fmPc[g]
            BY <1>0, <2>1 DEF Shape, Goto
        <3> QED
            BY <1>3, <2>1, <3>1, <3>2, <3>3, OneFile DEF openFile, FMInv
    <2>2. ~(~isClosed /\ fmState[f] # "removed" /\ (fmState[f] # "closed" \/ f \in handle))
        BY <1>0, <2>0 DEF FileRight
    <2>3. CASE ~isClosed /\ fmState[f] = "closed" /\ StartOpen(f) /\ UNCHANGED panicked
        BY <1>3, <2>0, <2>3, StartSteps DEF openFile
    <2> QED
        BY <1>3, <2>1, <2>2, <2>3 DEF openFile
<1>4. CASE WriteFile(f)
    <2>1. Shape' /\ FileRight(f)'
        BY <1>0, <1>4 DEF WriteFile, Shape, FileRight
    <2>2. SweepShape' /\ Swept'
        BY <1>0, <1>4, <1>s DEF WriteFile, Swept
    <2> QED
        BY <1>4, <2>1, <2>2, OneFile DEF WriteFile, FMInv
<1>5. ASSUME NEW from, NEW to, NEW pc, Switch(f, from, to, pc), fmState[f] = from,
             \/ from = "inUse" /\ to = "opened" /\ pc = "idle" /\ fmPc[f] = "using"
             \/ from = "inUse" /\ to = "closing" /\ pc = "toClose" /\ fmPc[f] = "using"
             \/ from = "opened" /\ to = "closing" /\ pc = "toClose" /\ fmPc[f] = "idle"
      PROVE  FMInv'
    <2>1. Shape' /\ FileRight(f)'
        BY <1>0, <1>5 DEF Switch, Shape, FileRight, Goto
    <2>2. Swept'
        BY <1>0, <1>5 DEF Switch, Shape, Swept, Unlocked
    <2>3. \A g \in Files \ {f} : fmState'[g] = fmState[g] /\ fmPc'[g] = fmPc[g]
        BY <1>0, <1>5 DEF Switch, Shape, Goto
    <2> QED
        BY <1>5, <1>s, <2>1, <2>2, <2>3, OneFile DEF Switch, FMInv
<1>6. CASE unlockFile(f)
    BY <1>0, <1>5, <1>6 DEF unlockFile, FileRight
<1>7. CASE closeLockedFile(f)
    BY <1>0, <1>5, <1>7 DEF closeLockedFile, FileRight
<1>8. CASE closeFileIfOpened(f)
    BY <1>5, <1>8 DEF closeFileIfOpened
<1>9. CASE CloseFile(f)
    <2>0. sweep.for = {} /\ sweep.at = {}
        BY <1>0, <1>9 DEF CloseFile, Unlocked, SweepShape, NoSweep
    <2>1. Shape' /\ FileRight(f)'
        BY <1>0, <1>c, <1>9, <2>0 DEF CloseFile, doClose, Shape, FileRight, Goto
    <2>2. SweepShape' /\ Swept'
        BY <1>9, <1>s, <1>w DEF CloseFile
    <2>3. \A g \in Files \ {f} : fmState'[g] = fmState[g] /\ fmPc'[g] = fmPc[g]
        BY <1>0, <1>9 DEF CloseFile, doClose, Shape, Goto
    <2>4. \A g \in Files \ {f} : /\ (g \in handle' <=> g \in handle) /\ (g \in buffered' <=> g \in buffered)
                                 /\ (g \in unflushed' <=> g \in unflushed)
        BY <1>9 DEF CloseFile, doClose
    <2> QED
        BY <1>9, <2>1, <2>2, <2>3, <2>4, OneFile DEF CloseFile, FMInv
<1>10. CASE removeFile(f)
    <2>0. sweep.for = {} /\ sweep.at = {}
        BY <1>0, <1>10 DEF removeFile, Unlocked, SweepShape, NoSweep
    <2>1. Shape' /\ FileRight(f)'
        BY <1>0, <1>c, <1>10, <2>0 DEF removeFile, Shape, FileRight, Goto
    <2>2. SweepShape' /\ Swept'
        BY <1>10, <1>s, <1>w DEF removeFile
    <2>3. \A g \in Files \ {f} : fmState'[g] = fmState[g] /\ fmPc'[g] = fmPc[g]
        BY <1>0, <1>10 DEF removeFile, Shape, Goto
    <2>4. \A g \in Files \ {f} : /\ (g \in handle' <=> g \in handle) /\ (g \in buffered' <=> g \in buffered)
                                 /\ (g \in unflushed' <=> g \in unflushed)
        BY <1>10 DEF removeFile
    <2> QED
        BY <1>10, <2>1, <2>2, <2>3, <2>4, OneFile DEF removeFile, FMInv
<1> QED
    BY <1>1, <1>2, <1>3, <1>4, <1>6, <1>7, <1>8, <1>9, <1>10

(* The manager's close switches a file that is not locked, then closes it. *)
LEMMA CloseSteps ==
    ASSUME FMInv, FMClose \/ \E f \in Files : FMCloseSwitch(f) \/ FMCloseFile(f)
    PROVE  FMInv'
<1>0. Shape /\ SweepShape /\ \A f \in Files : FileRight(f)
    BY DEF FMInv
<1>s. ASSUME UNCHANGED sweep, sweep.for = {} PROVE SweepShape' /\ Swept'
    BY <1>0, <1>s DEF SweepShape, Swept, NoSweep
<1>1. CASE FMClose
    <2>1. Shape' /\ SweepShape' /\ Swept'
        BY <1>0, <1>1, <1>s DEF FMClose, Shape, Unlocked
    <2>2. \A f \in Files : FileRight(f)'
        BY <1>0, <1>1 DEF FMClose, FileRight
    <2> QED
        BY <1>1, <2>1, <2>2 DEF FMClose, FMInv
<1>2. ASSUME NEW f \in Files, FMCloseSwitch(f) PROVE FMInv'
    <2>0. isClosed /\ sweep.for = {} /\ sweep.at = {}
        BY <1>0, <1>2 DEF FMCloseSwitch, Shape, SweepShape, NoSweep
    <2>1. Shape' /\ FileRight(f)'
        BY <1>0, <1>2, <2>0 DEF FMCloseSwitch, Shape, FileRight
    <2>2. SweepShape' /\ Swept'
        BY <1>2, <1>s, <2>0 DEF FMCloseSwitch
    <2>3. \A g \in Files \ {f} : fmState'[g] = fmState[g]
        BY <1>0, <1>2 DEF FMCloseSwitch, Shape
    <2> QED
        BY <1>2, <2>1, <2>2, <2>3, OneFile DEF FMCloseSwitch, FMInv
<1>3. ASSUME NEW f \in Files, FMCloseFile(f) PROVE FMInv'
    <2>1. /\ IsFiniteSet(handle \ {f})
          /\ f \in handle => Cardinality(handle \ {f}) = Cardinality(handle) - 1
        BY <1>0, FS_RemoveElement DEF Shape
    <2>2. switched = {f}
        BY <1>3 DEF FMCloseFile, FMInv
    <2>0. sweep.for = {} /\ sweep.at = {}
        BY <1>0, <2>2 DEF FileRight, SweepShape, NoSweep
    <2>3. Shape' /\ FileRight(f)'
        BY <1>0, <1>3, <2>0, <2>1, <2>2 DEF FMCloseFile, doClose, Shape, FileRight
    <2>4. SweepShape' /\ Swept'
        BY <1>3, <1>s, <2>0 DEF FMCloseFile
    <2>5. \A g \in Files \ {f} : /\ fmState'[g] = fmState[g]
                                 /\ (g \in handle' <=> g \in handle) /\ (g \in buffered' <=> g \in buffered)
                                 /\ (g \in unflushed' <=> g \in unflushed)
        BY <1>0, <1>3 DEF FMCloseFile, doClose, Shape
    <2> QED
        BY <1>3, <2>2, <2>3, <2>4, <2>5, OneFile DEF FMCloseFile
<1> QED
    BY <1>1, <1>2, <1>3

(* FMInv is inductive. *)
LEMMA Invariance == FMSpec => []FMInv
<1>1. FMInit => FMInv
    BY FS_EmptySet DEF FMInit, FMInv, Shape, SweepShape, Swept, NoSweep, FileRight
<1>2. FMInv /\ [FMNext]_fmVars => FMInv'
    <2>1. ASSUME FMInv, UNCHANGED fmVars PROVE FMInv'
        BY <2>1 DEF fmVars, FMInv, Shape, SweepShape, Swept, FileRight
    <2> QED
        BY <2>1, OwnerSteps, SweepSteps, CloseSteps DEF FMNext
<1> QED
    BY <1>1, <1>2, PTL DEF FMSpec

(* No sequence of opens, locks, closes and removals by the owners, of the     *)
(* files that opens close behind their backs, one by one, while the owners go *)
(* on, and of the manager's own close reaches a panic, a wrong count or a     *)
(* closed file with buffered writes whose flush did not fail.                 *)
THEOREM HandlesAlwaysRight == FMSpec => []HandlesRight
<1>1. FMInv => HandlesRight
    BY DEF FMInv, Shape, FileRight, HandlesRight
<1> QED
    BY <1>1, Invariance, PTL

(* closeUnusedFiles stops early only when the file that is being opened fits: *)
(* an open that ends above the limit has closed all that could be, but for    *)
(* the files their owners unlocked while its loop ran, behind its back.       *)
THEOREM LimitExceededOnlyIfNeeded == FMSpec => SoftLimit
<1> DEFINE Soft == openedFDs' > openedFDs /\ FDLimit > 0 /\ openedFDs' > FDLimit =>
                      \A f \in managed : fmState'[f] = "opened" => f \in touched
<1>1. ASSUME FMInv, NEW f \in Files, Opened(f) PROVE Soft
    <2>1. SUFFICES ASSUME openedFDs' > openedFDs, FDLimit > 0, openedFDs' > FDLimit,
                          NEW g \in managed, fmState'[g] = "opened"
                   PROVE  g \in touched
        OBVIOUS
    <2>2. openedFDs \in Nat /\ FDLimit \in Nat /\ g \in Files
        BY <1>1, FS_CardinalityType, FilesManagerAssumption DEF FMInv, Shape
    <2>3. openedFDs >= FDLimit /\ fmState[g] = "opened"
        BY <1>1, <2>1, <2>2 DEF Opened, FMInv, Shape
    <2> QED
        BY <1>1, <2>1, <2>3 DEF Opened, FMInv, Swept
<1>2. ASSUME FMInv, [FMNext]_fmVars, ~Soft
      PROVE  \E f \in Files : Opened(f)
    <2>1. openedFDs \in Nat /\ openedFDs' > openedFDs
        BY <1>2, FS_CardinalityType DEF FMInv, Shape
    <2>2. openedFDs' # openedFDs - 1 /\ openedFDs' # openedFDs
        BY <2>1
    <2> QED
        BY <1>2, <2>2 DEF FMNext, fmVars, createFile, lockFile, openFile, WriteFile, unlockFile,
              closeUnused, closedUnused, closeLockedFile, closeFileIfOpened, Switch, CloseFile,
              doClose, removeFile, FMClose, FMCloseSwitch, FMCloseFile
<1>3. FMInv /\ [FMNext]_fmVars => [Soft]_fmVars
    BY <1>1, <1>2
<1> QED
    BY <1>3, Invariance, PTL DEF FMSpec, SoftLimit
=============================================================================
