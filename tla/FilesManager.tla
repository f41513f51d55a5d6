---------------------------- MODULE FilesManager ----------------------------
(* The files manager of the file store (stores/filestore.go, type            *)
(* filesManager). Each file belongs to one store, which locks it to use it;  *)
(* opening a file above the soft limit closes files of other stores that are *)
(* open and not in use, flushing their buffers first. A state is switched by *)
(* compare-and-swap, most of the rest is done under the lock of the manager. *)
EXTENDS Integers, FiniteSets

CONSTANTS Files,     \* the files, each one with its owner
          FDLimit    \* FileDescriptorsLimit, 0 for none

ASSUME FilesManagerAssumption == FDLimit \in Nat

VARIABLES fmState,   \* file -> "none", "inUse", "opened", "closing", "closed", "removed", "fmClosed"
          handle,    \* the files with an open handle
          managed,   \* the keys of fm.files
          buffered,  \* the files with writes in the buffer of their owner
          openedFDs,
          fmPc,      \* file -> what its owner is doing
          sweep,     \* closeUnusedFiles: see NoSweep
          isClosed, closing,  \* close was called; the files it has left to close
          switched,  \* the file close has switched and is about to close
          panicked,
          touched,   \* the files unlocked since the open under way began
          unflushed  \* the closed files whose flush failed

fmVars == <<fmState, handle, managed, buffered, openedFDs, fmPc, sweep, isClosed, closing,
            switched, panicked, touched, unflushed>>

\* for: the file that is being created or opened, by the holder of the manager's
\* lock; left: the files closeUnusedFiles has not visited; at: the one it closes.
NoSweep == [for |-> {}, left |-> {}, at |-> {}]
Unlocked == sweep.for = {}

FMInit ==
    /\ fmState = [f \in Files |-> "none"] /\ handle = {} /\ managed = {} /\ buffered = {}
    /\ openedFDs = 0 /\ fmPc = [f \in Files |-> "idle"] /\ sweep = NoSweep /\ isClosed = FALSE
    /\ closing = {} /\ switched = {} /\ panicked = FALSE /\ touched = {} /\ unflushed = {}

Goto(f, where) == fmPc' = [fmPc EXCEPT ![f] = where]

-----------------------------------------------------------------------------
\* doClose: the buffer is flushed, the handle closed whatever becomes of that.
doCloseUnflushed(f) ==
    /\ handle' = handle \ {f} /\ UNCHANGED <<buffered, unflushed>>
    /\ fmState' = [fmState EXCEPT ![f] = "closed"]
    /\ openedFDs' = openedFDs - 1
doClose(f) ==
    /\ handle' = handle \ {f}
    /\ \/ buffered' = buffered \ {f} /\ UNCHANGED unflushed
       \/ f \in buffered /\ unflushed' = unflushed \cup {f} /\ UNCHANGED buffered
    /\ fmState' = [fmState EXCEPT ![f] = "closed"]
    /\ openedFDs' = openedFDs - 1

\* createFile and openFile hold the lock of the manager, while the owners of the
\* other files go on locking and unlocking them. First closeUnusedFiles, if it is
\* needed, in the order of the map.
StartOpenAbove(f) ==
    /\ sweep' = [for |-> {f}, at |-> {},
                 left |-> IF FDLimit > 0 /\ openedFDs > FDLimit THEN managed \ {f} ELSE {}]
    /\ Goto(f, "waiting")
StartOpen(f) ==
    /\ sweep' = [for |-> {f}, at |-> {},
                 left |-> IF FDLimit > 0 /\ openedFDs >= FDLimit THEN managed \ {f} ELSE {}]
    /\ Goto(f, "waiting")

\* The compare-and-swap of one file.
closeUnused(g) ==
    /\ g \in sweep.left /\ sweep.at = {}
    /\ fmState' = IF fmState[g] = "opened" THEN [fmState EXCEPT ![g] = "closing"] ELSE fmState
    /\ sweep' = [for |-> sweep.for, left |-> sweep.left \ {g},
                 at |-> IF fmState[g] = "opened" THEN {g} ELSE {}]
    /\ UNCHANGED <<handle, managed, buffered, openedFDs, fmPc, isClosed, closing, switched,
                   panicked, touched, unflushed>>

\* It is closed, an error of its flush ignored, and the loop ends if there is room.
closedUnused(g) ==
    /\ g \in sweep.at /\ doClose(g)
    /\ sweep' = [for |-> sweep.for, at |-> {},
                 left |-> IF openedFDs' >= FDLimit THEN sweep.left ELSE {}]
    /\ UNCHANGED <<managed, fmPc, isClosed, closing, switched, panicked, touched>>

\* The file is opened, or the system refuses. Its writer is a new one.
Opened(f) ==
    /\ f \in sweep.for /\ sweep.left = {} /\ sweep.at = {}
    /\ sweep' = NoSweep /\ touched' = {}
    /\ \/ /\ fmState' = [fmState EXCEPT ![f] = "inUse"] /\ managed' = managed \cup {f}
          /\ handle' = handle \cup {f} /\ openedFDs' = openedFDs + 1
          /\ buffered' = buffered \ {f} /\ unflushed' = unflushed \ {f}
          /\ Goto(f, "using")
       \/ Goto(f, "idle") /\ UNCHANGED <<fmState, managed, handle, openedFDs, buffered, unflushed>>
    /\ UNCHANGED <<isClosed, closing, switched, panicked>>

createFile(f) ==
    /\ fmPc[f] = "idle" /\ fmState[f] = "none" /\ ~isClosed /\ Unlocked
    /\ StartOpen(f)
    /\ UNCHANGED <<fmState, handle, managed, buffered, openedFDs, isClosed, closing, switched,
                   panicked, touched, unflushed>>

\* lockFile: the swap, or the file has to be opened.
lockFile(f) ==
    /\ fmPc[f] = "idle" /\ fmState[f] # "none"
    /\ \/ fmState[f] = "opened" /\ fmState' = [fmState EXCEPT ![f] = "inUse"] /\ Goto(f, "using")
       \/ fmState[f] # "opened" /\ Goto(f, "opening") /\ UNCHANGED fmState
    /\ UNCHANGED <<handle, managed, buffered, openedFDs, sweep, isClosed, closing, switched,
                   panicked, touched, unflushed>>

openFile(f) ==
    /\ fmPc[f] = "opening" /\ Unlocked
    /\ \/ /\ isClosed \/ fmState[f] = "removed"
          /\ Goto(f, "idle") /\ UNCHANGED <<sweep, panicked>>
       \/ /\ ~isClosed /\ fmState[f] # "removed" /\ (fmState[f] # "closed" \/ f \in handle)
          /\ panicked' = TRUE /\ UNCHANGED <<sweep, fmPc>>
       \/ /\ ~isClosed /\ fmState[f] = "closed" /\ f \notin handle
          /\ StartOpen(f) /\ UNCHANGED panicked
    /\ UNCHANGED <<fmState, handle, managed, buffered, openedFDs, isClosed, closing, switched,
                   touched, unflushed>>

\* The owner writes to the file it has locked.
WriteFile(f) ==
    /\ fmPc[f] = "using" /\ buffered' = buffered \cup {f}
    /\ UNCHANGED <<fmState, handle, managed, openedFDs, fmPc, sweep, isClosed, closing, switched,
                   panicked, touched, unflushed>>

\* unlockFile; closeLockedFile and closeFileIfOpened: the state is switched
\* first, the file is closed under the lock.
Switch(f, from, to, pc) ==
    /\ IF fmState[f] = from THEN fmState' = [fmState EXCEPT ![f] = to] /\ UNCHANGED panicked
       ELSE panicked' = TRUE /\ UNCHANGED fmState
    /\ Goto(f, pc)
    /\ touched' = IF to = "opened" /\ ~Unlocked THEN touched \cup {f} ELSE touched
    /\ UNCHANGED <<handle, managed, buffered, openedFDs, sweep, isClosed, closing, switched, unflushed>>
unlockFile(f) == fmPc[f] = "using" /\ Switch(f, "inUse", "opened", "idle")
closeLockedFile(f) == fmPc[f] = "using" /\ Switch(f, "inUse", "closing", "toClose")
closeFileIfOpened(f) ==
    fmPc[f] = "idle" /\ fmState[f] = "opened" /\ Switch(f, "opened", "closing", "toClose")

CloseFile(f) ==
    /\ fmPc[f] = "toClose" /\ Unlocked
    /\ doClose(f) /\ Goto(f, "idle")
    /\ UNCHANGED <<managed, sweep, isClosed, closing, switched, panicked, touched>>

\* remove, then the owner flushes and closes the handle if it has one. It gives
\* up when the state does not become "opened" or "closed".
removeFile(f) ==
    /\ fmPc[f] = "idle" /\ fmState[f] # "none" /\ Unlocked
    /\ IF fmState[f] \in {"opened", "closed"}
       THEN /\ fmState' = [fmState EXCEPT ![f] = "removed"]
            /\ managed' = managed \ {f}
            /\ openedFDs' = IF fmState[f] = "opened" THEN openedFDs - 1 ELSE openedFDs
            /\ handle' = handle \ {f} /\ buffered' = buffered \ {f}
            /\ unflushed' = unflushed \ {f}
       ELSE UNCHANGED <<fmState, managed, openedFDs, handle, buffered, unflushed>>
    /\ Goto(f, "gone")
    /\ UNCHANGED <<sweep, isClosed, closing, switched, panicked, touched>>

-----------------------------------------------------------------------------
\* close: no file can be opened any more; then the files one by one, each one
\* switched first and closed under the lock, or given up if it stays locked.
FMClose ==
    /\ ~isClosed /\ Unlocked /\ isClosed' = TRUE
    /\ closing' = managed /\ managed' = {}
    /\ UNCHANGED <<fmState, handle, buffered, openedFDs, fmPc, sweep, switched, panicked, touched, unflushed>>

FMCloseSwitch(f) ==
    /\ f \in closing /\ switched = {}
    /\ closing' = closing \ {f}
    /\ \/ fmState[f] = "opened" /\ fmState' = [fmState EXCEPT ![f] = "fmClosed"] /\ switched' = {f}
       \/ fmState[f] = "closed" /\ fmState' = [fmState EXCEPT ![f] = "fmClosed"] /\ UNCHANGED switched
       \/ fmState[f] \notin {"opened", "closed"} /\ UNCHANGED <<fmState, switched>>
    /\ UNCHANGED <<handle, managed, buffered, openedFDs, fmPc, sweep, isClosed, panicked, touched, unflushed>>

FMCloseFile(f) ==
    /\ f \in switched /\ switched' = {}
    /\ doClose(f)
    /\ UNCHANGED <<managed, fmPc, sweep, isClosed, closing, panicked, touched>>

FMNext ==
    \/ \E f \in Files :
          \/ createFile(f) \/ lockFile(f) \/ openFile(f) \/ WriteFile(f) \/ unlockFile(f)
          \/ closeUnused(f) \/ closedUnused(f) \/ Opened(f)
          \/ closeLockedFile(f) \/ closeFileIfOpened(f) \/ CloseFile(f) \/ removeFile(f)
          \/ FMCloseSwitch(f) \/ FMCloseFile(f)
    \/ FMClose

FMSpec == FMInit /\ [][FMNext]_fmVars

-----------------------------------------------------------------------------
FMTypeOK ==
    /\ handle \subseteq Files /\ managed \subseteq Files /\ buffered \subseteq Files
    /\ touched \subseteq Files /\ unflushed \subseteq Files
    /\ openedFDs \in Nat

\* The panics of openFile, unlockFile and closeLockedFile cannot happen as long
\* as each file has one owner, the count of open files is exact, a file in use
\* has its handle, and a file that was closed behind its owner's back by another
\* store's open, or by the manager's close, has nothing left in the buffer unless
\* its flush failed.
HandlesRight ==
    /\ ~panicked
    /\ openedFDs = Cardinality(handle)
    /\ \A f \in Files : /\ fmState[f] \in {"inUse", "opened", "closing"} => f \in handle
                        /\ fmState[f] = "closed" => f \notin handle /\ (f \in buffered => f \in unflushed)
                        /\ fmPc[f] = "using" => fmState[f] = "inUse"

\* The limit is exceeded only when nothing could be closed: an open that ends
\* above it leaves no other file that is open and unused, but for those that
\* their owners unlocked after the open had begun, when closeUnusedFiles may have
\* passed them already.
SoftLimit ==
    [][openedFDs' > openedFDs /\ FDLimit > 0 /\ openedFDs' > FDLimit =>
         \A f \in managed : fmState'[f] = "opened" => f \in touched]_fmVars
=============================================================================
