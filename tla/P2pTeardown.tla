----------------------------- MODULE P2pTeardown -----------------------------
(***************************************************************************)
(* The end of the P2P connections (flagcx/core/proxy.cc, p2p.cc).  Each    *)
(* connection has one FIFO in the device memory of its receiver; the       *)
(* sender has imported it and its proxy worker writes to it through the    *)
(* mapping, while the receiver's worker reads from it.  The service thread *)
(* of a rank first retires its workers and then makes two passes over its  *)
(* pool of connections: the first closes the imports and acknowledges this *)
(* in shared memory (fifoImportClosed), the second waits for the peers'    *)
(* acknowledgements and frees the FIFOs.  The ranks tear down on their     *)
(* own, in any order relative to each other.                               *)
(*                                                                         *)
(* A visit of one connection blocks the service thread of its rank.  The   *)
(* pool order is any order.  The events, streams and shared memory that    *)
(* are closed with a connection do not matter here.  The specification's   *)
(* own names say Teardown, so that P2pProofs can extend this module and    *)
(* P2pSlot.                                                                *)
(***************************************************************************)
EXTENDS Naturals

CONSTANTS
  Rank,
  Conn,        \* the P2P connections, <<sender, receiver>>
  NoConn,      \* no connection is being visited
  MayFail,     \* whether device calls and worker retirement may fail
  MayTimeOut   \* whether FLAGCX_P2P_TEARDOWN_TIMEOUT may expire

ASSUME P2pTeardownAssumption ==
  /\ Conn \subseteq {c \in Rank \X Rank : c[1] # c[2]}
  /\ NoConn \notin Conn
  /\ MayFail \in BOOLEAN
  /\ MayTimeOut \in BOOLEAN

Sender(c) == c[1]
Receiver(c) == c[2]

\* The connection pool of r: its own end of each of its connections.
Pool(r) == {c \in Conn : r \in {Sender(c), Receiver(c)}}

VARIABLES
  phase,     \* where the service thread of a rank is
  unvisited, \* connections the current pass has not visited yet
  visited,   \* the connection the pass is at
  workers,   \* whether the rank's proxy workers run
  outcome,   \* the first error of the rank's cleanup
  segment,   \* proxyInfo.shm # NULL at the sender, which allocates it
  attached,  \* shm # NULL at the receiver, which imports it
  linked,    \* connections that were set up completely
  mapped,    \* importedRecvFifoBase # NULL at the sender
  backing,   \* localRecvFifo # NULL at the receiver
  closed,    \* fifoImportClosed
  writing,   \* connections with device work of the sender under way
  reading    \* connections with device work of the receiver under way

serviceVars  == <<phase, unvisited, visited, workers, outcome>>
setupVars    == <<segment, attached, linked>>
memVars      == <<setupVars, mapped, backing, closed>>
deviceVars   == <<writing, reading>>
teardownVars == <<serviceVars, memVars, deviceVars>>

TeardownTypeOK ==
  /\ phase \in [Rank -> {"running", "closing", "releasing", "ended"}]
  /\ unvisited \in [Rank -> SUBSET Conn]
  /\ visited \in [Rank -> Conn \cup {NoConn}]
  /\ \A r \in Rank : unvisited[r] \subseteq Pool(r) /\ visited[r] \in Pool(r) \cup {NoConn}
  /\ workers \in [Rank -> BOOLEAN]
  /\ outcome \in [Rank -> {"Success", "Error"}]
  /\ segment \subseteq Conn
  /\ attached \subseteq Conn
  /\ linked \subseteq Conn
  /\ mapped \subseteq Conn
  /\ backing \subseteq Conn
  /\ closed \subseteq Conn
  /\ writing \subseteq Conn
  /\ reading \subseteq Conn

\* Setup may have stopped anywhere.  The sender allocates the shared segment,
\* the receiver its FIFO; then each imports what the other has allocated.
TeardownInit ==
  /\ phase = [r \in Rank |-> "running"]
  /\ unvisited = [r \in Rank |-> {}]
  /\ visited = [r \in Rank |-> NoConn]
  /\ workers = [r \in Rank |-> TRUE]
  /\ outcome = [r \in Rank |-> "Success"]
  /\ backing \in SUBSET Conn
  /\ segment \in SUBSET Conn
  /\ attached \in SUBSET (segment \cap backing)
  /\ mapped \in SUBSET (segment \cap backing)
  /\ linked = mapped \cap attached
  /\ closed = {}
  /\ writing = {}
  /\ reading = {}

-----------------------------------------------------------------------------
(* The workers and the device *)

\* A worker enqueues a copy on its stream: flagcxP2pProxySend,
\* flagcxP2pProxyRecv.
EnqueueWrite(c) ==
  /\ c \in linked
  /\ workers[Sender(c)]
  /\ writing' = writing \cup {c}
  /\ UNCHANGED <<serviceVars, memVars, reading>>

EnqueueRead(c) ==
  /\ c \in linked
  /\ workers[Receiver(c)]
  /\ reading' = reading \cup {c}
  /\ UNCHANGED <<serviceVars, memVars, writing>>

\* A stream has executed its work.
DrainWrites(c) ==
  /\ c \in writing
  /\ writing' = writing \ {c}
  /\ UNCHANGED <<serviceVars, memVars, reading>>

DrainReads(c) ==
  /\ c \in reading
  /\ reading' = reading \ {c}
  /\ UNCHANGED <<serviceVars, memVars, writing>>

-----------------------------------------------------------------------------
(* The end of flagcxProxyService *)

MayFree(allWorkersRetired) == allWorkersRetired

\* The connections a pass visits.
PassOver(r) == Pool(r)

\* The thread retires its workers and, if it could, begins the first pass.
RetireWorkers(r) ==
  /\ phase[r] = "running"
  /\ \E allWorkersRetired \in IF MayFail THEN BOOLEAN ELSE {TRUE} :
       /\ workers' = [workers EXCEPT ![r] = ~allWorkersRetired]
       /\ IF MayFree(allWorkersRetired)
            THEN /\ phase' = [phase EXCEPT ![r] = "closing"]
                 /\ unvisited' = [unvisited EXCEPT ![r] = PassOver(r)]
                 /\ UNCHANGED outcome
            ELSE /\ phase' = [phase EXCEPT ![r] = "ended"]
                 /\ outcome' = [outcome EXCEPT ![r] = "Error"]
                 /\ UNCHANGED unvisited
  /\ UNCHANGED <<visited, memVars, deviceVars>>

\* flagcxProxyFreeConnections goes on to the next connection of the pass, or
\* to the second pass, or is over.
NextVisit(r) ==
  /\ phase[r] \in {"closing", "releasing"}
  /\ visited[r] = NoConn
  /\ \E c \in unvisited[r] :
       /\ visited' = [visited EXCEPT ![r] = c]
       /\ unvisited' = [unvisited EXCEPT ![r] = @ \ {c}]
  /\ UNCHANGED <<phase, workers, outcome, memVars, deviceVars>>

NextPass(r) ==
  /\ phase[r] \in {"closing", "releasing"}
  /\ visited[r] = NoConn
  /\ unvisited[r] = {}
  /\ IF phase[r] = "closing"
       THEN /\ phase' = [phase EXCEPT ![r] = "releasing"]
            /\ unvisited' = [unvisited EXCEPT ![r] = PassOver(r)]
       ELSE /\ phase' = [phase EXCEPT ![r] = "ended"]
            /\ UNCHANGED unvisited
  /\ UNCHANGED <<visited, workers, outcome, memVars, deviceVars>>

-----------------------------------------------------------------------------
(* flagcxP2pCleanupProxyConnection *)

Visiting(r, c) == c \in Conn /\ visited[r] = c

\* Mutant: one pass does both.
CleanupOf_onePass(r, c) == IF r = Sender(c) THEN "close" ELSE "release"

\* What the visit of c does in the current pass.
CleanupOf(r, c) ==
  IF phase[r] = "closing" /\ r = Sender(c) THEN "close"
  ELSE IF phase[r] = "releasing" /\ r = Receiver(c) THEN "release"
  ELSE "nothing"

\* The visit is over.
Leave(r) == visited' = [visited EXCEPT ![r] = NoConn]

\* Mutant: the error of a later connection is lost.
CaptureError_lost(r) == UNCHANGED outcome

\* flagcxProxyCaptureCleanupResult
CaptureError(r) == outcome' = [outcome EXCEPT ![r] = "Error"]

Skip(r, c) ==
  /\ Visiting(r, c)
  /\ CleanupOf(r, c) = "nothing"
  /\ Leave(r)
  /\ UNCHANGED <<phase, unvisited, workers, outcome, memVars, deviceVars>>

\* flagcxP2pCloseImportedFifo: the stream is drained, the mapping closed ...
CloseImport(r, c) ==
  /\ Visiting(r, c)
  /\ CleanupOf(r, c) = "close"
  /\ c \in mapped
  /\ c \notin writing
  /\ mapped' = mapped \ {c}
  /\ UNCHANGED <<serviceVars, setupVars, backing, closed, deviceVars>>

\* ... and the acknowledgement published where there is a segment to do it in,
\* also when there was no mapping.
Acknowledge(r, c) ==
  /\ Visiting(r, c)
  /\ CleanupOf(r, c) = "close"
  /\ c \notin mapped
  /\ c \notin writing
  /\ closed' = closed \cup ({c} \cap segment)
  /\ Leave(r)
  /\ UNCHANGED <<phase, unvisited, workers, outcome, setupVars, mapped, backing, deviceVars>>

\* streamSynchronize or ipcMemHandleClose fails: no acknowledgement.  The stream
\* is created when the mapping is there; a mapping without a segment, which is
\* an error too, is nothing that setup leaves behind.
CloseFails(r, c) ==
  /\ MayFail
  /\ Visiting(r, c)
  /\ CleanupOf(r, c) = "close"
  /\ c \in mapped
  /\ CaptureError(r)
  /\ Leave(r)
  /\ UNCHANGED <<phase, unvisited, workers, memVars, deviceVars>>

\* Mutant: the acknowledgement is not awaited.
PeerClosed_assumed(c) == TRUE

PeerClosed(c) == c \in closed

\* flagcxP2pReleaseLocalFifo: the stream is drained, the peer's
\* acknowledgement seen, the FIFO freed.
Release(r, c) ==
  /\ Visiting(r, c)
  /\ CleanupOf(r, c) = "release"
  /\ c \in backing \cap attached
  /\ c \notin reading
  /\ PeerClosed(c)
  /\ backing' = backing \ {c}
  /\ Leave(r)
  /\ UNCHANGED <<phase, unvisited, workers, outcome, setupVars, mapped, closed, deviceVars>>

\* There is no FIFO to release.
ReleaseNothing(r, c) ==
  /\ Visiting(r, c)
  /\ CleanupOf(r, c) = "release"
  /\ c \notin backing
  /\ Leave(r)
  /\ UNCHANGED <<phase, unvisited, workers, outcome, memVars, deviceVars>>

\* Without the segment no acknowledgement can be seen: the FIFO is preserved.
ReleaseUnattached(r, c) ==
  /\ Visiting(r, c)
  /\ CleanupOf(r, c) = "release"
  /\ c \in backing \ attached
  /\ CaptureError(r)
  /\ Leave(r)
  /\ UNCHANGED <<phase, unvisited, workers, memVars, deviceVars>>

TimedOut(c) == MayTimeOut /\ ~PeerClosed(c)

\* The peer does not acknowledge in time: the FIFO is preserved.
ReleaseTimesOut(r, c) ==
  /\ Visiting(r, c)
  /\ CleanupOf(r, c) = "release"
  /\ c \in backing \cap attached
  /\ c \notin reading
  /\ TimedOut(c)
  /\ CaptureError(r)
  /\ Leave(r)
  /\ UNCHANGED <<phase, unvisited, workers, memVars, deviceVars>>

\* streamSynchronize or deviceFree fails: the FIFO is preserved.
ReleaseFails(r, c) ==
  /\ MayFail
  /\ Visiting(r, c)
  /\ CleanupOf(r, c) = "release"
  /\ c \in backing \cap attached
  /\ CaptureError(r)
  /\ Leave(r)
  /\ UNCHANGED <<phase, unvisited, workers, memVars, deviceVars>>

-----------------------------------------------------------------------------
Visit(r, c) ==
  \/ Skip(r, c)
  \/ CloseImport(r, c) \/ Acknowledge(r, c) \/ CloseFails(r, c)
  \/ Release(r, c) \/ ReleaseNothing(r, c) \/ ReleaseUnattached(r, c)
  \/ ReleaseTimesOut(r, c) \/ ReleaseFails(r, c)

Service(r) ==
  RetireWorkers(r) \/ NextVisit(r) \/ NextPass(r) \/ \E c \in Conn : Visit(r, c)

Device(c) == DrainWrites(c) \/ DrainReads(c)

\* A worker that was retired enqueues nothing more; one that was not runs on.
TeardownNext ==
  \/ \E r \in Rank : Service(r)
  \/ \E c \in Conn : EnqueueWrite(c) \/ EnqueueRead(c) \/ Device(c)
  \/ (\A r \in Rank : phase[r] = "ended") /\ UNCHANGED teardownVars

TeardownSpec == TeardownInit /\ [][TeardownNext]_teardownVars

\* The sender of c is past the pass in which it would acknowledge.
GoneBy(c) == phase[Sender(c)] \in {"releasing", "ended"}

\* A step of the service thread in which no device call fails.  The timeout is
\* relied on only when the peer has failed to acknowledge.
Progress(r) ==
  \/ RetireWorkers(r) \/ NextVisit(r) \/ NextPass(r)
  \/ \E c \in Conn :
       \/ Skip(r, c) \/ CloseImport(r, c) \/ Acknowledge(r, c)
       \/ Release(r, c) \/ ReleaseNothing(r, c) \/ ReleaseUnattached(r, c)
       \/ GoneBy(c) /\ ReleaseTimesOut(r, c)

\* Every rank is destroyed, its service thread runs and does not wait for a
\* device call to fail, and the device executes what was enqueued.
TeardownFairness ==
  /\ \A r \in Rank : WF_teardownVars(Progress(r))
  /\ \A c \in Conn : WF_teardownVars(DrainWrites(c)) /\ WF_teardownVars(DrainReads(c))

LiveTeardownSpec == TeardownSpec /\ TeardownFairness

-----------------------------------------------------------------------------
(* Properties *)

\* "The exporting peer must observe [fifoImportClosed] before releasing the
\* backing allocation" (p2p.h): nothing uses a FIFO that was freed, neither a
\* mapping nor device work of either rank, whatever fails or times out; and
\* the sender's device work has its mapping for as long as it runs.
NoUseAfterFree ==
  /\ mapped \subseteq backing
  /\ writing \subseteq mapped
  /\ reading \subseteq backing

\* A rank whose cleanup reports success has nothing left: its imports are
\* closed and its FIFOs freed.
SuccessMeansClean ==
  \A r \in Rank : phase[r] = "ended" /\ outcome[r] = "Success" =>
    \A c \in Pool(r) : /\ r = Sender(c) => c \notin mapped
                       /\ r = Receiver(c) => c \notin backing

\* A rank that has given up leaves the FIFOs of its peers alone: what is freed
\* has been freed by its owner in its second pass, after the workers of both
\* ends were retired.
FreedAfterBothRetired ==
  \A c \in linked \ backing : ~workers[Sender(c)] /\ ~workers[Receiver(c)]

\* Every service thread ends, whatever fails at its peers.  No timeout breaks a
\* circle of threads that wait for each other, since there is none: "prevents
\* two service threads from waiting on each other in recv cleanup"
\* (flagcxProxyFreeConnections).
TeardownEnds == \A r \in Rank : <>(phase[r] = "ended")

=============================================================================
