----------------------------- MODULE MCRmaProxy -----------------------------
(* The programs of the application threads.  No put is over the stream:     *)
(* readySeqs is one number per peer, and puts over the stream and others do *)
(* not advance it together (see README).                                    *)
EXTENDS RmaProxy

Op(op, p, n, s) == [op |-> op, peer |-> p, n |-> n, stream |-> s]

\* Two GETs, a batch of two puts, an IPC GET over the stream and a flush; the
\* wait for a counter, a put with a signal and a quiesce, which refuses what
\* comes after it.  The ring holds two descriptors.
MCProgram ==
  << <<Op("get", 1, 1, FALSE), Op("get", 1, 1, FALSE), Op("batch", 1, 2, FALSE),
       Op("ipcget", 1, 1, TRUE), Op("flush", 1, 0, FALSE)>>,
     <<Op("waitCounter", 1, 1, FALSE), Op("signal", 1, 1, FALSE), Op("quiesce", 1, 0, FALSE)>> >>
=============================================================================
