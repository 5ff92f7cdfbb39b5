--------------------------- MODULE CaptureTraffic ---------------------------
(***************************************************************************)
(* The bytes the engine has accounted for, against the bytes that passed.  *)
(* A sum is the number of its units, so that it can be reasoned about as   *)
(* the size of a finite set.                                               *)
(***************************************************************************)
EXTENDS CaptureCxx

Units(f) == UNION {{x} \X (1..f[x]) : x \in DOMAIN f}

Total(f) == Cardinality(Units(f))

Credit == [p \in tracked |-> processes[p].send + processes[p].recv]

CountedBytes == Total(Credit)

\* The places of the frames that are still in the buffers of the handles.
Places == Units([h \in 1..Len(handles) |-> Len(ring[h])])

Buffered == [place \in Places |-> ring[place[1]][place[2]].len]

BufferedBytes == Total(Buffered)

\* No interface is captured by more than n handles.
Sharing(n) ==
    \A g \in 1..Len(handles) :
        Cardinality({h \in 1..Len(handles) : handles[h] = handles[g]}) <= n

\* What the processes were credited with and what the handles still buffer is
\* no more than what passed the interfaces, once for each handle that shares an
\* interface: no frame is counted twice by one handle, over any number of rounds
\* and limited dispatches.
TrafficBounded ==
    \A n \in 0..Len(handles) : Sharing(n) => CountedBytes + BufferedBytes <= wire * n

\* The README's promise to monitor the traffic of processes: they are credited
\* with no more bytes than passed the interfaces.
CountedOnce == CountedBytes <= wire
=============================================================================
