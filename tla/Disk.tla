-------------------------------- MODULE Disk --------------------------------
(***************************************************************************)
(* The file store (common/lib/Disk with the local driver) and the requests *)
(* that use it.  An error of the file system is logged and swallowed by    *)
(* the driver: whoever called it goes on as if nothing had happened.       *)
(***************************************************************************)
EXTENDS Naturals, FiniteSets

CONSTANTS
  Files,      \* names, which carry a random string and are given out once
  Requests,   \* how many requests are served at once
  MaxFaults,  \* bound: failing statements, file operations and crashes
  NULL

ASSUME DiskAssumption ==
  /\ MaxFaults \in Nat
  /\ NULL \notin Files /\ \A files \in SUBSET Files : NULL # files

VARIABLES
  stored,   \* files on disk
  lost,     \* files whose writing failed
  taken,    \* names given out
  request,  \* requests in progress
  overlap,  \* history: a request has arrived during another
  faults

disk == <<stored, lost, taken, request, overlap, faults>>

Idle == [pc |-> "idle"]

DiskInit ==
  /\ stored = {} /\ lost = {} /\ taken = {}
  /\ request = [r \in Requests |-> Idle]
  /\ overlap = FALSE
  /\ faults = 0

At(r, pc) == request[r].pc = pc
Goto(r, st) == request' = [request EXCEPT ![r] = st]

Arrive(r, st) ==
  /\ At(r, "idle")
  /\ Goto(r, st)
  /\ overlap' = (overlap \/ \E q \in Requests : ~At(q, "idle"))
  /\ UNCHANGED <<stored, lost, taken, faults>>

Finish(r) == Goto(r, Idle) /\ UNCHANGED <<stored, lost, taken, overlap, faults>>

(* SojebStorage.put under a new name: writeFile, whose error is caught.    *)
Put(f) ==
  /\ f \notin taken
  /\ taken' = taken \cup {f}
  /\ \/ stored' = stored \cup {f} /\ UNCHANGED <<lost, faults>>
     \/ /\ faults < MaxFaults
        /\ faults' = faults + 1
        /\ lost' = lost \cup {f}
        /\ UNCHANGED stored
  /\ UNCHANGED overlap

(* SojebStorage.delete: unlink if the file exists, whose error is caught.  *)
Delete(f) ==
  /\ \/ stored' = stored \ {f} /\ UNCHANGED faults
     \/ f \in stored /\ faults < MaxFaults /\ faults' = faults + 1 /\ UNCHANGED stored
  /\ UNCHANGED <<lost, taken, overlap>>

(* The next statement of a request fails, or the process dies.             *)
Fails ==
  /\ faults < MaxFaults
  /\ faults' = faults + 1
  /\ \E rs \in {Requests} \cup {{r} : r \in Requests} :
       request' = [r \in Requests |-> IF r \in rs THEN Idle ELSE request[r]]
  /\ UNCHANGED <<stored, lost, taken, overlap>>
=============================================================================
