----------------------------- MODULE LidarSockets -----------------------------
(*****************************************************************************)
(* The descriptors of the lidar's sockets (input_sock_select.hpp), from      *)
(* init() to the destructor, in a process whose other threads open and close *)
(* descriptors of their own between any two of the input's calls.  The node  *)
(* builds a fresh input on every activate and drops it on every deactivate   *)
(* and after every failed init().                                            *)
(*****************************************************************************)
EXTENDS Integers, FiniteSetsExt

CONSTANT MaxFd     \* the largest descriptor

ASSUME FdAssumption == MaxFd \in Nat \ {0}

VARIABLES
  owner,    \* who has a descriptor open
  fds,      \* fds_
  msop,     \* init()'s msop_fd
  pc,       \* the input's next call
  victim    \* whose descriptor this input's last close() took, "none" before

socketsVars == <<owner, fds, msop, pc, victim>>

Fds    == 0 .. MaxFd
Closed == -1
Owners == {"free", "stdin", "other", "input", "leaked"}   \* leaked: by createSocket
Slot   == 0 .. 2

SocketsInit ==
  /\ owner = [f \in Fds |-> IF f = 0 THEN "stdin" ELSE "free"]
  /\ fds = [s \in Slot |-> Closed] /\ msop = Closed
  /\ pc = "none" /\ victim = "none"

Free      == {f \in Fds : owner[f] = "free"}
Lowest    == Min(Free)
Opened(o) == Free # {} /\ owner' = [owner EXCEPT ![Lowest] = o]

(* close(), which reports EBADF for a descriptor that is not open. *)
Close(f) ==
  IF f \in Fds THEN owner' = [owner EXCEPT ![f] = "free"] /\ victim' = owner[f]
               ELSE UNCHANGED <<owner, victim>>

-----------------------------------------------------------------------------
(* A new InputSock: `int fds_[3]{ -1 }' sets the first element to -1 and the *)
(* others to 0.                                                              *)
Construct ==
  /\ pc = "none"
  /\ fds' = [s \in Slot |-> IF s = 0 THEN Closed ELSE 0] /\ msop' = Closed
  /\ pc' = "msop" /\ victim' = "none"
  /\ UNCHANGED owner

(* A createSocket that fails has closed its socket again, except where it is *)
(* the size of the receive buffer that getsockopt or setsockopt refuses.     *)
CreateFails == UNCHANGED owner \/ Opened("leaked")

CreateMsop ==
  /\ pc = "msop"
  /\ \/ Opened("input") /\ msop' = Lowest /\ pc' = "difop"
     \/ CreateFails /\ pc' = "close0" /\ UNCHANGED msop
  /\ UNCHANGED <<fds, victim>>

(* Mutant: the MSOP socket is stored twice. *)
CreateDifopSame ==
  /\ pc = "difop"
  /\ \/ /\ Opened("input") /\ pc' = "open"
        /\ fds' = [s \in Slot |-> IF s < 2 THEN msop ELSE Closed]
     \/ CreateFails /\ pc' = "closemsop" /\ UNCHANGED fds
  /\ UNCHANGED <<msop, victim>>

(* Mutant: the slot without a socket keeps what the array was set to. *)
CreateDifopTwo ==
  /\ pc = "difop"
  /\ \/ /\ Opened("input") /\ pc' = "open"
        /\ fds' = [fds EXCEPT ![0] = msop, ![1] = Lowest]
     \/ CreateFails /\ pc' = "closemsop" /\ UNCHANGED fds
  /\ UNCHANGED <<msop, victim>>

(* The settings have no IMU port: the third slot gets -1. *)
CreateDifop ==
  /\ pc = "difop"
  /\ \/ /\ Opened("input") /\ pc' = "open"
        /\ fds' = [s \in Slot |-> IF s = 0 THEN msop ELSE IF s = 1 THEN Lowest ELSE Closed]
     \/ CreateFails /\ pc' = "closemsop" /\ UNCHANGED fds
  /\ UNCHANGED <<msop, victim>>

(* Mutant: the MSOP socket of a failed init() is not closed. *)
FailDifopKeeps ==
  /\ pc = "closemsop"
  /\ pc' = "close0"
  /\ UNCHANGED <<owner, victim, fds, msop>>

FailDifop ==
  /\ pc = "closemsop"
  /\ Close(msop) /\ pc' = "close0"
  /\ UNCHANGED <<fds, msop>>

(* The node drops its source. *)
Drop ==
  /\ pc = "open"
  /\ pc' = "close0"
  /\ UNCHANGED <<owner, fds, msop, victim>>

(* The destructor's three calls; Close skips the descriptors below 0. *)
CloseSlot(s, at, next) ==
  /\ pc = at
  /\ Close(fds[s]) /\ pc' = next
  /\ UNCHANGED <<fds, msop>>

Destruct == \/ CloseSlot(0, "close0", "close1")
            \/ CloseSlot(1, "close1", "close2")
            \/ CloseSlot(2, "close2", "none")

(* Other threads of the process: the DDS middleware, the GPS node. *)
OtherOpens ==
  /\ Opened("other")
  /\ UNCHANGED <<fds, msop, pc, victim>>

OtherCloses ==
  \E f \in Fds :
    /\ owner[f] = "other"
    /\ owner' = [owner EXCEPT ![f] = "free"]
    /\ UNCHANGED <<fds, msop, pc, victim>>

SocketsNext == \/ Construct \/ CreateMsop \/ CreateDifop \/ FailDifop \/ Drop \/ Destruct
               \/ OtherOpens \/ OtherCloses

SocketsSpec == SocketsInit /\ [][SocketsNext]_socketsVars

-----------------------------------------------------------------------------
(* "the sensor is opened in on_activate and closed in on_deactivate"         *)
(* (rover_rs16_lidar/README.md:24): between two inputs no socket is left     *)
(* open, whether init() succeeded, failed for one port or for both.          *)
AllClosed == pc = "none" => \A f \in Fds : owner[f] # "input"

(* While the source runs both of its sockets are open and its own, so the    *)
(* receive thread never reads a descriptor that someone else has opened.     *)
SocketsOwn ==
  pc = "open" => fds[0] # fds[1] /\ \A s \in {0, 1} : fds[s] \in Fds /\ owner[fds[s]] = "input"

(* "rs_driver only closes its sockets when the driver object is destroyed"   *)
(* (rover_rs16_lidar/README.md:25): an input whose init() succeeded, however *)
(* many failed before it, closes nothing but its own two sockets, whatever   *)
(* the three slots were set to first and whoever reuses a descriptor.        *)
ClosesOnlyOwn ==
  fds[0] # Closed => victim \in {"none", "input"}
=============================================================================
