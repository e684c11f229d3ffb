------------------------------- MODULE MCRcp --------------------------------
(***************************************************************************)
(* RCP on small instances: two commands of one task in order, a command    *)
(* that is stopped, and one whose task is deleted, each with a fault. part *)
(* says which; the properties are said with the bounds of the              *)
(* configuration, which are at least those of every part.                  *)
(***************************************************************************)
EXTENDS Rcp

VARIABLE part

TaskT == [c \in Commands |-> "t"]

Ordered == INSTANCE Rcp WITH Stoppable <- {}, Linking <- {}, MaxProgress <- 0, MaxBatch <- 1, MaxDeletes <- 0
Stopped == INSTANCE Rcp WITH MaxBatch <- 1, MaxDeletes <- 0
Deleted == INSTANCE Rcp WITH Linking <- {}, MaxProgress <- 0

(* The instance satisfies what the theorems of RcpProofs assume. *)
ASSUME RcpBounds == RcpAssumption /\ LedgerAssumption

RcpInit == Init /\ part \in {"ordered", "stopped", "deleted"}

RcpNext ==
    /\ UNCHANGED part
    /\ \/ part = "ordered" /\ Ordered!Next
       \/ part = "stopped" /\ Stopped!Next /\ cmd'["d"] = "new"
       \/ part = "deleted" /\ Deleted!Next /\ cmd'["d"] = "new"

RcpSpec == RcpInit /\ [][RcpNext]_<<vars, part>>
=============================================================================
