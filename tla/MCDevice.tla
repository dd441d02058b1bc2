------------------------------ MODULE MCDevice ------------------------------
(* Two devices that hand the lease over, and the lock file of one of them.    *)
(*   "close"   an unattended and a supervised device, a crash, a closed       *)
(*             window and a standby that loses its readiness;                 *)
(*   "switch"  the same devices, a stall and two switches by an operator;     *)
(*   "lock"    FileLock with holders that die.                                *)
EXTENDS DeviceHandoff

CONSTANTS p1, p2, p3

VARIABLES file, pc, deaths, \* FileLock
          scenario

(* The constants of the configuration are those of "close".                   *)
Switch == INSTANCE DeviceHandoff WITH
    MaxCrashes <- 0, MaxStalls <- 1, MaxDemotes <- 0, MaxSwitches <- 2, MaxCloses <- 0
Lock == INSTANCE FileLock WITH
    Process <- {p1, p2, p3}, MaxCrashes <- 2, HolderMayOverrun <- FALSE, crashes <- deaths

ASSUME HandoffAssumption /\ Lock!LockAssumption

lock == <<file, pc, deaths>>
all == <<vars, lock, scenario>>

(* The component a behaviour is not about stays as it starts.  What may still *)
(* happen is counted in left, so that the actions of "close" and "switch" are *)
(* the same.                                                                  *)
MCInit ==
    /\ Lock!Init
    /\ \/ scenario \in {"close", "lock"} /\ Init
       \/ scenario = "switch" /\ Switch!Init

Handed == scenario \in {"close", "switch"}
OfHandoff(A) == Handed /\ A /\ UNCHANGED <<lock, scenario>>
OfLock(A) == scenario = "lock" /\ A /\ UNCHANGED <<vars, scenario>>

MCNext == OfHandoff(Next) \/ OfLock(Lock!Next)

(* The fairness of LiveSpec in the two modules.                              *)
MCSpec ==
    /\ MCInit /\ [][MCNext]_all
    /\ WF_all(OfLock(Lock!Age))
    /\ \A p \in {p1, p2, p3} :
         /\ WF_all(OfLock(Lock!Create(p) \/ Lock!Stat(p) \/ Lock!Break(p)))
         /\ WF_all(OfLock(Lock!Release(p)))
    /\ WF_all(OfHandoff(claim_main_device))
    /\ \A d \in Device :
         /\ WF_all(OfHandoff(Syncs(d))) /\ WF_all(OfHandoff(Worker(d)))
         /\ WF_all(OfHandoff(Closing(d))) /\ WF_all(OfHandoff(Restart(d)))
         /\ WF_all(OfHandoff(AgesAlone(d)))

-----------------------------------------------------------------------------
(* DeadLockIsBroken of FileLock: a lock left by a dead process does not block *)
(* the ledger for good.                                                       *)
LockIsBroken == (scenario = "lock" /\ Lock!LeftBehind) ~> Lock!Through

(* ProtectedAgain of DeviceHandoff: whatever crashes, stalls or is closed,    *)
(* some device ends up ACTIVE under the current lease.                        *)
ProtectedInTheEnd == (Handed /\ ~Protected) ~> (Handed /\ Protected)
===============================================================================
