------------------------------- MODULE FileLock -------------------------------
(***************************************************************************)
(* exclusive_file_lock: the lock file behind the JSON ledgers of a device.  *)
(* The holder is whoever created the file; a file older than the stale      *)
(* limit is removed by a waiter, and a holder removes the file when it is    *)
(* done, whoever's file it is by then.                                       *)
(***************************************************************************)
EXTENDS Naturals, FiniteSets

CONSTANTS Process,
          MaxCrashes,        \* bound on holders that die with the file in place
          HolderMayOverrun   \* a live holder may keep the file past the limit

LockAssumption == MaxCrashes \in Nat /\ HolderMayOverrun \in BOOLEAN

VARIABLES file,     \* "none", "fresh" or "stale"
          pc,       \* where each process is
          crashes

vars == <<file, pc, crashes>>

Init == file = "none" /\ pc = [p \in Process |-> "idle"] /\ crashes = 0

Go(p, l) == pc' = [pc EXCEPT ![p] = l]

Acquire(p) ==
    /\ pc[p] = "idle" /\ Go(p, "create")
    /\ UNCHANGED <<file, crashes>>

(* O_CREAT|O_EXCL is atomic.                                                 *)
Create(p) ==
    /\ pc[p] = "create"
    /\ \/ file = "none" /\ file' = "fresh" /\ Go(p, "inside")
       \/ file # "none" /\ Go(p, "stat") /\ UNCHANGED file
    /\ UNCHANGED crashes

(* Variant: every lock file is taken for a live one.                         *)
StatIgnoresAge(p) ==
    /\ pc[p] = "stat"
    /\ (Go(p, "create") \/ Go(p, "idle"))
    /\ UNCHANGED <<file, crashes>>

(* A file that is gone by now counts as fresh; a waiter sleeps and retries,  *)
(* or gives up at its deadline.                                              *)
Stat(p) ==
    /\ pc[p] = "stat"
    /\ \/ file = "stale" /\ Go(p, "unlink")
       \/ file # "stale" /\ (Go(p, "create") \/ Go(p, "idle"))
    /\ UNCHANGED <<file, crashes>>

(* The unlink does not look at the file again.                               *)
Break(p) ==
    /\ pc[p] = "unlink"
    /\ file' = "none" /\ Go(p, "create")
    /\ UNCHANGED crashes

Release(p) ==
    /\ pc[p] = "inside"
    /\ file' = "none" /\ Go(p, "idle")
    /\ UNCHANGED crashes

(* The process dies inside; the file stays.                                  *)
Crash(p) ==
    /\ pc[p] = "inside" /\ crashes < MaxCrashes
    /\ Go(p, "idle") /\ crashes' = crashes + 1
    /\ UNCHANGED file

Inside == {p \in Process : pc[p] = "inside"}

(* The file's age passes the limit: its holder died, or is slow.             *)
Age ==
    /\ file = "fresh" /\ (Inside = {} \/ HolderMayOverrun)
    /\ file' = "stale"
    /\ UNCHANGED <<pc, crashes>>

Next ==
    \/ Age
    \/ \E p \in Process :
          Acquire(p) \/ Create(p) \/ Stat(p) \/ Break(p) \/ Release(p) \/ Crash(p)

Spec == Init /\ [][Next]_vars

(* A waiter keeps trying and a holder finishes: the loop sleeps 50 ms, and   *)
(* the body is a short read-modify-write.  A file left behind gets old.      *)
LiveSpec ==
    /\ Spec
    /\ WF_vars(Age)
    /\ \A p \in Process : WF_vars(Create(p) \/ Stat(p) \/ Break(p)) /\ WF_vars(Release(p))

(* Two processes never are inside the read-modify-write together.            *)
MutualExclusion == Cardinality(Inside) <= 1

(* A lock left behind by a dead process does not block the ledger for good:  *)
(* somebody who still waits gets through, or the file goes away.             *)
LeftBehind == file # "none" /\ Inside = {}
Through == file = "none" \/ Inside # {} \/ \A p \in Process : pc[p] = "idle"
DeadLockIsBroken == LeftBehind ~> Through
===============================================================================
