-------------------------- MODULE DescriptorLeases --------------------------
(***************************************************************************)
(* The descriptors of trusted directories: internal/mounts (RootLease,     *)
(* LayoutLease, TrashLease) and the ParentLease of internal/linuxfs.       *)
(*                                                                         *)
(* A lease owns descriptors under a mutex.  It lends duplicates of them    *)
(* once it has inspected them again, with the mutex of the root taken      *)
(* inside its own; the borrower closes what it is lent.  A descriptor is a *)
(* number: the kernel gives out the lowest free one, so that a number one  *)
(* call closes once too often, or uses too late, is another's descriptor.  *)
(* A layout lease is a bundle of one role, a Trash lease one of several.   *)
(***************************************************************************)
EXTENDS Naturals, FiniteSets

CONSTANTS
  Callers,       \* the goroutines of the process
  Root, Parent,  \* the root lease and the parent lease they share
  Bundles,       \* the layout and Trash leases they share
  Roles,         \* the directories that bundles hold
  RolesOf,       \* those of each bundle
  Rank,          \* the order in which they are opened, inspected and lent
  Handoffs,      \* the sets of roles each bundle lends together
  Opener,        \* the engine's openers, which transfer descriptors
  NoCaller, NoLease,
  FirstNumber,   \* bound: the numbers below it are other files throughout
  NumberLimit,   \* bound: descriptor numbers are below it
  AttemptLimit,  \* attempts of one inspection
  Depth,         \* the components of the planned path above its last
  Unstable,      \* the facts of the evidence that something else changes
  MaxChanges     \* bound: changes of each of them

Leases == {Root, Parent} \cup Bundles
Holders == Leases \cup Callers \cup {Opener}

ASSUME LeaseAssumptions ==
  /\ FirstNumber \in Nat /\ NumberLimit \in Nat /\ AttemptLimit \in Nat \ {0} /\ Depth \in Nat
  /\ MaxChanges \in Nat
  /\ Unstable \subseteq Roles \cup {"root", "namespace", "mountinfo"}
  /\ Root # Parent /\ Root \notin Bundles /\ Parent \notin Bundles
  /\ Leases \cap Callers = {} /\ Opener \notin Leases \cup Callers
  /\ NoCaller \notin Callers /\ NoLease \notin Leases
  /\ Roles \cap {"root", "current", "next", "retained", "below", "foreign", "free"} = {}
  /\ Rank \in [Roles -> Nat]
  /\ \A b \in Bundles :
       /\ RolesOf[b] \in (SUBSET Roles) \ {{}}
       /\ Handoffs[b] \in SUBSET ((SUBSET RolesOf[b]) \ {{}})

Numbers == FirstNumber..(NumberLimit - 1)
Reserved == 3        \* the numbers below it are the standard streams
NoNumber == NumberLimit

Directories == Roles \cup {"root", "below", "foreign"}
Facts == Roles \cup {"root", "below", "foreign", "namespace", "mountinfo"}

(* A place is where the code keeps a number, to use it and to close it. *)
Slots == Roles \cup {"root", "current", "next", "retained"}
Places == Holders \X Slots
At(h) == {h} \X Slots

VARIABLES
  table,    \* the directory that each open number refers to, or "free"
  number,   \* the number kept in each place, or NoNumber
  status,   \* each lease is not issued yet, open or closed
  lock,     \* the caller that holds the mutex of each lease
  world,    \* how often each fact of the evidence has changed; expected is 0
  step,     \* where each call is
  doing,    \* its operation
  on,       \* its lease
  left,     \* the roles it has still to take, inspect or lend
  subject,  \* the directory it inspects
  depth,    \* the components it has walked
  sample,   \* what its inspection has read
  late      \* it began when a lease it needs had been closed (history)

kernelVars == <<table, number>>
leaseVars == <<status, lock>>
callVars == <<step, doing, on, left, subject, depth, sample, late>>
vars == <<table, number, status, lock, world, step, doing, on, left, subject, depth, sample, late>>

-----------------------------------------------------------------------------
(* The descriptor table *)

Free(n) == table[n] = "free"

IsLowest(n, from) ==
  /\ n >= from /\ Free(n)
  /\ \A m \in Numbers : m >= from /\ Free(m) => n <= m

(* A new number for directory d, kept in place p: openat2, or dup. *)
Take(p, d, from) ==
  \E n \in Numbers :
    /\ IsLowest(n, from)
    /\ table' = [table EXCEPT ![n] = d]
    /\ number' = [number EXCEPT ![p] = n]

Duplicate(p, q) == Take(q, table[number[p]], Reserved)

(* Close what the places P keep.  An error of close does not keep a number open. *)
Drop(P) ==
  /\ table' = [n \in Numbers |-> IF \E p \in P : number[p] = n THEN "free" ELSE table[n]]
  /\ number' = [p \in Places |-> IF p \in P THEN NoNumber ELSE number[p]]

(* Ownership of what h keeps goes to g. *)
HandOver(h, g) ==
  /\ number' = [p \in Places |->
       IF p \in At(g) THEN number[<<h, p[2]>>] ELSE IF p \in At(h) THEN NoNumber ELSE number[p]]
  /\ UNCHANGED table

-----------------------------------------------------------------------------

Attempt(n) == [before |-> 0, namespace |-> 0, mount |-> 0, attempt |-> n, whole |-> FALSE]
Unsampled == Attempt(1)

Init ==
  /\ table \in [Numbers -> {"free", "foreign"}]
  /\ \A n \in Numbers : n >= Reserved => Free(n)
  /\ number = [p \in Places |-> NoNumber]
  /\ status = [l \in Leases |-> "none"]
  /\ lock = [l \in Leases |-> NoCaller]
  /\ world = [f \in Facts |-> 0]
  /\ step = [c \in Callers |-> "idle"]
  /\ doing = [c \in Callers |-> "nothing"]
  /\ on = [c \in Callers |-> NoLease]
  /\ left = [c \in Callers |-> {}]
  /\ subject = [c \in Callers |-> "root"]
  /\ depth = [c \in Callers |-> 0]
  /\ sample = [c \in Callers |-> Unsampled]
  /\ late = [c \in Callers |-> FALSE]

IsFirst(r, S) == r \in S /\ \A q \in S : Rank[r] <= Rank[q]

Kept(h) == {s \in Slots : number[<<h, s>>] # NoNumber}

Go(c, s) == step' = [step EXCEPT ![c] = s]

UnlockedButRoot(c) ==  \* slip: a return forgets the mutex of the root
  [l \in Leases |-> IF lock[l] = c /\ l # Root THEN NoCaller ELSE lock[l]]

(* The mutexes that c holds, unlocked by its deferred calls. *)
Unlocked(c) == [l \in Leases |-> IF lock[l] = c THEN NoCaller ELSE lock[l]]

(* The call returns, its mutexes unlocked; it keeps what it was lent. *)
Return(c) ==
  /\ Go(c, "idle")
  /\ lock' = Unlocked(c)
  /\ left' = [left EXCEPT ![c] = {}]
  /\ subject' = [subject EXCEPT ![c] = "root"]
  /\ depth' = [depth EXCEPT ![c] = 0]
  /\ sample' = [sample EXCEPT ![c] = Unsampled]
  /\ UNCHANGED world

ReturnLent(c) == Return(c) /\ UNCHANGED <<kernelVars, status, doing, on, late>>

(* It returns with nothing: an error, or a lease that is issued or closed. *)
Finish(c) ==
  /\ Return(c)
  /\ doing' = [doing EXCEPT ![c] = "nothing"]
  /\ on' = [on EXCEPT ![c] = NoLease]
  /\ late' = [late EXCEPT ![c] = FALSE]

-----------------------------------------------------------------------------
(* Calls begin.  What a caller was lent it closes before its next call. *)

Begin(c, operation, l, s) ==
  /\ step[c] = "idle" /\ Kept(c) = {}
  /\ Go(c, s)
  /\ doing' = [doing EXCEPT ![c] = operation]
  /\ on' = [on EXCEPT ![c] = l]
  /\ late' = [late EXCEPT ![c] =
       status[l] = "closed" \/ (operation # "requalify" /\ status[Root] = "closed")]
  /\ UNCHANGED <<kernelVars, leaseVars, world, left, subject, depth, sample>>

(* At most one call issues each lease, and the openers run one at a time. *)
Issuing(c, l) ==
  /\ status[l] = "none"
  /\ \A d \in Callers : step[d] = "idle" \/ on[d] # l
  /\ l \in Bundles => \A d \in Callers : step[d] = "idle" \/ doing[d] # "open_bundle"

BeginOpenRoot(c) == Issuing(c, Root) /\ Begin(c, "open_root", Root, "open")

BeginOpenUnchecked(c) ==  \* slip: a bundle is opened before its root has been inspected
  \E b \in Bundles : status[Root] # "none" /\ Issuing(c, b) /\ Begin(c, "open_bundle", b, "open")

BeginOpenBundle(c) ==
  \E b \in Bundles :
    status[Root] # "none" /\ Issuing(c, b) /\ Begin(c, "open_bundle", b, "lock_root")

BeginLend(c) == \E b \in Bundles : status[b] # "none" /\ Begin(c, "lend", b, "lock_lease")

BeginResolve(c) ==
  status[Root] # "none" /\ Issuing(c, Parent) /\ Begin(c, "resolve", Parent, "lock_root")

BeginRequalify(c) == status[Parent] # "none" /\ Begin(c, "requalify", Parent, "lock_lease")

BeginClose(c) == \E l \in Leases : status[l] # "none" /\ Begin(c, "close", l, "lock_lease")

Release(c) ==
  /\ step[c] = "idle" /\ Kept(c) # {}
  /\ Drop(At(c)) /\ Finish(c)
  /\ UNCHANGED status

-----------------------------------------------------------------------------
(* Mutexes.  A closed lease is found closed under its mutex. *)

Inside(operation) ==
  IF operation = "lend" THEN "lock_root" ELSE IF operation = "requalify" THEN "retrace" ELSE "close"

LockLease(c) ==
  /\ step[c] = "lock_lease" /\ lock[on[c]] = NoCaller
  /\ UNCHANGED kernelVars
  /\ \/ /\ status[on[c]] = "closed"
        /\ Finish(c) /\ UNCHANGED status
     \/ /\ status[on[c]] = "open"
        /\ lock' = [lock EXCEPT ![on[c]] = c]
        /\ Go(c, Inside(doing[c]))
        /\ UNCHANGED <<status, world, doing, on, left, subject, depth, sample, late>>

(* The error paths: locks are released and every descriptor of the call is closed. *)
Abandon(c) ==
  /\ Drop(At(c) \cup IF doing[c] = "open_bundle" THEN At(Opener) ELSE {})
  /\ Finish(c) /\ UNCHANGED status

LockRoot(c) ==
  /\ step[c] = "lock_root" /\ lock[Root] = NoCaller
  /\ \/ status[Root] = "closed" /\ Abandon(c)
     \/ /\ status[Root] = "open"
        /\ lock' = [lock EXCEPT ![Root] = c]
        /\ Go(c, IF doing[c] = "resolve" THEN "duplicate_root" ELSE "sample")
        /\ UNCHANGED <<kernelVars, status, world, doing, on, left, subject, depth, sample, late>>

(* Any system call or check may fail, and a context may be cancelled. *)
Fallible ==
  {"open", "sample", "mountinfo", "sample_again", "normalize",
   "release", "lend", "duplicate_root", "retrace", "walk", "advance", "compare"}

FailHolding(c) ==  \* slip: an early return keeps what the call has duplicated
  step[c] \in Fallible /\ ReturnLent(c)

Fail(c) == step[c] \in Fallible /\ Abandon(c)

-----------------------------------------------------------------------------
(* InspectMount: the evidence, the namespace, mountinfo, and both again *)

(* The number that is inspected: the lease's, or one that is not leased yet. *)
Inspected(c) ==
  IF doing[c] = "open_root" THEN <<c, "root">>
  ELSE IF subject[c] = "root" THEN <<Root, "root">>
  ELSE IF doing[c] = "lend" THEN <<on[c], subject[c]>>
  ELSE <<c, subject[c]>>

Evidence(c) == world[table[number[Inspected(c)]]]

Read(c, from, to, r) ==
  /\ step[c] = from /\ Go(c, to)
  /\ sample' = [sample EXCEPT ![c] = r]
  /\ UNCHANGED <<kernelVars, leaseVars, world, doing, on, left, subject, depth, late>>

(* The two reads on each side of mountinfo are one step: they are not compared. *)
Sample(c) ==
  Read(c, "sample", "mountinfo",
       [sample[c] EXCEPT !.before = Evidence(c), !.namespace = world["namespace"]])

Stable(c) == sample[c].before = Evidence(c) /\ sample[c].namespace = world["namespace"]

(* The history says whether all that has been read is true at this moment. *)
ReadMountInfo(c) ==
  Read(c, "mountinfo", "sample_again",
       [sample[c] EXCEPT !.mount = world["mountinfo"], !.whole = Stable(c)])

SampleOnce(c) ==  \* slip: the first sample is taken as the evidence
  step[c] = "sample_again" /\ Read(c, "sample_again", "compare", sample[c])

SampleAgain(c) ==
  /\ step[c] = "sample_again" /\ Stable(c)
  /\ Read(c, "sample_again", "compare", sample[c])

(* A sample that changed is taken again, up to the limit. *)
Retry(c) ==
  /\ step[c] = "sample_again" /\ ~Stable(c)
  /\ \/ /\ sample[c].attempt < AttemptLimit
        /\ Read(c, "sample_again", "sample", Attempt(sample[c].attempt + 1))
     \/ sample[c].attempt = AttemptLimit /\ Abandon(c)

(* checkRootEvidence, checkLayoutEvidence: what was recorded when it was registered. *)
Matches(c) ==
  /\ table[number[Inspected(c)]] = subject[c]
  /\ sample[c].before = 0 /\ sample[c].namespace = 0 /\ sample[c].mount = 0

(* The mutex of the root is released once the root has been inspected. *)
ReleaseRoot(c) == lock' = [lock EXCEPT ![Root] = IF subject[c] = "root" THEN NoCaller ELSE @]

InspectFirst(c, S) ==
  \E r \in S :
    /\ IsFirst(r, S)
    /\ Go(c, "sample")
    /\ subject' = [subject EXCEPT ![c] = r]
    /\ left' = [left EXCEPT ![c] = S \ {r}]
    /\ sample' = [sample EXCEPT ![c] = Unsampled]

(* The lease is issued with the descriptors of the call. *)
Issue(c) ==
  /\ HandOver(c, on[c])
  /\ status' = [status EXCEPT ![on[c]] = "open"]
  /\ Finish(c)

IssueRoot(c) == step[c] = "compare" /\ doing[c] = "open_root" /\ Matches(c) /\ Issue(c)

OpenAfterRoot(c) ==
  /\ step[c] = "compare" /\ doing[c] = "open_bundle" /\ subject[c] = "root" /\ Matches(c)
  /\ ReleaseRoot(c) /\ Go(c, "open")
  /\ UNCHANGED <<kernelVars, status, world, doing, on, left, subject, depth, sample, late>>

LendAfterRoot(c) ==
  /\ step[c] = "compare" /\ doing[c] = "lend" /\ subject[c] = "root" /\ Matches(c)
  /\ ReleaseRoot(c)
  /\ InspectFirst(c, RolesOf[on[c]])
  /\ UNCHANGED <<kernelVars, status, world, doing, on, depth, late>>

InspectNext(c) ==
  /\ step[c] = "compare" /\ subject[c] \in Roles /\ Matches(c)
  /\ InspectFirst(c, left[c])
  /\ UNCHANGED <<kernelVars, leaseVars, world, doing, on, depth, late>>

IssueBundle(c) ==
  /\ step[c] = "compare" /\ doing[c] = "open_bundle" /\ subject[c] \in Roles /\ Matches(c)
  /\ left[c] = {}
  /\ Issue(c)

LendInspected(c) ==
  /\ step[c] = "compare" /\ doing[c] = "lend" /\ subject[c] \in Roles /\ Matches(c)
  /\ left[c] = {}
  /\ Go(c, "lend")
  /\ left' \in {[left EXCEPT ![c] = h] : h \in Handoffs[on[c]]}
  /\ UNCHANGED <<kernelVars, leaseVars, world, doing, on, subject, depth, sample, late>>

(* The evidence of an inspection is compared with what is expected. *)
Mismatch(c) == step[c] = "compare" /\ ~Matches(c) /\ Abandon(c)

-----------------------------------------------------------------------------
(* Openers, and NewTrashDescriptors *)

OpenRoot(c) ==
  /\ step[c] = "open" /\ doing[c] = "open_root"
  /\ Take(<<c, "root">>, "root", 0)
  /\ Go(c, "sample")
  /\ UNCHANGED <<leaseVars, world, doing, on, left, subject, depth, sample, late>>

(* The opener opens one role after the other, at numbers that may be reserved. *)
OpenRole(c) ==
  /\ step[c] = "open" /\ doing[c] = "open_bundle"
  /\ \E r \in Roles :
       /\ IsFirst(r, RolesOf[on[c]] \ Kept(Opener))
       /\ Take(<<Opener, r>>, r, 0)
       /\ Go(c, IF Kept(Opener) \cup {r} = RolesOf[on[c]] THEN "normalize" ELSE "open")
  /\ UNCHANGED <<leaseVars, world, doing, on, left, subject, depth, sample, late>>

Normalize(c) ==
  /\ step[c] = "normalize"
  /\ \E r \in Kept(Opener) :
       /\ IsFirst(r, Kept(Opener))
       /\ Duplicate(<<Opener, r>>, <<c, r>>)
       /\ subject' = [subject EXCEPT ![c] = r]
  /\ Go(c, "release")
  /\ UNCHANGED <<leaseVars, world, doing, on, left, depth, sample, late>>

(* The original is closed; were that to fail it is not closed again (Fail). *)
ReleaseOriginal(c) ==
  /\ step[c] = "release"
  /\ Drop({<<Opener, subject[c]>>})
  /\ \/ /\ Kept(Opener) # {subject[c]}
        /\ Go(c, "normalize")
        /\ UNCHANGED <<left, subject, sample>>
     \/ /\ Kept(Opener) = {subject[c]}
        /\ InspectFirst(c, RolesOf[on[c]])
  /\ UNCHANGED <<leaseVars, world, doing, on, depth, late>>

-----------------------------------------------------------------------------
(* Lending, and the walks of a parent *)

Lend(c) ==
  /\ step[c] = "lend"
  /\ \E r \in left[c] :
       /\ IsFirst(r, left[c])
       /\ Duplicate(<<on[c], r>>, <<c, r>>)
       /\ left' = [left EXCEPT ![c] = @ \ {r}]
  /\ UNCHANGED <<leaseVars, world, step, doing, on, subject, depth, sample, late>>

Lent(c) ==
  /\ step[c] = "lend" /\ left[c] = {}
  /\ ReturnLent(c)

(* DuplicateRootDescriptor, twice: to walk from, and to walk from again later. *)
DuplicateRoot(c) ==
  /\ step[c] = "duplicate_root"
  /\ LET first == number[<<c, "current">>] = NoNumber IN
     /\ Duplicate(<<Root, "root">>, <<c, IF first THEN "current" ELSE "retained">>)
     /\ Go(c, IF first THEN "lock_root" ELSE "walk")
  /\ lock' = [lock EXCEPT ![Root] = NoCaller]
  /\ UNCHANGED <<status, world, doing, on, left, subject, depth, sample, late>>

Retrace(c) ==
  /\ step[c] = "retrace"
  /\ Duplicate(<<Parent, "retained">>, <<c, "current">>)
  /\ Go(c, "walk")
  /\ UNCHANGED <<leaseVars, world, doing, on, left, subject, depth, sample, late>>

WalkOn(c) ==
  /\ step[c] = "walk" /\ depth[c] < Depth
  /\ Take(<<c, "next">>, "below", 0)
  /\ depth' = [depth EXCEPT ![c] = @ + 1]
  /\ Go(c, "advance")
  /\ UNCHANGED <<leaseVars, world, doing, on, left, subject, sample, late>>

AdvanceKeeping(c) ==  \* slip: when close reports an error, the number closed is kept to be closed again
  /\ step[c] = "advance"
  /\ LET above == number[<<c, "current">>] IN
       table' = [n \in Numbers |-> IF n = above THEN "free" ELSE table[n]]
  /\ Go(c, "walk")
  /\ UNCHANGED <<number, leaseVars, world, doing, on, left, subject, depth, sample, late>>

(* The directory above is closed and given up; the one below takes its place. *)
Advance(c) ==
  /\ step[c] = "advance"
  /\ LET above == number[<<c, "current">>] IN
       table' = [n \in Numbers |-> IF n = above THEN "free" ELSE table[n]]
  /\ number' = [number EXCEPT ![<<c, "current">>] = number[<<c, "next">>], ![<<c, "next">>] = NoNumber]
  /\ Go(c, "walk")
  /\ UNCHANGED <<leaseVars, world, doing, on, left, subject, depth, sample, late>>

Resolved(c) ==
  /\ step[c] = "walk" /\ depth[c] = Depth /\ doing[c] = "resolve"
  /\ Issue(c)

(* The directory reached again is the one held: it is lent. *)
Retraced(c) ==
  /\ step[c] = "walk" /\ depth[c] = Depth /\ doing[c] = "requalify"
  /\ table[number[<<Parent, "current">>]] = table[number[<<c, "current">>]]
  /\ ReturnLent(c)

CloseLater(c) ==  \* slip: Close leaves the descriptors to a later one
  /\ step[c] = "close"
  /\ status' = [status EXCEPT ![on[c]] = "closed"]
  /\ Finish(c) /\ UNCHANGED kernelVars

Close(c) ==
  /\ step[c] = "close"
  /\ status' = [status EXCEPT ![on[c]] = "closed"]
  /\ Drop(At(on[c]))
  /\ Finish(c)

-----------------------------------------------------------------------------
(* A chmod, a remount, another namespace; a fact does not change back. *)
Change ==
  /\ \E f \in Unstable : world[f] < MaxChanges /\ world' = [world EXCEPT ![f] = @ + 1]
  /\ UNCHANGED <<kernelVars, leaseVars, callVars>>

-----------------------------------------------------------------------------

Starts(c) ==
  \/ BeginOpenRoot(c) \/ BeginOpenBundle(c) \/ BeginLend(c)
  \/ BeginResolve(c) \/ BeginRequalify(c) \/ BeginClose(c) \/ Release(c)

Inspections(c) ==
  \/ Sample(c) \/ ReadMountInfo(c) \/ SampleAgain(c) \/ Retry(c) \/ Mismatch(c)
  \/ IssueRoot(c) \/ OpenAfterRoot(c) \/ LendAfterRoot(c)
  \/ InspectNext(c) \/ IssueBundle(c) \/ LendInspected(c)

Transfers(c) ==
  \/ OpenRoot(c) \/ OpenRole(c) \/ Normalize(c) \/ ReleaseOriginal(c)
  \/ Lend(c) \/ Lent(c) \/ DuplicateRoot(c)
  \/ Retrace(c) \/ WalkOn(c) \/ Advance(c) \/ Resolved(c) \/ Retraced(c)
  \/ Close(c) \/ Fail(c)

Locks(c) == LockLease(c) \/ LockRoot(c)

Next ==
  \/ \E c \in Callers : Starts(c) \/ Locks(c) \/ Inspections(c) \/ Transfers(c)
  \/ Change

Spec == Init /\ [][Next]_vars

(* A goroutine that can run runs, and a Go mutex starves no waiter: one that *)
(* has waited for a millisecond is handed the mutex next.                    *)
Fairness ==
  \A c \in Callers :
    /\ WF_vars(Inspections(c) \/ Transfers(c))
    /\ SF_vars(Locks(c))

FairSpec == Spec /\ Fairness

-----------------------------------------------------------------------------
(* Properties *)

TypeOK ==
  /\ table \in [Numbers -> Directories \cup {"free"}]
  /\ number \in [Places -> Numbers \cup {NoNumber}]
  /\ status \in [Leases -> {"none", "open", "closed"}]
  /\ lock \in [Leases -> Callers \cup {NoCaller}]
  /\ world \in [Facts -> 0..MaxChanges]
  /\ step \in [Callers -> {"idle", "lock_lease", "lock_root", "close"} \cup Fallible]
  /\ doing \in [Callers -> {"nothing", "open_root", "open_bundle", "lend", "resolve", "requalify", "close"}]
  /\ on \in [Callers -> Leases \cup {NoLease}]
  /\ left \in [Callers -> SUBSET Roles]
  /\ subject \in [Callers -> Roles \cup {"root"}]
  /\ depth \in [Callers -> 0..Depth]
  /\ sample \in [Callers -> [before : 0..MaxChanges, namespace : 0..MaxChanges,
                             mount : 0..MaxChanges, attempt : 1..AttemptLimit, whole : BOOLEAN]]
  /\ late \in [Callers -> BOOLEAN]

(* What a number kept in slot s may refer to. *)
MeantBy(s) ==
  IF s \in {"current", "next"} THEN {"root", "below"} ELSE IF s = "retained" THEN {"root"} ELSE {s}

(* Every number that a lease or a call will use or close is open, refers to *)
(* the directory it was kept for and is kept in one place only; and every   *)
(* descriptor this code has open is kept somewhere: none is closed twice,   *)
(* used after its close, or leaked, whatever fails and whoever reuses it.   *)
DescriptorsHaveOneOwner ==
  /\ \A p \in Places : number[p] # NoNumber =>
       /\ table[number[p]] \in MeantBy(p[2])
       /\ \A q \in Places : number[q] = number[p] => q = p
  /\ \A n \in Numbers : ~Free(n) /\ table[n] # "foreign" => \E p \in Places : number[p] = n

(* The descriptors of a lease that is open. *)
Holdings(l) ==
  IF l = Root THEN {"root"} ELSE IF l = Parent THEN {"current", "retained"} ELSE RolesOf[l]

Inspecting == {"sample", "mountinfo", "sample_again", "compare"}

(* The mutexes that a call holds where it is. *)
HoldsLease(c) ==
  \/ doing[c] = "lend" /\ step[c] \in Inspecting \cup {"lock_root", "lend"}
  \/ doing[c] = "requalify" /\ step[c] \in {"retrace", "walk", "advance"}
  \/ step[c] = "close"

HoldsRoot(c) ==
  \/ doing[c] \in {"lend", "open_bundle"} /\ step[c] \in Inspecting /\ subject[c] = "root"
  \/ step[c] = "duplicate_root"

Holds(c, l) == (HoldsLease(c) /\ l = on[c]) \/ (HoldsRoot(c) /\ l = Root)

(* What each call keeps where it is, so that an error path can close it. *)
Stands(c) ==
  LET K == Kept(c)
      O == Kept(Opener)
      roles == RolesOf[on[c]]
  IN
  \/ doing[c] = "nothing" /\ on[c] = NoLease /\ step[c] = "idle" /\ K = {}
  \/ /\ doing[c] = "open_root" /\ on[c] = Root /\ subject[c] = "root"
     /\ \/ step[c] = "open" /\ K = {}
        \/ step[c] \in Inspecting /\ K = {"root"}
  \/ /\ doing[c] = "open_bundle" /\ on[c] \in Bundles
     /\ \/ step[c] \in {"lock_root"} \cup Inspecting /\ subject[c] = "root" /\ K = {} /\ O = {}
        \/ step[c] = "open" /\ K = {} /\ O \subseteq roles /\ O # roles
        \/ step[c] = "normalize" /\ O # {} /\ K \cap O = {} /\ K \cup O = roles
        \/ step[c] = "release" /\ K \cap O = {subject[c]} /\ K \cup O = roles
        \/ step[c] \in Inspecting /\ subject[c] \in roles /\ left[c] \subseteq roles /\ K = roles /\ O = {}
  \/ /\ doing[c] = "lend" /\ on[c] \in Bundles
     /\ \/ step[c] \in {"lock_lease", "lock_root"} \cup Inspecting /\ subject[c] = "root" /\ K = {}
        \/ step[c] \in Inspecting /\ subject[c] \in roles /\ left[c] \subseteq roles /\ K = {}
        \/ step[c] = "lend" /\ K \cap left[c] = {} /\ K \cup left[c] \in Handoffs[on[c]]
        \/ step[c] = "idle" /\ K \in Handoffs[on[c]]
  \/ /\ doing[c] = "resolve" /\ on[c] = Parent
     /\ \/ step[c] \in {"lock_root", "duplicate_root"} /\ K \subseteq {"current"}
        \/ step[c] = "walk" /\ K = {"current", "retained"}
        \/ step[c] = "advance" /\ K = {"current", "next", "retained"}
  \/ /\ doing[c] = "requalify" /\ on[c] = Parent
     /\ \/ step[c] \in {"lock_lease", "retrace"} /\ K = {}
        \/ step[c] \in {"walk", "idle"} /\ K = {"current"}
        \/ step[c] = "advance" /\ K = {"current", "next"}
  \/ doing[c] = "close" /\ on[c] \in Leases /\ step[c] \in {"lock_lease", "close"} /\ K = {}

(* What it relies on although others run: its reads so far, that nobody else *)
(* issues its lease, and where the closing of a lease still has to stop it.  *)
Issues == {"open_root", "open_bundle", "resolve"}

Relies(c) ==
  /\ doing[c] \in Issues => status[on[c]] = "none"
  /\ step[c] \in {"idle", "lock_lease", "lock_root", "duplicate_root"} => subject[c] = "root"
  /\ step[c] \in {"mountinfo", "sample_again"} =>
       sample[c].before <= Evidence(c) /\ sample[c].namespace <= world["namespace"]
  /\ step[c] = "sample_again" => sample[c].whole \/ ~Stable(c)
  /\ step[c] = "compare" => sample[c].whole
  /\ late[c] =>
       /\ step[c] \in {"lock_lease", "lock_root", "close"} /\ Kept(c) = {}
       /\ step[c] = "lock_root" => status[Root] = "closed"
       /\ step[c] = "lock_lease" =>
            status[on[c]] = "closed" \/ (doing[c] # "requalify" /\ status[Root] = "closed")

Alone(c, d) ==
  c # d /\ doing[c] \in Issues /\ doing[d] \in Issues =>
    on[c] # on[d] /\ ~(doing[c] = "open_bundle" /\ doing[d] = "open_bundle")

LeaseInv ==
  /\ TypeOK
  /\ \A l \in Leases :
       /\ Kept(l) = IF status[l] = "open" THEN Holdings(l) ELSE {}
       /\ lock[l] # NoCaller => status[l] = "open" /\ Holds(lock[l], l)
  /\ \A c \in Callers :
       /\ \A l \in Leases : Holds(c, l) => lock[l] = c
       /\ Stands(c) /\ Relies(c)
       /\ \A d \in Callers : Alone(c, d)
  /\ Kept(Opener) # {} => \E c \in Callers : doing[c] = "open_bundle"

(* A caller is lent all of a handoff or nothing, and keeps nothing of a call *)
(* that failed: no early return forgets what the call has duplicated.        *)
LentIsWhole ==
  \A c \in Callers : step[c] = "idle" =>
    \/ Kept(c) = {}
    \/ doing[c] = "lend" /\ Kept(c) \in Handoffs[on[c]]
    \/ doing[c] = "requalify" /\ Kept(c) = {"current"}

(* A call that begins once the lease it uses, or the root it is bound to, *)
(* has been closed never has a descriptor, not even while it fails.       *)
ClosedLeasesLendNothing == \A c \in Callers : late[c] => Kept(c) = {}

(* What an inspection concludes from five reads was true of descriptor,    *)
(* namespace and mountinfo together at one moment, though they may change  *)
(* between any two of the reads.                                           *)
EvidenceIsASnapshot ==
  \A c \in Callers : step[c] = "compare" => sample[c].whole

(* Every call returns, Close among them: mutexes are taken in an order that *)
(* cannot deadlock and released on every path.                              *)
CallsReturn == \A c \in Callers : (step[c] # "idle") ~> (step[c] = "idle")

=============================================================================
