----------------------- MODULE DescriptorLeasesProofs -----------------------
(***************************************************************************)
(* LeaseInv and the ownership of descriptors are inductive together, for   *)
(* any goroutines, leases and roles; the other invariants follow.          *)
(***************************************************************************)
EXTENDS DescriptorLeases, TLAPS

Inv == LeaseInv /\ DescriptorsHaveOneOwner

KernelOK ==
  /\ table \in [Numbers -> Directories \cup {"free"}]
  /\ number \in [Places -> Numbers \cup {NoNumber}]
  /\ DescriptorsHaveOneOwner

(* Holder h keeps the same numbers, for the same directories. *)
Same(h) ==
  \A s \in Slots :
    /\ number'[<<h, s>>] = number[<<h, s>>]
    /\ number[<<h, s>>] # NoNumber => table'[number[<<h, s>>]] = table[number[<<h, s>>]]

LEMMA NoNumberIsNone == NoNumber \notin Numbers
BY LeaseAssumptions DEF NoNumber, Numbers

LEMMA KeptMeans ==
  ASSUME NEW h, NEW s
  PROVE  s \in Kept(h) <=> s \in Slots /\ number[<<h, s>>] # NoNumber
BY DEF Kept

LEMMA SameKeeps ==
  ASSUME NEW h, Same(h)
  PROVE  Kept(h)' = Kept(h)
BY DEF Same, Kept

LEMMA UnchangedIsSame ==
  ASSUME UNCHANGED kernelVars, NEW h
  PROVE  Same(h)
BY DEF Same, kernelVars

(* What a number is kept for is never a file of others, nor nothing. *)
LEMMA Meanings ==
  ASSUME NEW s \in Slots
  PROVE  MeantBy(s) \subseteq Directories \ {"foreign", "free"}
BY LeaseAssumptions DEF MeantBy, Slots, Directories

LEMMA TakeKeeps ==
  ASSUME KernelOK, NEW h \in Holders, NEW s \in Slots, NEW d \in MeantBy(s), NEW from,
         number[<<h, s>>] = NoNumber, Take(<<h, s>>, d, from)
  PROVE  /\ KernelOK'
         /\ Kept(h)' = Kept(h) \cup {s}
         /\ \A g \in Holders \ {h} : Same(g)
<1> DEFINE p == <<h, s>>
<1>p. p \in Places
  BY DEF Places
<1>1. PICK n \in Numbers : /\ Free(n)
                           /\ table' = [table EXCEPT ![n] = d]
                           /\ number' = [number EXCEPT ![p] = n]
  BY DEF Take, IsLowest
<1>2. n # NoNumber /\ d \in Directories \ {"foreign", "free"}
  BY NoNumberIsNone, Meanings
<1>3. \A q \in Places : number[q] # n
  BY <1>1, <1>2, Meanings DEF KernelOK, DescriptorsHaveOneOwner, Free, Places
<1>4. /\ table' \in [Numbers -> Directories \cup {"free"}]
      /\ number' \in [Places -> Numbers \cup {NoNumber}]
  BY <1>1, <1>2 DEF KernelOK
<1>5. \A q \in Places : q # p => number'[q] = number[q]
  BY <1>1 DEF KernelOK
<1>6. number'[p] = n /\ table'[n] = d /\ \A m \in Numbers : m # n => table'[m] = table[m]
  BY <1>1, <1>p DEF KernelOK
<1>7. \A q \in Places : number[q] # NoNumber => table'[number[q]] = table[number[q]]
  BY <1>3, <1>6 DEF KernelOK
<1>8. DescriptorsHaveOneOwner'
  <2>1. ASSUME NEW q \in Places, number'[q] # NoNumber
        PROVE  /\ table'[number'[q]] \in MeantBy(q[2])
               /\ \A r \in Places : number'[r] = number'[q] => r = q
    <3>1. CASE q = p
      BY <3>1, <1>3, <1>5, <1>6
    <3>2. CASE q # p
      BY <3>2, <2>1, <1>3, <1>5, <1>6, <1>7 DEF KernelOK, DescriptorsHaveOneOwner
    <3>3. QED
      BY <3>1, <3>2
  <2>2. ASSUME NEW m \in Numbers, table'[m] # "free", table'[m] # "foreign"
        PROVE  \E q \in Places : number'[q] = m
    <3>1. CASE m = n
      BY <3>1, <1>6, <1>p
    <3>2. CASE m # n
      <4>1. PICK q \in Places : number[q] = m
        BY <3>2, <2>2, <1>6 DEF KernelOK, DescriptorsHaveOneOwner, Free
      <4>2. q # p
        BY <4>1, NoNumberIsNone
      <4>3. QED
        BY <4>1, <4>2, <1>5
    <3>3. QED
      BY <3>1, <3>2
  <2>3. QED
    BY <2>1, <2>2 DEF DescriptorsHaveOneOwner, Free, MeantBy
<1>9. Kept(h)' = Kept(h) \cup {s}
  <2>1. \A t \in Slots : t # s => number'[<<h, t>>] = number[<<h, t>>]
    BY <1>5 DEF Places
  <2>2. QED
    BY <2>1, <1>2, <1>6 DEF Kept
<1>10. ASSUME NEW g \in Holders \ {h}
       PROVE  Same(g)
  <2>1. \A t \in Slots : <<g, t>> \in Places /\ <<g, t>> # p
    BY DEF Places
  <2>2. QED
    BY <2>1, <1>5, <1>7 DEF Same
<1>11. QED
  BY <1>4, <1>8, <1>9, <1>10 DEF KernelOK

LEMMA DropKeeps ==
  ASSUME KernelOK, NEW P \in SUBSET Places, Drop(P)
  PROVE  /\ KernelOK'
         /\ \A h \in Holders : Kept(h)' = {s \in Kept(h) : <<h, s>> \notin P}
         /\ \A h \in Holders : (\A s \in Slots : <<h, s>> \notin P) => Same(h)
<1>1. \A q \in Places : number'[q] = IF q \in P THEN NoNumber ELSE number[q]
  BY DEF Drop
<1>2. \A n \in Numbers : table'[n] = IF \E p \in P : number[p] = n THEN "free" ELSE table[n]
  BY DEF Drop
<1>3. /\ table' \in [Numbers -> Directories \cup {"free"}]
      /\ number' \in [Places -> Numbers \cup {NoNumber}]
  BY DEF Drop, KernelOK
<1>4. \A q \in Places \ P : number[q] # NoNumber => table'[number[q]] = table[number[q]]
  <2> SUFFICES ASSUME NEW q \in Places \ P, number[q] # NoNumber
               PROVE  table'[number[q]] = table[number[q]]
    OBVIOUS
  <2>1. number[q] \in Numbers /\ \A p \in P : number[p] # number[q]
    BY DEF KernelOK, DescriptorsHaveOneOwner
  <2>2. QED
    BY <2>1, <1>2
<1>5. DescriptorsHaveOneOwner'
  <2>1. ASSUME NEW q \in Places, number'[q] # NoNumber
        PROVE  /\ table'[number'[q]] \in MeantBy(q[2])
               /\ \A r \in Places : number'[r] = number'[q] => r = q
    BY <2>1, <1>1, <1>4 DEF KernelOK, DescriptorsHaveOneOwner
  <2>2. ASSUME NEW m \in Numbers, table'[m] # "free", table'[m] # "foreign"
        PROVE  \E q \in Places : number'[q] = m
    <3>1. table'[m] = table[m] /\ \A p \in P : number[p] # m
      BY <1>2, <2>2
    <3>2. PICK q \in Places : number[q] = m
      BY <3>1, <2>2 DEF KernelOK, DescriptorsHaveOneOwner, Free
    <3>3. QED
      BY <3>1, <3>2, <1>1
  <2>3. QED
    BY <2>1, <2>2 DEF DescriptorsHaveOneOwner, Free, MeantBy
<1>6. ASSUME NEW h \in Holders
      PROVE  Kept(h)' = {s \in Kept(h) : <<h, s>> \notin P}
  <2>1. \A s \in Slots : <<h, s>> \in Places
    BY DEF Places
  <2>2. QED
    BY <2>1, <1>1 DEF Kept
<1>7. ASSUME NEW h \in Holders, \A s \in Slots : <<h, s>> \notin P
      PROVE  Same(h)
  <2>1. \A s \in Slots : <<h, s>> \in Places \ P
    BY <1>7 DEF Places
  <2>2. QED
    BY <2>1, <1>1, <1>4 DEF Same
<1>8. QED
  BY <1>3, <1>5, <1>6, <1>7 DEF KernelOK

LEMMA HandOverKeeps ==
  ASSUME KernelOK, NEW h \in Holders, NEW g \in Holders \ {h}, Kept(g) = {}, HandOver(h, g)
  PROVE  /\ KernelOK'
         /\ Kept(g)' = Kept(h) /\ Kept(h)' = {}
         /\ \A k \in Holders \ {g, h} : Same(k)
<1>1. /\ table' = table
      /\ \A k \in Holders, s \in Slots : number'[<<k, s>>] =
           IF k = g THEN number[<<h, s>>] ELSE IF k = h THEN NoNumber ELSE number[<<k, s>>]
  BY DEF HandOver, Places, At
<1>2. \A s \in Slots : number[<<g, s>>] = NoNumber
  BY DEF Kept
<1>3. number' \in [Places -> Numbers \cup {NoNumber}]
  <2>1. \A p \in Places : <<h, p[2]>> \in Places
    BY DEF Places
  <2>2. QED
    BY <2>1 DEF HandOver, KernelOK
<1>4. DescriptorsHaveOneOwner'
  <2>1. ASSUME NEW k \in Holders, NEW s \in Slots, number'[<<k, s>>] # NoNumber
        PROVE  \E m \in Holders : /\ number'[<<k, s>>] = number[<<m, s>>]
                                  /\ m = IF k = g THEN h ELSE k
                                  /\ k # h
    BY <2>1, <1>1
  <2>2. ASSUME NEW q \in Places, number'[q] # NoNumber
        PROVE  /\ table'[number'[q]] \in MeantBy(q[2])
               /\ \A r \in Places : number'[r] = number'[q] => r = q
    <3>1. PICK k \in Holders, s \in Slots : q = <<k, s>>
      BY DEF Places
    <3>2. PICK m \in Holders : /\ number'[<<k, s>>] = number[<<m, s>>]
                               /\ m = IF k = g THEN h ELSE k
                               /\ k # h
      BY <2>1, <2>2, <3>1
    <3>3. <<m, s>> \in Places
      BY DEF Places
    <3>4. table'[number'[q]] \in MeantBy(q[2])
      BY <3>1, <3>2, <3>3, <2>2, <1>1 DEF KernelOK, DescriptorsHaveOneOwner
    <3>5. ASSUME NEW r \in Places, number'[r] = number'[q]
          PROVE  r = q
      <4>1. PICK j \in Holders, t \in Slots : r = <<j, t>>
        BY DEF Places
      <4>2. PICK n \in Holders : /\ number'[<<j, t>>] = number[<<n, t>>]
                                 /\ n = IF j = g THEN h ELSE j
                                 /\ j # h
        BY <2>1, <2>2, <3>5, <4>1
      <4>3. <<n, t>> \in Places
        BY DEF Places
      <4>4. <<n, t>> = <<m, s>>
        BY <2>2, <3>1, <3>2, <3>3, <3>5, <4>1, <4>2, <4>3 DEF KernelOK, DescriptorsHaveOneOwner
      <4>5. QED
        BY <4>1, <4>2, <4>4, <3>1, <3>2
    <3>6. QED
      BY <3>4, <3>5
  <2>3. ASSUME NEW m \in Numbers, table'[m] # "free", table'[m] # "foreign"
        PROVE  \E q \in Places : number'[q] = m
    <3>1. PICK p \in Places : number[p] = m
      BY <2>3, <1>1 DEF KernelOK, DescriptorsHaveOneOwner, Free
    <3>2. PICK k \in Holders, s \in Slots : p = <<k, s>>
      BY DEF Places
    <3>3. k # g
      BY <3>1, <3>2, <1>2, NoNumberIsNone
    <3>4. number'[<<IF k = h THEN g ELSE k, s>>] = m
      BY <3>1, <3>2, <3>3, <1>1
    <3>5. <<IF k = h THEN g ELSE k, s>> \in Places
      BY DEF Places
    <3>6. QED
      BY <3>4, <3>5
  <2>4. QED
    BY <2>2, <2>3 DEF DescriptorsHaveOneOwner, Free, MeantBy
<1>5. QED
  BY <1>1, <1>3, <1>4 DEF KernelOK, Kept, Same

(* The directory above is closed, and the one below kept in its place. *)
Forward(c) ==
  /\ table' = [n \in Numbers |-> IF n = number[<<c, "current">>] THEN "free" ELSE table[n]]
  /\ number' = [number EXCEPT ![<<c, "current">>] = number[<<c, "next">>], ![<<c, "next">>] = NoNumber]

LEMMA ForwardKeeps ==
  ASSUME KernelOK, NEW c \in Holders, "current" \in Kept(c), "next" \in Kept(c), Forward(c)
  PROVE  /\ KernelOK'
         /\ Kept(c)' = Kept(c) \ {"next"}
         /\ \A k \in Holders \ {c} : Same(k)
<1> DEFINE p == <<c, "current">>
           q == <<c, "next">>
<1>1. /\ p \in Places /\ q \in Places /\ p # q
      /\ number[p] \in Numbers /\ number[q] \in Numbers /\ number[p] # number[q]
  BY DEF Places, Slots, Kept, KernelOK, DescriptorsHaveOneOwner
<1>2. /\ number'[p] = number[q] /\ number'[q] = NoNumber
      /\ \A r \in Places \ {p, q} : number'[r] = number[r]
  BY <1>1 DEF Forward, KernelOK
<1>3. \A n \in Numbers : table'[n] = IF n = number[p] THEN "free" ELSE table[n]
  BY DEF Forward
<1>4. /\ table' \in [Numbers -> Directories \cup {"free"}]
      /\ number' \in [Places -> Numbers \cup {NoNumber}]
  BY <1>1 DEF Forward, KernelOK
<1>5. \A r \in Places \ {p} : number[r] # NoNumber =>
        number[r] \in Numbers /\ number[r] # number[p] /\ table'[number[r]] = table[number[r]]
  BY <1>1, <1>3 DEF KernelOK, DescriptorsHaveOneOwner
<1>6. DescriptorsHaveOneOwner'
  <2>1. ASSUME NEW r \in Places, number'[r] # NoNumber
        PROVE  /\ table'[number'[r]] \in MeantBy(r[2])
               /\ \A t \in Places : number'[t] = number'[r] => t = r
    <3>1. CASE r = p
      <4>1. table[number[q]] \in MeantBy("next")
        BY <1>1, NoNumberIsNone DEF KernelOK, DescriptorsHaveOneOwner
      <4>2. table'[number'[r]] \in MeantBy(r[2])
        BY <4>1, <3>1, <1>1, <1>2, <1>5, NoNumberIsNone DEF MeantBy
      <4>3. ASSUME NEW t \in Places, number'[t] = number'[r]
            PROVE  t = r
        BY <4>3, <3>1, <1>1, <1>2, NoNumberIsNone DEF KernelOK, DescriptorsHaveOneOwner
      <4>4. QED
        BY <4>2, <4>3
    <3>2. CASE r # p
      <4>1. r # q /\ number'[r] = number[r]
        BY <3>2, <2>1, <1>2
      <4>2. table'[number'[r]] \in MeantBy(r[2])
        BY <4>1, <3>2, <2>1, <1>5 DEF KernelOK, DescriptorsHaveOneOwner
      <4>3. ASSUME NEW t \in Places, number'[t] = number'[r]
            PROVE  t = r
        BY <4>1, <4>3, <3>2, <2>1, <1>1, <1>2 DEF KernelOK, DescriptorsHaveOneOwner
      <4>4. QED
        BY <4>2, <4>3
    <3>3. QED
      BY <3>1, <3>2
  <2>2. ASSUME NEW m \in Numbers, table'[m] # "free", table'[m] # "foreign"
        PROVE  \E r \in Places : number'[r] = m
    <3>1. m # number[p] /\ table[m] = table'[m]
      BY <2>2, <1>3
    <3>2. PICK r \in Places : number[r] = m
      BY <3>1, <2>2 DEF KernelOK, DescriptorsHaveOneOwner, Free
    <3>3. QED
      BY <3>1, <3>2, <1>1, <1>2
  <2>3. QED
    BY <2>1, <2>2 DEF DescriptorsHaveOneOwner, Free, MeantBy
<1>7. Kept(c)' = Kept(c) \ {"next"}
  <2>1. \A s \in Slots : <<c, s>> \in Places
    BY DEF Places
  <2>2. QED
    BY <2>1, <1>1, <1>2, NoNumberIsNone DEF Kept, Slots
<1>8. ASSUME NEW k \in Holders \ {c}
      PROVE  Same(k)
  <2>1. \A s \in Slots : <<k, s>> \in Places \ {p, q}
    BY DEF Places
  <2>2. QED
    BY <2>1, <1>2, <1>5 DEF Same
<1>9. QED
  BY <1>4, <1>6, <1>7, <1>8 DEF KernelOK

-----------------------------------------------------------------------------
(* What a step of c leaves to the other callers *)

Aside(c) ==
  \A d \in Callers \ {c} :
    /\ step'[d] = step[d] /\ doing'[d] = doing[d] /\ on'[d] = on[d] /\ left'[d] = left[d]
    /\ subject'[d] = subject[d] /\ sample'[d] = sample[d] /\ late'[d] = late[d]

Frame(c) ==
  /\ Aside(c)
  /\ \A d \in Callers \ {c} : Same(d)
  /\ doing[c] # "open_bundle" => Same(Opener)
  /\ \A l \in Leases :
       /\ \/ status'[l] = status[l]
          \/ status[l] = "open" /\ status'[l] = "closed"
          \/ status[l] = "none" /\ l = on[c] /\ doing[c] \in Issues
       /\ lock'[l] = lock[l] \/ {lock[l], lock'[l]} \subseteq {c, NoCaller}
       /\ lock[l] \notin {c, NoCaller} => Same(l) /\ status'[l] = status[l]
  /\ UNCHANGED world

(* What it has to establish for c itself and for the leases. *)
Own(c) ==
  /\ TypeOK' /\ DescriptorsHaveOneOwner'
  /\ Stands(c)' /\ Relies(c)'
  /\ \A l \in Leases :
       /\ Kept(l)' = IF status'[l] = "open" THEN Holdings(l) ELSE {}
       /\ Holds(c, l)' <=> lock'[l] = c
       /\ lock'[l] = c => status'[l] = "open"
  /\ doing'[c] \in Issues =>
       \/ doing'[c] = doing[c] /\ on'[c] = on[c]
       \/ \A d \in Callers \ {c} : doing[d] \in Issues =>
            on[d] # on'[c] /\ ~(doing'[c] = "open_bundle" /\ doing[d] = "open_bundle")
  /\ Kept(Opener)' # {} =>
       doing'[c] = "open_bundle" \/ (doing[c] # "open_bundle" /\ Kept(Opener)' = Kept(Opener))

LEMMA OthersHold ==
  ASSUME Inv, NEW c \in Callers, Frame(c), NEW d \in Callers \ {c}, NEW l \in Leases
  PROVE  /\ Holds(d, l)' <=> Holds(d, l)
         /\ lock'[l] = d <=> lock[l] = d
         /\ lock[l] = d => Same(l) /\ status'[l] = "open"
<1>1. Holds(d, l)' <=> Holds(d, l)
  BY DEF Frame, Aside, Holds, HoldsLease, HoldsRoot, Inspecting
<1>2. lock'[l] = d <=> lock[l] = d
  BY LeaseAssumptions DEF Frame
<1>3. lock[l] = d => Same(l) /\ status'[l] = "open"
  BY LeaseAssumptions DEF Frame, Inv, LeaseInv
<1>4. QED
  BY <1>1, <1>2, <1>3

LEMMA OthersStand ==
  ASSUME Inv, NEW c \in Callers, Frame(c), NEW d \in Callers \ {c}
  PROVE  Stands(d)'
<1>1. Stands(d) /\ Alone(c, d)
  BY DEF Inv, LeaseInv
<1>2. Kept(d)' = Kept(d)
  BY SameKeeps DEF Frame
<1>3. doing[d] = "open_bundle" => Kept(Opener)' = Kept(Opener)
  BY <1>1, SameKeeps DEF Frame, Alone, Issues
<1>4. /\ step'[d] = step[d] /\ doing'[d] = doing[d] /\ on'[d] = on[d] /\ left'[d] = left[d]
      /\ subject'[d] = subject[d]
  BY DEF Frame, Aside
<1>5. CASE doing[d] = "open_bundle"
  BY <1>5, <1>1, <1>2, <1>3, <1>4 DEF Stands, Inspecting
<1>6. CASE doing[d] # "open_bundle"
  BY <1>6, <1>1, <1>2, <1>4 DEF Stands, Inspecting
<1>7. QED
  BY <1>5, <1>6

(* What a call inspects is kept by the call, or by a lease whose mutex it holds. *)
LEMMA InspectsKept ==
  ASSUME Inv, NEW d \in Callers, step[d] \in Inspecting
  PROVE  \E h \in Holders, s \in Slots :
           /\ Inspected(d) = <<h, s>> /\ s \in Kept(h)
           /\ h = d \/ (h \in Leases /\ lock[h] = d)
<1>1. Stands(d)
  BY DEF Inv, LeaseInv
<1>2. CASE doing[d] = "open_root"
  BY <1>1, <1>2 DEF Inspected, Stands, Holders, Slots, Inspecting
<1>3. CASE doing[d] \in {"lend", "open_bundle"} /\ subject[d] = "root"
  <2>1. Holds(d, Root) /\ Root \in Leases
    BY <1>3 DEF Holds, HoldsRoot, Leases
  <2>2. lock[Root] = d
    BY <2>1 DEF Inv, LeaseInv
  <2>3. Kept(Root) = {"root"}
    BY <2>1, <2>2, LeaseAssumptions DEF Inv, LeaseInv, Holdings
  <2>4. QED
    BY <1>3, <2>1, <2>2, <2>3 DEF Inspected, Holders, Slots
<1>4. CASE doing[d] = "lend" /\ subject[d] # "root"
  <2>1. /\ on[d] \in Bundles /\ subject[d] \in RolesOf[on[d]] /\ on[d] \in Leases
        /\ Holds(d, on[d])
    BY <1>1, <1>4 DEF Stands, Holds, HoldsLease, Inspecting, Leases
  <2>2. lock[on[d]] = d
    BY <2>1 DEF Inv, LeaseInv
  <2>3. Kept(on[d]) = RolesOf[on[d]]
    BY <2>1, <2>2, LeaseAssumptions DEF Inv, LeaseInv, Holdings
  <2>4. QED
    BY <1>4, <2>1, <2>2, <2>3, LeaseAssumptions DEF Inspected, Holders, Slots
<1>5. CASE doing[d] = "open_bundle" /\ subject[d] # "root"
  <2>1. on[d] \in Bundles /\ subject[d] \in RolesOf[on[d]] /\ Kept(d) = RolesOf[on[d]]
    BY <1>1, <1>5 DEF Stands, Inspecting
  <2>2. QED
    BY <1>5, <2>1, LeaseAssumptions DEF Inspected, Holders, Slots
<1>6. QED
  BY <1>1, <1>2, <1>3, <1>4, <1>5 DEF Stands, Inspecting

LEMMA EvidenceIsTyped ==
  ASSUME Inv, NEW d \in Callers, step[d] \in Inspecting
  PROVE  Evidence(d) \in 0..MaxChanges
<1>1. PICK h \in Holders, s \in Slots : Inspected(d) = <<h, s>> /\ s \in Kept(h)
  BY InspectsKept
<1>2. <<h, s>> \in Places /\ number[<<h, s>>] # NoNumber
  BY <1>1 DEF Places, Kept
<1>3. table[number[<<h, s>>]] \in MeantBy(s) /\ MeantBy(s) \subseteq Directories
  BY <1>2, Meanings DEF Inv, DescriptorsHaveOneOwner
<1>4. QED
  BY <1>1, <1>3 DEF Evidence, Inv, LeaseInv, TypeOK, Directories, Facts

(* The evidence that another caller reads is of the same directory. *)
LEMMA OthersInspect ==
  ASSUME Inv, NEW c \in Callers, Frame(c), NEW d \in Callers \ {c}, step[d] \in Inspecting
  PROVE  Evidence(d)' = Evidence(d)
<1>1. PICK h \in Holders, s \in Slots :
        /\ Inspected(d) = <<h, s>> /\ s \in Kept(h)
        /\ h = d \/ (h \in Leases /\ lock[h] = d)
  BY InspectsKept
<1>2. Same(h)
  BY <1>1, OthersHold DEF Frame
<1>3. Inspected(d)' = Inspected(d)
  BY DEF Frame, Aside, Inspected
<1>4. number'[<<h, s>>] = number[<<h, s>>] /\ table'[number[<<h, s>>]] = table[number[<<h, s>>]]
  BY <1>1, <1>2 DEF Same, Kept
<1>5. QED
  BY <1>1, <1>3, <1>4 DEF Evidence, Frame

LEMMA OthersRely ==
  ASSUME Inv, NEW c \in Callers, Frame(c), NEW d \in Callers \ {c}
  PROVE  Relies(d)'
<1>1. Relies(d) /\ Stands(d) /\ Alone(c, d)
  BY DEF Inv, LeaseInv
<1>2. Kept(d)' = Kept(d)
  BY SameKeeps DEF Frame
<1>3. doing[d] \in Issues => status'[on[d]] = "none"
  <2>1. SUFFICES ASSUME doing[d] \in Issues
                 PROVE  status'[on[d]] = "none"
    OBVIOUS
  <2>2. on[d] \in Leases /\ status[on[d]] = "none"
    BY <2>1, <1>1 DEF Stands, Relies, Issues, Leases
  <2>3. QED
    BY <2>1, <2>2, <1>1 DEF Alone, Frame
<1>4. \A l \in Leases : status[l] = "closed" => status'[l] = "closed"
  BY DEF Frame
<1>5. late[d] => Root \in Leases /\ (step[d] = "lock_lease" => on[d] \in Leases)
  BY <1>1 DEF Stands, Leases
<1>6. step[d] \in {"mountinfo", "sample_again"} =>
        (sample[d].before <= Evidence(d) /\ sample[d].namespace <= world["namespace"])'
  BY <1>1, OthersInspect DEF Relies, Frame, Aside, Inspecting
<1>7. step[d] = "sample_again" => sample[d].whole \/ ~Stable(d)'
  BY <1>1, OthersInspect DEF Relies, Frame, Aside, Inspecting, Stable
<1>8. QED
  BY <1>1, <1>2, <1>3, <1>4, <1>5, <1>6, <1>7 DEF Relies, Frame, Aside

LEMMA Assemble ==
  ASSUME Inv, NEW c \in Callers, Frame(c), Own(c)
  PROVE  Inv'
<1>1. ASSUME NEW l \in Leases
      PROVE  /\ Kept(l)' = IF status'[l] = "open" THEN Holdings(l) ELSE {}
             /\ lock'[l] # NoCaller => status'[l] = "open" /\ Holds(lock[l], l)'
  <2> DEFINE d == lock'[l]
  <2>1. CASE lock'[l] \in {c, NoCaller}
    BY <2>1 DEF Own
  <2>2. CASE lock'[l] \notin {c, NoCaller}
    BY <2>2, OthersHold DEF Own, Inv, LeaseInv, TypeOK
  <2>3. QED
    BY <2>1, <2>2
<1>2. ASSUME NEW d \in Callers
      PROVE  /\ \A l \in Leases : Holds(d, l)' => lock'[l] = d
             /\ Stands(d)' /\ Relies(d)'
  BY OthersHold, OthersStand, OthersRely DEF Own, Inv, LeaseInv
<1>3. ASSUME NEW d \in Callers, NEW e \in Callers
      PROVE  Alone(d, e)'
  <2>1. Alone(d, e)
    BY DEF Inv, LeaseInv
  <2>2. QED
    BY <2>1 DEF Own, Frame, Aside, Alone
<1>4. Kept(Opener)' # {} => \E d \in Callers : doing'[d] = "open_bundle"
  BY DEF Own, Frame, Aside, Inv, LeaseInv
<1>5. QED
  BY <1>1, <1>2, <1>3, <1>4 DEF Own, Inv, LeaseInv

-----------------------------------------------------------------------------
(* Calls that return with nothing *)

LEMMA FinishKeeps ==
  ASSUME Inv, NEW c \in Callers, Finish(c), KernelOK', Kept(c)' = {},
         status' \in [Leases -> {"none", "open", "closed"}],
         \A d \in Callers \ {c} : Same(d),
         IF doing[c] = "open_bundle" THEN Kept(Opener)' = {} ELSE Same(Opener),
         \A l \in Leases :
           /\ \/ status'[l] = status[l]
              \/ status[l] = "open" /\ status'[l] = "closed"
              \/ status[l] = "none" /\ l = on[c] /\ doing[c] \in Issues
           /\ lock[l] \notin {c, NoCaller} => Same(l) /\ status'[l] = status[l]
           /\ Kept(l)' = IF status'[l] = "open" THEN Holdings(l) ELSE {}
  PROVE  Inv'
<1>1. /\ step' = [step EXCEPT ![c] = "idle"] /\ doing' = [doing EXCEPT ![c] = "nothing"]
      /\ on' = [on EXCEPT ![c] = NoLease] /\ left' = [left EXCEPT ![c] = {}]
      /\ subject' = [subject EXCEPT ![c] = "root"] /\ depth' = [depth EXCEPT ![c] = 0]
      /\ sample' = [sample EXCEPT ![c] = Unsampled] /\ late' = [late EXCEPT ![c] = FALSE]
      /\ world' = world /\ lock' = Unlocked(c)
  BY DEF Finish, Return, Go
<1>2. TypeOK
  BY DEF Inv, LeaseInv
<1>3. lock' \in [Leases -> Callers \cup {NoCaller}] /\ \A l \in Leases : lock'[l] # c
  BY <1>1, <1>2, LeaseAssumptions DEF Unlocked, TypeOK
<1>4. Unsampled \in [before : 0..MaxChanges, namespace : 0..MaxChanges,
                     mount : 0..MaxChanges, attempt : 1..AttemptLimit, whole : BOOLEAN]
  BY LeaseAssumptions DEF Unsampled, Attempt
<1>5. TypeOK'
  BY <1>1, <1>2, <1>3, <1>4, LeaseAssumptions DEF TypeOK, KernelOK
<1>6. /\ step'[c] = "idle" /\ doing'[c] = "nothing" /\ on'[c] = NoLease
      /\ subject'[c] = "root" /\ late'[c] = FALSE
  BY <1>1, <1>2 DEF TypeOK
<1>7. Aside(c)
  BY <1>1, <1>2 DEF Aside, TypeOK
<1>8. Frame(c)
  BY <1>1, <1>3, <1>7 DEF Frame, Unlocked
<1>9. Stands(c)' /\ Relies(c)'
  BY <1>6 DEF Stands, Relies, Issues
<1>10. \A l \in Leases : ~Holds(c, l)'
  BY <1>6 DEF Holds, HoldsLease, HoldsRoot
<1>11. Kept(Opener)' # {} => doing[c] # "open_bundle" /\ Kept(Opener)' = Kept(Opener)
  BY SameKeeps
<1>12. Own(c)
  BY <1>3, <1>5, <1>6, <1>9, <1>10, <1>11 DEF Own, KernelOK, Issues
<1>13. QED
  BY <1>8, <1>12, Assemble

LEMMA Kernel ==
  ASSUME Inv
  PROVE  KernelOK /\ TypeOK
BY DEF Inv, LeaseInv, TypeOK, KernelOK

(* Holders are told apart. *)
LEMMA Apart ==
  ASSUME NEW c \in Callers, NEW l \in Leases
  PROVE  c # l /\ c # Opener /\ l # Opener /\ {c, l, Opener} \subseteq Holders
BY LeaseAssumptions DEF Holders

LEMMA AbandonKeeps ==
  ASSUME Inv, NEW c \in Callers, Abandon(c)
  PROVE  Inv'
<1> DEFINE P == At(c) \cup IF doing[c] = "open_bundle" THEN At(Opener) ELSE {}
<1>1. P \in SUBSET Places /\ Drop(P) /\ Finish(c) /\ status' = status
  BY Apart DEF Abandon, At, Places, Holders
<1>2. \A h \in Holders \ {c, Opener}, s \in Slots : <<h, s>> \notin P
  BY DEF At
<1>3. doing[c] # "open_bundle" => \A s \in Slots : <<Opener, s>> \notin P
  BY LeaseAssumptions DEF At
<1>4. \A s \in Slots : <<c, s>> \in P /\ (doing[c] = "open_bundle" => <<Opener, s>> \in P)
  BY DEF At
<1>5. /\ KernelOK'
      /\ \A h \in Holders : Kept(h)' = {s \in Kept(h) : <<h, s>> \notin P}
      /\ \A h \in Holders : (\A s \in Slots : <<h, s>> \notin P) => Same(h)
  BY <1>1, Kernel, DropKeeps
<1>6. Kept(c)' = {} /\ (doing[c] = "open_bundle" => Kept(Opener)' = {})
  BY <1>4, <1>5 DEF Holders, Kept
<1>7. doing[c] # "open_bundle" => Same(Opener)
  BY <1>3, <1>5 DEF Holders
<1>8. \A h \in Holders \ {c, Opener} : Same(h)
  BY <1>2, <1>5
<1>9. /\ \A d \in Callers \ {c} : Same(d)
      /\ \A l \in Leases : Same(l) /\ Kept(l)' = Kept(l)
  BY <1>8, SameKeeps, LeaseAssumptions DEF Holders
<1>10. QED
  BY <1>1, <1>5, <1>6, <1>7, <1>9, FinishKeeps DEF Inv, LeaseInv, TypeOK

LEMMA IssueKeeps ==
  ASSUME Inv, NEW c \in Callers, doing[c] \in Issues, Kept(c) = Holdings(on[c]),
         doing[c] = "open_bundle" => Kept(Opener) = {}, Issue(c)
  PROVE  Inv'
<1>1. PICK l \in Leases : l = on[c]
  BY DEF Inv, LeaseInv, Stands, Issues, Leases
<1>2. status[l] = "none" /\ Kept(l) = {} /\ lock[l] = NoCaller
  BY <1>1 DEF Inv, LeaseInv, Relies
<1>3. /\ HandOver(c, l) /\ Finish(c)
      /\ status' = [status EXCEPT ![l] = "open"]
  BY <1>1 DEF Issue
<1>4. /\ KernelOK'
      /\ Kept(l)' = Kept(c) /\ Kept(c)' = {}
      /\ \A k \in Holders \ {l, c} : Same(k)
  BY <1>2, <1>3, Apart, Kernel, HandOverKeeps
<1>5. /\ \A d \in Callers \ {c} : Same(d)
      /\ Same(Opener)
      /\ \A k \in Leases \ {l} : Same(k) /\ Kept(k)' = Kept(k)
  BY <1>4, SameKeeps, Apart, LeaseAssumptions DEF Holders
<1>6. status' \in [Leases -> {"none", "open", "closed"}]
  BY <1>3, Kernel DEF TypeOK
<1>7. ASSUME NEW k \in Leases
      PROVE  /\ \/ status'[k] = status[k]
                \/ status[k] = "none" /\ k = on[c] /\ doing[c] \in Issues
             /\ lock[k] \notin {c, NoCaller} => Same(k) /\ status'[k] = status[k]
             /\ Kept(k)' = IF status'[k] = "open" THEN Holdings(k) ELSE {}
    BY <1>1, <1>2, <1>3, <1>4, <1>5, Kernel DEF TypeOK, Inv, LeaseInv
<1>8. IF doing[c] = "open_bundle" THEN Kept(Opener)' = {} ELSE Same(Opener)
  BY <1>5, SameKeeps
<1>9. QED
  BY <1>3, <1>4, <1>5, <1>6, <1>7, <1>8, FinishKeeps

LEMMA CloseKeeps ==
  ASSUME Inv, NEW c \in Callers, Close(c)
  PROVE  Inv'
<1>1. step[c] = "close" /\ doing[c] = "close" /\ Kept(c) = {}
  BY DEF Close, Inv, LeaseInv, Stands, Inspecting
<1>2. PICK l \in Leases : l = on[c]
  BY <1>1 DEF Inv, LeaseInv, Stands
<1>3. lock[l] = c
  BY <1>1, <1>2 DEF Inv, LeaseInv, Holds, HoldsLease
<1>4. status[l] = "open"
  BY <1>3, LeaseAssumptions DEF Inv, LeaseInv
<1>5. /\ Drop(At(l)) /\ Finish(c) /\ At(l) \in SUBSET Places
      /\ status' = [status EXCEPT ![l] = "closed"]
  BY <1>2, Apart DEF Close, At, Places
<1>6. /\ KernelOK'
      /\ \A h \in Holders : Kept(h)' = {s \in Kept(h) : <<h, s>> \notin At(l)}
      /\ \A h \in Holders : (\A s \in Slots : <<h, s>> \notin At(l)) => Same(h)
  BY <1>5, Kernel, DropKeeps
<1>7. Kept(l)' = {}
  BY <1>6, Apart DEF At, Kept
<1>8. \A h \in Holders \ {l} : Same(h)
  BY <1>6 DEF At
<1>9. /\ \A d \in Callers : Same(d) /\ Kept(d)' = Kept(d)
      /\ Same(Opener)
      /\ \A k \in Leases \ {l} : Same(k) /\ Kept(k)' = Kept(k)
  BY <1>8, SameKeeps, Apart DEF Holders
<1>10. status' \in [Leases -> {"none", "open", "closed"}]
  BY <1>5, Kernel DEF TypeOK
<1>11. ASSUME NEW k \in Leases
       PROVE  /\ \/ status'[k] = status[k]
                 \/ status[k] = "open" /\ status'[k] = "closed"
              /\ lock[k] \notin {c, NoCaller} => Same(k) /\ status'[k] = status[k]
              /\ Kept(k)' = IF status'[k] = "open" THEN Holdings(k) ELSE {}
  BY <1>3, <1>4, <1>5, <1>7, <1>9, Kernel DEF TypeOK, Inv, LeaseInv
<1>12. QED
  BY <1>1, <1>5, <1>6, <1>9, <1>10, <1>11, FinishKeeps

LEMMA ReleaseKeeps ==
  ASSUME Inv, NEW c \in Callers, Release(c)
  PROVE  Inv'
<1>1. doing[c] # "open_bundle"
  BY DEF Release, Inv, LeaseInv, Stands, Inspecting
<1>2. Abandon(c)
  BY <1>1 DEF Release, Abandon
<1>3. QED
  BY <1>2, AbandonKeeps

-----------------------------------------------------------------------------
(* Calls that go on *)

Locking(c) ==
  \A l \in Leases :
    /\ lock'[l] = lock[l] \/ {lock[l], lock'[l]} \subseteq {c, NoCaller}
    /\ Holds(c, l)' <=> lock'[l] = c
    /\ lock'[l] = c => status[l] = "open"

LEMMA OwnLocks ==
  ASSUME Inv, NEW c \in Callers, NEW l \in Leases
  PROVE  (Holds(c, l) <=> lock[l] = c) /\ (lock[l] = c => status[l] = "open")
BY LeaseAssumptions DEF Inv, LeaseInv

LEMMA GoesOn ==
  ASSUME Inv, NEW c \in Callers, KernelOK', TypeOK', UNCHANGED <<status, world>>, Aside(c),
         \A d \in Callers \ {c} : Same(d), \A l \in Leases : Same(l),
         doing[c] # "open_bundle" => Same(Opener),
         doing[c] = "open_bundle" => doing'[c] = "open_bundle",
         doing'[c] \in Issues =>
           \/ doing'[c] = doing[c] /\ on'[c] = on[c]
           \/ \A d \in Callers \ {c} : doing[d] \in Issues =>
                on[d] # on'[c] /\ ~(doing'[c] = "open_bundle" /\ doing[d] = "open_bundle"),
         Stands(c)', Relies(c)', Locking(c)
  PROVE  Inv'
<1>1. Frame(c)
  BY DEF Frame, Locking
<1>2. \A l \in Leases : Kept(l)' = IF status'[l] = "open" THEN Holdings(l) ELSE {}
  BY SameKeeps DEF Inv, LeaseInv
<1>3. Kept(Opener)' # {} =>
        doing'[c] = "open_bundle" \/ (doing[c] # "open_bundle" /\ Kept(Opener)' = Kept(Opener))
  BY SameKeeps
<1>4. Own(c)
  BY <1>2, <1>3 DEF Own, Locking, KernelOK
<1>5. QED
  BY <1>1, <1>4, Assemble

(* The same, where no descriptor is opened or closed. *)
LEMMA StaysStill ==
  ASSUME Inv, NEW c \in Callers, TypeOK', UNCHANGED <<kernelVars, status, world>>, Aside(c),
         doing[c] = "open_bundle" => doing'[c] = "open_bundle",
         doing'[c] \in Issues =>
           \/ doing'[c] = doing[c] /\ on'[c] = on[c]
           \/ \A d \in Callers \ {c} : doing[d] \in Issues =>
                on[d] # on'[c] /\ ~(doing'[c] = "open_bundle" /\ doing[d] = "open_bundle"),
         Stands(c)', Relies(c)', Locking(c)
  PROVE  Inv'
<1>1. \A h \in Holders : Same(h)
  BY UnchangedIsSame
<1>2. KernelOK'
  BY Kernel DEF KernelOK, DescriptorsHaveOneOwner, kernelVars, Free, MeantBy
<1>3. QED
  BY <1>1, <1>2, GoesOn, Apart DEF Holders

LEMMA BeginKeeps ==
  ASSUME Inv, NEW c \in Callers, NEW operation, NEW l \in Leases, NEW s, Begin(c, operation, l, s),
         \/ operation = "open_root" /\ l = Root /\ s = "open"
         \/ operation = "open_bundle" /\ l \in Bundles /\ s = "lock_root"
         \/ operation = "lend" /\ l \in Bundles /\ s = "lock_lease"
         \/ operation = "resolve" /\ l = Parent /\ s = "lock_root"
         \/ operation = "requalify" /\ l = Parent /\ s = "lock_lease"
         \/ operation = "close" /\ s = "lock_lease",
         operation \in Issues => Issuing(c, l)
  PROVE  Inv'
<1>1. /\ step[c] = "idle" /\ Kept(c) = {}
      /\ step' = [step EXCEPT ![c] = s] /\ doing' = [doing EXCEPT ![c] = operation]
      /\ on' = [on EXCEPT ![c] = l]
      /\ late' = [late EXCEPT ![c] =
           status[l] = "closed" \/ (operation # "requalify" /\ status[Root] = "closed")]
      /\ UNCHANGED <<kernelVars, leaseVars, world, left, subject, depth, sample>>
  BY DEF Begin, Go
<1>2. TypeOK /\ Stands(c) /\ Relies(c)
  BY DEF Inv, LeaseInv
<1>3. doing[c] = "nothing" /\ subject[c] = "root"
  BY <1>1, <1>2, LeaseAssumptions DEF Stands, Relies, Inspecting
<1>4. TypeOK'
  BY <1>1, <1>2 DEF TypeOK, kernelVars, leaseVars, Fallible
<1>5. /\ step'[c] = s /\ doing'[c] = operation /\ on'[c] = l /\ subject'[c] = "root"
      /\ late'[c] => status[l] = "closed" \/ (operation # "requalify" /\ status[Root] = "closed")
  BY <1>1, <1>2, <1>3 DEF TypeOK
<1>6. Aside(c)
  BY <1>1, <1>2 DEF Aside, TypeOK
<1>7. operation \in Issues =>
        /\ status[l] = "none"
        /\ \A d \in Callers \ {c} : doing[d] \in Issues =>
             on[d] # l /\ ~(operation = "open_bundle" /\ doing[d] = "open_bundle")
  <2>1. \A d \in Callers : doing[d] \in Issues => step[d] # "idle"
    BY DEF Inv, LeaseInv, Stands, Issues, Inspecting
  <2>2. QED
    BY <2>1, LeaseAssumptions DEF Issuing
<1>8. operation = "open_bundle" => Kept(Opener) = {}
  <2>1. \A d \in Callers : doing[d] = "open_bundle" => step[d] # "idle"
    BY DEF Inv, LeaseInv, Stands, Inspecting
  <2>2. QED
    BY <2>1 DEF Issuing, Issues, Inv, LeaseInv
<1>9. Kept(c)' = {} /\ Kept(Opener)' = Kept(Opener)
  BY <1>1, UnchangedIsSame, SameKeeps
<1>10. Stands(c)'
  BY <1>5, <1>8, <1>9 DEF Stands
<1>11. Relies(c)'
  BY <1>1, <1>5, <1>7, <1>9 DEF Relies, leaseVars, Issues
<1>12. Locking(c)
  <2>1. ASSUME NEW k \in Leases
        PROVE  ~Holds(c, k) /\ ~Holds(c, k)'
    BY <1>1, <1>3, <1>5 DEF Holds, HoldsLease, HoldsRoot, Inspecting
  <2>2. QED
    BY <2>1, <1>1, OwnLocks DEF Locking, leaseVars
<1>13. QED
  BY <1>1, <1>3, <1>4, <1>5, <1>6, <1>7, <1>10, <1>11, <1>12, StaysStill DEF leaseVars

LEMMA BeginsKeep ==
  ASSUME Inv, NEW c \in Callers, Starts(c)
  PROVE  Inv'
<1>1. CASE BeginOpenRoot(c)
  BY <1>1, BeginKeeps DEF BeginOpenRoot, Leases
<1>2. CASE BeginOpenBundle(c)
  BY <1>2, BeginKeeps DEF BeginOpenBundle, Leases
<1>3. CASE BeginLend(c)
  BY <1>3, BeginKeeps DEF BeginLend, Leases, Issues
<1>4. CASE BeginResolve(c)
  BY <1>4, BeginKeeps DEF BeginResolve, Leases
<1>5. CASE BeginRequalify(c)
  BY <1>5, BeginKeeps DEF BeginRequalify, Leases, Issues
<1>6. CASE BeginClose(c)
  BY <1>6, BeginKeeps DEF BeginClose, Issues
<1>7. CASE Release(c)
  BY <1>7, ReleaseKeeps
<1>8. QED
  BY <1>1, <1>2, <1>3, <1>4, <1>5, <1>6, <1>7 DEF Starts

LEMMA LockLeaseKeeps ==
  ASSUME Inv, NEW c \in Callers, LockLease(c)
  PROVE  Inv'
<1>1. TypeOK /\ Stands(c) /\ Relies(c) /\ step[c] = "lock_lease"
  BY DEF Inv, LeaseInv, LockLease
<1>2. /\ doing[c] \in {"lend", "requalify", "close"} /\ Kept(c) = {} /\ on[c] \in Leases
      /\ doing[c] = "lend" => on[c] \in Bundles
      /\ doing[c] = "requalify" => on[c] = Parent
  BY <1>1 DEF Stands, Inspecting, Leases
<1>3. PICK l \in Leases : l = on[c]
  BY <1>2
<1>4. CASE status[l] = "closed"
  <2>1. Finish(c) /\ UNCHANGED <<kernelVars, status>>
    BY <1>3, <1>4 DEF LockLease
  <2>2. \A h \in Holders : Same(h) /\ Kept(h)' = Kept(h)
    BY <2>1, UnchangedIsSame, SameKeeps
  <2>3. KernelOK'
    BY <2>1, Kernel DEF KernelOK, DescriptorsHaveOneOwner, kernelVars, Free, MeantBy
  <2>4. QED
    BY <1>2, <2>1, <2>2, <2>3, Kernel, Apart, FinishKeeps DEF TypeOK, Inv, LeaseInv, Holders
<1>5. CASE status[l] # "closed"
  <2>1. /\ status[l] = "open" /\ lock[l] = NoCaller
        /\ lock' = [lock EXCEPT ![l] = c]
        /\ step' = [step EXCEPT ![c] = Inside(doing[c])]
        /\ UNCHANGED <<kernelVars, status, world, doing, on, left, subject, depth, sample, late>>
    BY <1>3, <1>5 DEF LockLease, Go
  <2>2. Inside(doing[c]) \in {"lock_root", "retrace", "close"}
    BY <1>2 DEF Inside
  <2>3. TypeOK'
    BY <1>1, <2>1, <2>2 DEF TypeOK, kernelVars, Fallible
  <2>4. step'[c] = Inside(doing[c]) /\ \A k \in Leases : lock'[k] = IF k = l THEN c ELSE lock[k]
    BY <1>1, <2>1 DEF TypeOK
  <2>5. Aside(c)
    BY <1>1, <2>1 DEF Aside, TypeOK
  <2>6. Kept(c)' = {}
    BY <1>2, <2>1, UnchangedIsSame, SameKeeps
  <2>7. Stands(c)'
    BY <1>1, <1>2, <2>1, <2>4, <2>6 DEF Stands, Inside, Relies
  <2>8. Relies(c)'
    BY <1>1, <1>2, <1>3, <1>5, <2>1, <2>4, <2>6 DEF Relies, Inside, Issues
  <2>9. Locking(c)
    <3>1. ASSUME NEW k \in Leases
          PROVE  ~Holds(c, k) /\ (Holds(c, k)' <=> k = l)
      BY <1>1, <1>2, <1>3, <2>1, <2>4 DEF Holds, HoldsLease, HoldsRoot, Inspecting, Inside
    <3>2. QED
      BY <3>1, <2>1, <2>4, OwnLocks DEF Locking
  <2>10. QED
    BY <2>1, <2>3, <2>5, <2>7, <2>8, <2>9, StaysStill
<1>6. QED
  BY <1>4, <1>5

LEMMA LockRootKeeps ==
  ASSUME Inv, NEW c \in Callers, LockRoot(c)
  PROVE  Inv'
<1>1. TypeOK /\ Stands(c) /\ Relies(c) /\ step[c] = "lock_root" /\ lock[Root] = NoCaller
  BY DEF Inv, LeaseInv, LockRoot
<1>2. /\ doing[c] \in {"open_bundle", "lend", "resolve"} /\ subject[c] = "root"
      /\ doing[c] \in {"open_bundle", "lend"} => on[c] \in Bundles /\ Kept(c) = {}
      /\ doing[c] = "open_bundle" => Kept(Opener) = {}
      /\ doing[c] = "resolve" => on[c] = Parent /\ Kept(c) \subseteq {"current"}
  BY <1>1 DEF Stands, Relies, Inspecting
<1>3. CASE Abandon(c)
  BY <1>3, AbandonKeeps
<1>4. CASE ~Abandon(c)
  <2> DEFINE s == IF doing[c] = "resolve" THEN "duplicate_root" ELSE "sample"
  <2>1. /\ status[Root] = "open" /\ Root \in Leases
        /\ lock' = [lock EXCEPT ![Root] = c]
        /\ step' = [step EXCEPT ![c] = s]
        /\ UNCHANGED <<kernelVars, status, world, doing, on, left, subject, depth, sample, late>>
    BY <1>4 DEF LockRoot, Go, Leases
  <2>2. TypeOK'
    BY <1>1, <2>1 DEF TypeOK, kernelVars, Fallible
  <2>3. step'[c] = s /\ \A k \in Leases : lock'[k] = IF k = Root THEN c ELSE lock[k]
    BY <1>1, <2>1 DEF TypeOK
  <2>4. Aside(c)
    BY <1>1, <2>1 DEF Aside, TypeOK
  <2>5. Kept(c)' = Kept(c) /\ Kept(Opener)' = Kept(Opener)
    BY <2>1, UnchangedIsSame, SameKeeps
  <2>6. Stands(c)'
    BY <1>2, <2>1, <2>3, <2>5 DEF Stands, Inspecting
  <2>7. Relies(c)'
    BY <1>1, <1>2, <2>1, <2>3, <2>5 DEF Relies
  <2>8. Locking(c)
    <3>1. ASSUME NEW k \in Leases
          PROVE  /\ Holds(c, k) <=> doing[c] = "lend" /\ k = on[c]
                 /\ Holds(c, k)' <=> Holds(c, k) \/ k = Root
      BY <1>1, <1>2, <2>1, <2>3 DEF Holds, HoldsLease, HoldsRoot, Inspecting
    <3>2. QED
      BY <3>1, <1>1, <2>1, <2>3, OwnLocks DEF Locking
  <2>9. QED
    BY <2>1, <2>2, <2>4, <2>6, <2>7, <2>8, StaysStill
<1>5. QED
  BY <1>3, <1>4

-----------------------------------------------------------------------------
(* Inspections *)

SampleType == [before : 0..MaxChanges, namespace : 0..MaxChanges,
               mount : 0..MaxChanges, attempt : 1..AttemptLimit, whole : BOOLEAN]

LEMMA ReadKeeps ==
  ASSUME Inv, NEW c \in Callers, NEW from \in Inspecting, NEW to \in Inspecting,
         NEW r \in SampleType, Read(c, from, to, r),
         to \in {"mountinfo", "sample_again"} =>
           r.before <= Evidence(c) /\ r.namespace <= world["namespace"],
         to = "sample_again" =>
           r.whole \/ ~(r.before = Evidence(c) /\ r.namespace = world["namespace"]),
         to = "compare" => r.whole
  PROVE  Inv'
<1>1. TypeOK /\ Stands(c) /\ Relies(c)
  BY DEF Inv, LeaseInv
<1>2. /\ step[c] = from /\ step' = [step EXCEPT ![c] = to]
      /\ sample' = [sample EXCEPT ![c] = r]
      /\ UNCHANGED <<kernelVars, leaseVars, world, doing, on, left, subject, depth, late>>
  BY DEF Read, Go
<1>3. TypeOK'
  BY <1>1, <1>2 DEF TypeOK, SampleType, Inspecting, Fallible, kernelVars, leaseVars
<1>4. step'[c] = to /\ sample'[c] = r
  BY <1>1, <1>2 DEF TypeOK
<1>5. Aside(c)
  BY <1>1, <1>2 DEF Aside, TypeOK
<1>6. Kept(c)' = Kept(c) /\ Kept(Opener)' = Kept(Opener)
  BY <1>2, UnchangedIsSame, SameKeeps
<1>7. Stands(c)'
  BY <1>1, <1>2, <1>4, <1>6 DEF Stands, Inspecting
<1>8. Evidence(c)' = Evidence(c)
  BY <1>2 DEF Evidence, Inspected, kernelVars
<1>9. Relies(c)'
  BY <1>1, <1>2, <1>4, <1>6, <1>8 DEF Relies, Stable, Inspecting, leaseVars
<1>10. Locking(c)
  <2>1. ASSUME NEW k \in Leases
        PROVE  Holds(c, k)' <=> Holds(c, k)
    BY <1>2, <1>4 DEF Holds, HoldsLease, HoldsRoot, Inspecting
  <2>2. QED
    BY <2>1, <1>2, OwnLocks DEF Locking, leaseVars
<1>11. QED
  BY <1>2, <1>3, <1>5, <1>7, <1>9, <1>10, StaysStill DEF leaseVars

LEMMA SampleTypes ==
  ASSUME Inv, NEW c \in Callers, step[c] \in Inspecting
  PROVE  /\ sample[c] \in SampleType
         /\ Evidence(c) \in 0..MaxChanges
         /\ world["namespace"] \in 0..MaxChanges /\ world["mountinfo"] \in 0..MaxChanges
BY EvidenceIsTyped DEF SampleType, Inv, LeaseInv, TypeOK, Facts

LEMMA SampleKeeps ==
  ASSUME Inv, NEW c \in Callers, Sample(c)
  PROVE  Inv'
<1> DEFINE r == [sample[c] EXCEPT !.before = Evidence(c), !.namespace = world["namespace"]]
<1>1. step[c] = "sample" /\ Read(c, "sample", "mountinfo", r)
  BY DEF Sample, Read
<1>2. r \in SampleType /\ r.before = Evidence(c) /\ r.namespace = world["namespace"]
  BY <1>1, SampleTypes DEF SampleType, Inspecting
<1>3. r.before <= Evidence(c) /\ r.namespace <= world["namespace"]
  BY <1>1, <1>2, SampleTypes, LeaseAssumptions DEF Inspecting
<1>4. QED
  BY <1>1, <1>2, <1>3, ReadKeeps DEF Inspecting

LEMMA ReadMountInfoKeeps ==
  ASSUME Inv, NEW c \in Callers, ReadMountInfo(c)
  PROVE  Inv'
<1> DEFINE r == [sample[c] EXCEPT !.mount = world["mountinfo"], !.whole = Stable(c)]
<1>1. step[c] = "mountinfo" /\ Read(c, "mountinfo", "sample_again", r)
  BY DEF ReadMountInfo, Read
<1>2. Stable(c) \in BOOLEAN
  BY DEF Stable
<1>3. /\ r \in SampleType /\ r.before = sample[c].before /\ r.namespace = sample[c].namespace
      /\ r.whole = Stable(c)
  BY <1>1, <1>2, SampleTypes DEF SampleType, Inspecting
<1>4. r.before <= Evidence(c) /\ r.namespace <= world["namespace"]
  BY <1>1, <1>3 DEF Inv, LeaseInv, Relies
<1>5. r.whole \/ ~(r.before = Evidence(c) /\ r.namespace = world["namespace"])
  BY <1>3 DEF Stable
<1>6. QED
  BY <1>1, <1>3, <1>4, <1>5, ReadKeeps DEF Inspecting

LEMMA SampleAgainKeeps ==
  ASSUME Inv, NEW c \in Callers, SampleAgain(c)
  PROVE  Inv'
<1>1. step[c] = "sample_again" /\ Stable(c) /\ Read(c, "sample_again", "compare", sample[c])
  BY DEF SampleAgain
<1>2. sample[c].whole
  BY <1>1 DEF Inv, LeaseInv, Relies
<1>3. sample[c] \in SampleType
  BY <1>1, SampleTypes DEF Inspecting
<1>4. QED
  BY <1>1, <1>2, <1>3, ReadKeeps DEF Inspecting

LEMMA RetryKeeps ==
  ASSUME Inv, NEW c \in Callers, Retry(c)
  PROVE  Inv'
<1>1. CASE Abandon(c)
  BY <1>1, AbandonKeeps
<1>2. CASE ~Abandon(c)
  <2> DEFINE r == Attempt(sample[c].attempt + 1)
  <2>1. /\ step[c] = "sample_again" /\ sample[c].attempt < AttemptLimit
        /\ Read(c, "sample_again", "sample", r)
    BY <1>2 DEF Retry
  <2>2. r \in SampleType
    BY <2>1, SampleTypes, LeaseAssumptions DEF SampleType, Attempt, Inspecting
  <2>3. QED
    BY <2>1, <2>2, ReadKeeps DEF Inspecting
<1>3. QED
  BY <1>1, <1>2

LEMMA MismatchKeeps ==
  ASSUME Inv, NEW c \in Callers, Mismatch(c)
  PROVE  Inv'
BY AbandonKeeps DEF Mismatch

LEMMA IssueRootKeeps ==
  ASSUME Inv, NEW c \in Callers, IssueRoot(c)
  PROVE  Inv'
<1>1. step[c] = "compare" /\ doing[c] = "open_root" /\ Issue(c)
  BY DEF IssueRoot
<1>2. on[c] = Root /\ Kept(c) = {"root"}
  BY <1>1 DEF Inv, LeaseInv, Stands
<1>3. QED
  BY <1>1, <1>2, IssueKeeps DEF Holdings, Issues

LEMMA IssueBundleKeeps ==
  ASSUME Inv, NEW c \in Callers, IssueBundle(c)
  PROVE  Inv'
<1>1. step[c] = "compare" /\ doing[c] = "open_bundle" /\ subject[c] \in Roles /\ Issue(c)
  BY DEF IssueBundle
<1>2. on[c] \in Bundles /\ Kept(c) = RolesOf[on[c]] /\ Kept(Opener) = {}
  BY <1>1, LeaseAssumptions DEF Inv, LeaseInv, Stands, Inspecting
<1>3. Kept(c) = Holdings(on[c])
  BY <1>2, LeaseAssumptions DEF Holdings
<1>4. QED
  BY <1>1, <1>2, <1>3, IssueKeeps DEF Issues

LEMMA OpenAfterRootKeeps ==
  ASSUME Inv, NEW c \in Callers, OpenAfterRoot(c)
  PROVE  Inv'
<1>1. TypeOK /\ Stands(c) /\ Relies(c)
  BY DEF Inv, LeaseInv
<1>2. /\ step[c] = "compare" /\ doing[c] = "open_bundle" /\ subject[c] = "root"
      /\ lock' = [lock EXCEPT ![Root] = NoCaller] /\ step' = [step EXCEPT ![c] = "open"]
      /\ UNCHANGED <<kernelVars, status, world, doing, on, left, subject, depth, sample, late>>
  BY <1>1 DEF OpenAfterRoot, ReleaseRoot, Go
<1>3. on[c] \in Bundles /\ Kept(c) = {} /\ Kept(Opener) = {} /\ RolesOf[on[c]] # {}
  BY <1>1, <1>2, LeaseAssumptions DEF Stands
<1>4. TypeOK'
  BY <1>1, <1>2 DEF TypeOK, Fallible, kernelVars
<1>5. step'[c] = "open" /\ \A k \in Leases : lock'[k] = IF k = Root THEN NoCaller ELSE lock[k]
  BY <1>1, <1>2 DEF TypeOK
<1>6. Aside(c)
  BY <1>1, <1>2 DEF Aside, TypeOK
<1>7. Kept(c)' = {} /\ Kept(Opener)' = {}
  BY <1>2, <1>3, UnchangedIsSame, SameKeeps
<1>8. Stands(c)' /\ Relies(c)'
  BY <1>1, <1>2, <1>3, <1>5, <1>7 DEF Stands, Relies
<1>9. Locking(c)
  <2>1. ASSUME NEW k \in Leases
        PROVE  (Holds(c, k) <=> k = Root) /\ ~Holds(c, k)'
    BY <1>2, <1>5 DEF Holds, HoldsLease, HoldsRoot, Inspecting
  <2>2. QED
    BY <2>1, <1>5, OwnLocks, LeaseAssumptions DEF Locking
<1>10. QED
  BY <1>2, <1>4, <1>6, <1>8, <1>9, StaysStill

LEMMA LendAfterRootKeeps ==
  ASSUME Inv, NEW c \in Callers, LendAfterRoot(c)
  PROVE  Inv'
<1>1. TypeOK /\ Stands(c) /\ Relies(c)
  BY DEF Inv, LeaseInv
<1>2. PICK r \in RolesOf[on[c]] :
        /\ step' = [step EXCEPT ![c] = "sample"]
        /\ subject' = [subject EXCEPT ![c] = r]
        /\ left' = [left EXCEPT ![c] = RolesOf[on[c]] \ {r}]
        /\ sample' = [sample EXCEPT ![c] = Unsampled]
  BY DEF LendAfterRoot, InspectFirst, Go
<1>3. /\ step[c] = "compare" /\ doing[c] = "lend" /\ subject[c] = "root"
      /\ lock' = [lock EXCEPT ![Root] = NoCaller]
      /\ UNCHANGED <<kernelVars, status, world, doing, on, depth, late>>
  BY DEF LendAfterRoot, ReleaseRoot
<1>4. on[c] \in Bundles /\ Kept(c) = {} /\ RolesOf[on[c]] \subseteq Roles /\ on[c] # Root
  BY <1>1, <1>3, LeaseAssumptions DEF Stands, Inspecting
<1>5. TypeOK'
  <2>1. Unsampled \in SampleType
    BY LeaseAssumptions DEF SampleType, Unsampled, Attempt
  <2>2. r \in Roles /\ RolesOf[on[c]] \ {r} \in SUBSET Roles
    BY <1>4
  <2>3. lock' \in [Leases -> Callers \cup {NoCaller}]
    BY <1>1, <1>3 DEF TypeOK
  <2>4. QED
    BY <1>1, <1>2, <1>3, <2>1, <2>2, <2>3 DEF TypeOK, Fallible, kernelVars, SampleType
<1>6. /\ step'[c] = "sample" /\ subject'[c] = r /\ left'[c] \subseteq RolesOf[on[c]]
      /\ \A k \in Leases : lock'[k] = IF k = Root THEN NoCaller ELSE lock[k]
  BY <1>1, <1>2, <1>3 DEF TypeOK
<1>7. Aside(c)
  BY <1>1, <1>2, <1>3 DEF Aside, TypeOK
<1>8. Kept(c)' = {}
  BY <1>3, <1>4, UnchangedIsSame, SameKeeps
<1>9. Stands(c)' /\ Relies(c)'
  BY <1>1, <1>2, <1>3, <1>4, <1>6, <1>8 DEF Stands, Relies, Inspecting, Issues
<1>10. Locking(c)
  <2>1. ASSUME NEW k \in Leases
        PROVE  (Holds(c, k) <=> k \in {on[c], Root}) /\ (Holds(c, k)' <=> k = on[c])
    BY <1>3, <1>4, <1>6, LeaseAssumptions DEF Holds, HoldsLease, HoldsRoot, Inspecting
  <2>2. QED
    BY <2>1, <1>4, <1>6, OwnLocks, LeaseAssumptions DEF Locking
<1>11. QED
  BY <1>3, <1>5, <1>7, <1>9, <1>10, StaysStill

LEMMA InspectNextKeeps ==
  ASSUME Inv, NEW c \in Callers, InspectNext(c)
  PROVE  Inv'
<1>1. TypeOK /\ Stands(c) /\ Relies(c)
  BY DEF Inv, LeaseInv
<1>2. PICK r \in left[c] :
        /\ step' = [step EXCEPT ![c] = "sample"]
        /\ subject' = [subject EXCEPT ![c] = r]
        /\ left' = [left EXCEPT ![c] = left[c] \ {r}]
        /\ sample' = [sample EXCEPT ![c] = Unsampled]
  BY DEF InspectNext, InspectFirst, Go
<1>3. /\ step[c] = "compare" /\ subject[c] # "root"
      /\ UNCHANGED <<kernelVars, leaseVars, world, doing, on, depth, late>>
  BY LeaseAssumptions DEF InspectNext
<1>4. left[c] \subseteq Roles
  BY <1>1 DEF TypeOK
<1>5. TypeOK'
  BY <1>1, <1>2, <1>3, <1>4, LeaseAssumptions
     DEF TypeOK, Fallible, kernelVars, leaseVars, Unsampled, Attempt
<1>6. /\ step'[c] = "sample" /\ subject'[c] = r /\ left'[c] = left[c] \ {r}
      /\ r # "root"
  BY <1>1, <1>2, <1>4, LeaseAssumptions DEF TypeOK
<1>7. Aside(c)
  BY <1>1, <1>2, <1>3 DEF Aside, TypeOK
<1>8. Kept(c)' = Kept(c) /\ Kept(Opener)' = Kept(Opener)
  BY <1>3, UnchangedIsSame, SameKeeps
<1>9. Stands(c)' /\ Relies(c)'
  BY <1>1, <1>2, <1>3, <1>6, <1>8 DEF Stands, Relies, Inspecting, leaseVars
<1>10. Locking(c)
  <2>1. ASSUME NEW k \in Leases
        PROVE  Holds(c, k)' <=> Holds(c, k)
    BY <1>3, <1>6 DEF Holds, HoldsLease, HoldsRoot, Inspecting
  <2>2. QED
    BY <2>1, <1>3, OwnLocks DEF Locking, leaseVars
<1>11. QED
  BY <1>3, <1>5, <1>7, <1>9, <1>10, StaysStill DEF leaseVars

LEMMA LendInspectedKeeps ==
  ASSUME Inv, NEW c \in Callers, LendInspected(c)
  PROVE  Inv'
<1>1. TypeOK /\ Stands(c) /\ Relies(c)
  BY DEF Inv, LeaseInv
<1>2. /\ step[c] = "compare" /\ doing[c] = "lend" /\ subject[c] # "root"
      /\ step' = [step EXCEPT ![c] = "lend"]
      /\ UNCHANGED <<kernelVars, leaseVars, world, doing, on, subject, depth, sample, late>>
  BY LeaseAssumptions DEF LendInspected, Go
<1>3. PICK h \in Handoffs[on[c]] : left' = [left EXCEPT ![c] = h]
  BY DEF LendInspected
<1>4. on[c] \in Bundles /\ Kept(c) = {} /\ h \subseteq Roles
  BY <1>1, <1>2, LeaseAssumptions DEF Stands, Inspecting
<1>5. TypeOK'
  BY <1>1, <1>2, <1>3, <1>4 DEF TypeOK, Fallible, kernelVars, leaseVars
<1>6. step'[c] = "lend" /\ left'[c] = h
  BY <1>1, <1>2, <1>3 DEF TypeOK
<1>7. Aside(c)
  BY <1>1, <1>2, <1>3 DEF Aside, TypeOK
<1>8. Kept(c)' = {}
  BY <1>2, <1>4, UnchangedIsSame, SameKeeps
<1>9. Stands(c)' /\ Relies(c)'
  BY <1>1, <1>2, <1>4, <1>6, <1>8 DEF Stands, Relies, Inspecting, Issues
<1>10. Locking(c)
  <2>1. ASSUME NEW k \in Leases
        PROVE  Holds(c, k)' <=> Holds(c, k)
    BY <1>2, <1>6 DEF Holds, HoldsLease, HoldsRoot, Inspecting
  <2>2. QED
    BY <2>1, <1>2, OwnLocks DEF Locking, leaseVars
<1>11. QED
  BY <1>2, <1>5, <1>7, <1>9, <1>10, StaysStill DEF leaseVars

LEMMA InspectionsKeep ==
  ASSUME Inv, NEW c \in Callers, Inspections(c)
  PROVE  Inv'
BY SampleKeeps, ReadMountInfoKeeps, SampleAgainKeeps, RetryKeeps, MismatchKeeps,
   IssueRootKeeps, OpenAfterRootKeeps, LendAfterRootKeeps, InspectNextKeeps,
   IssueBundleKeeps, LendInspectedKeeps
   DEF Inspections

-----------------------------------------------------------------------------
(* Descriptors move *)

(* A call, or the opener of its bundle, keeps one more number. *)
LEMMA Takes ==
  ASSUME Inv, NEW c \in Callers, NEW h \in {c, Opener}, NEW s \in Slots, s \notin Kept(h),
         NEW d \in MeantBy(s), NEW from, Take(<<h, s>>, d, from)
  PROVE  /\ KernelOK'
         /\ Kept(h)' = Kept(h) \cup {s}
         /\ \A g \in Holders \ {h} : Same(g) /\ Kept(g)' = Kept(g)
<1>1. KernelOK /\ h \in Holders /\ number[<<h, s>>] = NoNumber
  BY Kernel DEF Holders, Kept
<1>2. QED
  BY <1>1, TakeKeeps, SameKeeps

(* What a duplicate is made of refers to what it is kept for. *)
LEMMA KeptRefers ==
  ASSUME Inv, NEW h \in Holders, NEW s \in Kept(h)
  PROVE  table[number[<<h, s>>]] \in MeantBy(s)
<1>1. <<h, s>> \in Places /\ number[<<h, s>>] # NoNumber
  BY DEF Places, Kept
<1>2. QED
  BY <1>1 DEF Inv, DescriptorsHaveOneOwner

LEMMA OpenRootKeeps ==
  ASSUME Inv, NEW c \in Callers, OpenRoot(c)
  PROVE  Inv'
<1>1. TypeOK /\ Stands(c) /\ Relies(c)
  BY DEF Inv, LeaseInv
<1>2. /\ step[c] = "open" /\ doing[c] = "open_root" /\ Take(<<c, "root">>, "root", 0)
      /\ step' = [step EXCEPT ![c] = "sample"]
      /\ UNCHANGED <<leaseVars, world, doing, on, left, subject, depth, sample, late>>
  BY DEF OpenRoot, Go
<1>3. on[c] = Root /\ Kept(c) = {} /\ subject[c] = "root"
  BY <1>1, <1>2 DEF Stands, Inspecting
<1>4. "root" \in Slots /\ "root" \in MeantBy("root") /\ c \in {c, Opener} /\ "root" \notin Kept(c)
  BY <1>3 DEF Slots, MeantBy
<1>5. /\ KernelOK'
      /\ Kept(c)' = Kept(c) \cup {"root"}
      /\ \A g \in Holders \ {c} : Same(g) /\ Kept(g)' = Kept(g)
  BY <1>2, <1>4, Takes
<1>6. TypeOK'
  BY <1>1, <1>2, <1>5 DEF TypeOK, KernelOK, Fallible, leaseVars
<1>7. step'[c] = "sample"
  BY <1>1, <1>2 DEF TypeOK
<1>8. Aside(c)
  BY <1>1, <1>2 DEF Aside, TypeOK
<1>9. Stands(c)' /\ Relies(c)'
  BY <1>1, <1>2, <1>3, <1>5, <1>7 DEF Stands, Relies, Inspecting, leaseVars
<1>10. Locking(c)
  <2>1. ASSUME NEW k \in Leases
        PROVE  ~Holds(c, k) /\ ~Holds(c, k)'
    BY <1>2, <1>7 DEF Holds, HoldsLease, HoldsRoot, Inspecting
  <2>2. QED
    BY <2>1, <1>2, OwnLocks DEF Locking, leaseVars
<1>11. QED
  BY <1>2, <1>5, <1>6, <1>8, <1>9, <1>10, GoesOn, Apart, LeaseAssumptions DEF Holders, leaseVars

LEMMA OpenRoleKeeps ==
  ASSUME Inv, NEW c \in Callers, OpenRole(c)
  PROVE  Inv'
<1>1. TypeOK /\ Stands(c) /\ Relies(c)
  BY DEF Inv, LeaseInv
<1>2. PICK r \in RolesOf[on[c]] \ Kept(Opener) :
        /\ r \in Roles
        /\ Take(<<Opener, r>>, r, 0)
        /\ step' = [step EXCEPT ![c] =
             IF Kept(Opener) \cup {r} = RolesOf[on[c]] THEN "normalize" ELSE "open"]
  BY DEF OpenRole, IsFirst, Go
<1>3. /\ step[c] = "open" /\ doing[c] = "open_bundle"
      /\ UNCHANGED <<leaseVars, world, doing, on, left, subject, depth, sample, late>>
  BY DEF OpenRole
<1>4. on[c] \in Bundles /\ Kept(c) = {} /\ Kept(Opener) \subseteq RolesOf[on[c]]
  BY <1>1, <1>3 DEF Stands, Inspecting
<1>5. r \in Slots /\ r \in MeantBy(r) /\ Opener \in {c, Opener}
  BY <1>2, LeaseAssumptions DEF Slots, MeantBy
<1>6. /\ KernelOK'
      /\ Kept(Opener)' = Kept(Opener) \cup {r}
      /\ \A g \in Holders \ {Opener} : Same(g) /\ Kept(g)' = Kept(g)
  BY <1>2, <1>5, Takes
<1>7. Kept(c)' = {}
  BY <1>4, <1>6, LeaseAssumptions DEF Holders
<1>8. TypeOK'
  BY <1>1, <1>2, <1>3, <1>6 DEF TypeOK, KernelOK, Fallible, leaseVars
<1>9. step'[c] = IF Kept(Opener) \cup {r} = RolesOf[on[c]] THEN "normalize" ELSE "open"
  BY <1>1, <1>2 DEF TypeOK
<1>10. Aside(c)
  BY <1>1, <1>2, <1>3 DEF Aside, TypeOK
<1>11. Stands(c)' /\ Relies(c)'
  BY <1>1, <1>2, <1>3, <1>4, <1>6, <1>7, <1>9 DEF Stands, Relies, leaseVars
<1>12. Locking(c)
  <2>1. ASSUME NEW k \in Leases
        PROVE  ~Holds(c, k) /\ ~Holds(c, k)'
    BY <1>3, <1>9 DEF Holds, HoldsLease, HoldsRoot, Inspecting
  <2>2. QED
    BY <2>1, <1>3, OwnLocks DEF Locking, leaseVars
<1>13. QED
  BY <1>3, <1>6, <1>8, <1>10, <1>11, <1>12, GoesOn, Apart, LeaseAssumptions DEF Holders, leaseVars

LEMMA NormalizeKeeps ==
  ASSUME Inv, NEW c \in Callers, Normalize(c)
  PROVE  Inv'
<1>1. TypeOK /\ Stands(c) /\ Relies(c)
  BY DEF Inv, LeaseInv
<1>2. PICK r \in Kept(Opener) :
        /\ Take(<<c, r>>, table[number[<<Opener, r>>]], Reserved)
        /\ subject' = [subject EXCEPT ![c] = r]
  BY DEF Normalize, Duplicate
<1>3. /\ step[c] = "normalize" /\ step' = [step EXCEPT ![c] = "release"]
      /\ UNCHANGED <<leaseVars, world, doing, on, left, depth, sample, late>>
  BY DEF Normalize, Go
<1>4. /\ doing[c] = "open_bundle" /\ on[c] \in Bundles
      /\ Kept(c) \cap Kept(Opener) = {} /\ Kept(c) \cup Kept(Opener) = RolesOf[on[c]]
  BY <1>1, <1>3 DEF Stands, Inspecting
<1>5. r \in Roles /\ r \in Slots /\ r \notin Kept(c) /\ c \in {c, Opener}
  BY <1>4, LeaseAssumptions DEF Slots
<1>6. table[number[<<Opener, r>>]] \in MeantBy(r)
  BY KeptRefers DEF Holders
<1>7. /\ KernelOK'
      /\ Kept(c)' = Kept(c) \cup {r}
      /\ \A g \in Holders \ {c} : Same(g) /\ Kept(g)' = Kept(g)
  BY <1>2, <1>5, <1>6, Takes
<1>8. Kept(Opener)' = Kept(Opener)
  BY <1>7, LeaseAssumptions DEF Holders
<1>9. TypeOK'
  BY <1>1, <1>2, <1>3, <1>5, <1>7 DEF TypeOK, KernelOK, Fallible, leaseVars
<1>10. step'[c] = "release" /\ subject'[c] = r
  BY <1>1, <1>2, <1>3 DEF TypeOK
<1>11. Aside(c)
  BY <1>1, <1>2, <1>3 DEF Aside, TypeOK
<1>12. Stands(c)' /\ Relies(c)'
  BY <1>1, <1>3, <1>4, <1>7, <1>8, <1>10 DEF Stands, Relies, leaseVars
<1>13. Locking(c)
  <2>1. ASSUME NEW k \in Leases
        PROVE  ~Holds(c, k) /\ ~Holds(c, k)'
    BY <1>3, <1>4, <1>10 DEF Holds, HoldsLease, HoldsRoot, Inspecting
  <2>2. QED
    BY <2>1, <1>3, OwnLocks DEF Locking, leaseVars
<1>14. QED
  BY <1>3, <1>4, <1>7, <1>9, <1>11, <1>12, <1>13, GoesOn, Apart DEF Holders, leaseVars

LEMMA ReleaseOriginalKeeps ==
  ASSUME Inv, NEW c \in Callers, ReleaseOriginal(c)
  PROVE  Inv'
<1>1. TypeOK /\ Stands(c) /\ Relies(c)
  BY DEF Inv, LeaseInv
<1>2. PICK r : r = subject[c]
  OBVIOUS
<1>3. /\ step[c] = "release" /\ Drop({<<Opener, r>>})
      /\ UNCHANGED <<leaseVars, world, doing, on, depth, late>>
  BY <1>2 DEF ReleaseOriginal
<1>4. /\ doing[c] = "open_bundle" /\ on[c] \in Bundles
      /\ Kept(c) \cap Kept(Opener) = {r} /\ Kept(c) \cup Kept(Opener) = RolesOf[on[c]]
      /\ RolesOf[on[c]] \subseteq Roles
  BY <1>1, <1>2, <1>3, LeaseAssumptions DEF Stands, Inspecting
<1>5. r \in Slots /\ <<Opener, r>> \in Places
  BY <1>4, LeaseAssumptions DEF Slots, Places, Holders
<1>6. /\ KernelOK'
      /\ Kept(Opener)' = Kept(Opener) \ {r}
      /\ \A g \in Holders \ {Opener} : Same(g) /\ Kept(g)' = Kept(g)
  <2> DEFINE P == {<<Opener, r>>}
  <2>1. P \in SUBSET Places /\ Drop(P)
    BY <1>3, <1>5
  <2>2. /\ KernelOK'
        /\ \A h \in Holders : Kept(h)' = {s \in Kept(h) : <<h, s>> \notin P}
        /\ \A h \in Holders : (\A s \in Slots : <<h, s>> \notin P) => Same(h)
    BY <2>1, Kernel, DropKeeps
  <2>3. Kept(Opener)' = Kept(Opener) \ {r}
    BY <2>2 DEF Holders
  <2>4. \A g \in Holders \ {Opener} : Same(g)
    BY <2>2
  <2>5. QED
    BY <2>2, <2>3, <2>4, SameKeeps
<1>7. Kept(c)' = Kept(c)
  BY <1>6, LeaseAssumptions DEF Holders
<1>8. CASE Kept(Opener) # {r}
  <2>1. step' = [step EXCEPT ![c] = "normalize"] /\ UNCHANGED <<left, subject, sample>>
    BY <1>2, <1>8 DEF ReleaseOriginal, Go
  <2>2. TypeOK'
    BY <1>1, <1>3, <1>6, <2>1 DEF TypeOK, KernelOK, Fallible, leaseVars
  <2>3. step'[c] = "normalize"
    BY <1>1, <2>1 DEF TypeOK
  <2>4. Aside(c)
    BY <1>1, <1>3, <2>1 DEF Aside, TypeOK
  <2>5. Stands(c)' /\ Relies(c)'
    BY <1>1, <1>3, <1>4, <1>6, <1>7, <1>8, <2>1, <2>3 DEF Stands, Relies, leaseVars
  <2>6. Locking(c)
    <3>1. ASSUME NEW k \in Leases
          PROVE  ~Holds(c, k) /\ ~Holds(c, k)'
      BY <1>3, <1>4, <2>3 DEF Holds, HoldsLease, HoldsRoot, Inspecting
    <3>2. QED
      BY <3>1, <1>3, OwnLocks DEF Locking, leaseVars
  <2>7. QED
    BY <1>3, <1>4, <1>6, <2>2, <2>4, <2>5, <2>6, GoesOn, Apart, LeaseAssumptions
       DEF Holders, leaseVars
<1>9. CASE Kept(Opener) = {r}
  <2>1. PICK q \in RolesOf[on[c]] :
          /\ step' = [step EXCEPT ![c] = "sample"]
          /\ subject' = [subject EXCEPT ![c] = q]
          /\ left' = [left EXCEPT ![c] = RolesOf[on[c]] \ {q}]
          /\ sample' = [sample EXCEPT ![c] = Unsampled]
    BY <1>2, <1>9 DEF ReleaseOriginal, InspectFirst, Go
  <2>2. TypeOK'
    <3>1. Unsampled \in SampleType
      BY LeaseAssumptions DEF SampleType, Unsampled, Attempt
    <3>2. q \in Roles /\ RolesOf[on[c]] \ {q} \in SUBSET Roles
      BY <1>4
    <3>3. QED
      BY <1>1, <1>3, <1>6, <2>1, <3>1, <3>2
         DEF TypeOK, KernelOK, Fallible, leaseVars, SampleType
  <2>3. step'[c] = "sample" /\ subject'[c] = q /\ left'[c] \subseteq RolesOf[on[c]] /\ q # "root"
    BY <1>1, <1>4, <2>1, LeaseAssumptions DEF TypeOK
  <2>4. Aside(c)
    BY <1>1, <1>3, <2>1 DEF Aside, TypeOK
  <2>5. Stands(c)' /\ Relies(c)'
    <3>1. doing'[c] = doing[c] /\ on'[c] = on[c] /\ status' = status /\ ~late'[c]
      BY <1>1, <1>3 DEF leaseVars, Relies
    <3>2. Kept(c)' = RolesOf[on[c]] /\ Kept(Opener)' = {}
      BY <1>4, <1>6, <1>7, <1>9
    <3>3. Stands(c)'
      BY <1>1, <1>4, <2>3, <3>1, <3>2 DEF Stands, Inspecting
    <3>4. Relies(c)'
      BY <1>1, <2>3, <3>1 DEF Relies
    <3>5. QED
      BY <3>3, <3>4
  <2>6. Locking(c)
    <3>1. ASSUME NEW k \in Leases
          PROVE  ~Holds(c, k) /\ ~Holds(c, k)'
      BY <1>3, <1>4, <2>3 DEF Holds, HoldsLease, HoldsRoot, Inspecting
    <3>2. QED
      BY <3>1, <1>3, OwnLocks DEF Locking, leaseVars
  <2>7. QED
    BY <1>3, <1>4, <1>6, <2>2, <2>4, <2>5, <2>6, GoesOn, Apart, LeaseAssumptions
       DEF Holders, leaseVars
<1>10. QED
  BY <1>8, <1>9

LEMMA LendKeeps ==
  ASSUME Inv, NEW c \in Callers, Lend(c)
  PROVE  Inv'
<1>1. TypeOK /\ Stands(c) /\ Relies(c)
  BY DEF Inv, LeaseInv
<1>2. PICK l : l = on[c]
  OBVIOUS
<1>3. PICK r \in left[c] :
        /\ Take(<<c, r>>, table[number[<<l, r>>]], Reserved)
        /\ left' = [left EXCEPT ![c] = left[c] \ {r}]
  BY <1>2 DEF Lend, Duplicate
<1>4. /\ step[c] = "lend"
      /\ UNCHANGED <<leaseVars, world, step, doing, on, subject, depth, sample, late>>
  BY DEF Lend
<1>5. /\ doing[c] = "lend" /\ l \in Bundles
      /\ Kept(c) \cap left[c] = {} /\ Kept(c) \cup left[c] \in Handoffs[l]
      /\ left[c] \subseteq RolesOf[l] /\ left[c] \subseteq Roles
  BY <1>1, <1>2, <1>4, LeaseAssumptions DEF Stands, Inspecting
<1>6. l \in Leases /\ Kept(l) = RolesOf[l]
  <2>1. l \in Leases /\ Holds(c, l)
    BY <1>2, <1>4, <1>5 DEF Leases, Holds, HoldsLease
  <2>2. QED
    BY <1>5, <2>1, OwnLocks, LeaseAssumptions DEF Inv, LeaseInv, Holdings
<1>7. r \in Slots /\ r \notin Kept(c) /\ c \in {c, Opener}
  BY <1>5 DEF Slots
<1>8. table[number[<<l, r>>]] \in MeantBy(r)
  BY <1>5, <1>6, KeptRefers DEF Holders
<1>9. /\ KernelOK'
      /\ Kept(c)' = Kept(c) \cup {r}
      /\ \A g \in Holders \ {c} : Same(g) /\ Kept(g)' = Kept(g)
  BY <1>3, <1>7, <1>8, Takes
<1>10. TypeOK'
  BY <1>1, <1>3, <1>4, <1>9 DEF TypeOK, KernelOK, leaseVars
<1>11. left'[c] = left[c] \ {r}
  BY <1>1, <1>3 DEF TypeOK
<1>12. Aside(c)
  BY <1>1, <1>3, <1>4 DEF Aside, TypeOK
<1>13. Stands(c)' /\ Relies(c)'
  <2>1. /\ (Kept(c) \cup {r}) \cap (left[c] \ {r}) = {}
        /\ (Kept(c) \cup {r}) \cup (left[c] \ {r}) = Kept(c) \cup left[c]
    BY <1>5
  <2>2. QED
    BY <1>1, <1>2, <1>4, <1>5, <1>9, <1>11, <2>1 DEF Stands, Relies, Issues, leaseVars
<1>14. Locking(c)
  <2>1. ASSUME NEW k \in Leases
        PROVE  Holds(c, k)' <=> Holds(c, k)
    BY <1>4 DEF Holds, HoldsLease, HoldsRoot
  <2>2. QED
    BY <2>1, <1>4, OwnLocks DEF Locking, leaseVars
<1>15. QED
  BY <1>4, <1>5, <1>9, <1>10, <1>12, <1>13, <1>14, GoesOn, Apart, LeaseAssumptions
     DEF Holders, leaseVars

(* A call returns with what it was lent. *)
LEMMA ReturnKeeps ==
  ASSUME Inv, NEW c \in Callers, ReturnLent(c),
         \/ doing[c] = "lend" /\ on[c] \in Bundles /\ Kept(c) \in Handoffs[on[c]]
         \/ doing[c] = "requalify" /\ on[c] = Parent /\ Kept(c) = {"current"},
         late[c] = FALSE
  PROVE  Inv'
<1>1. TypeOK
  BY DEF Inv, LeaseInv
<1>2. /\ step' = [step EXCEPT ![c] = "idle"] /\ left' = [left EXCEPT ![c] = {}]
      /\ subject' = [subject EXCEPT ![c] = "root"] /\ depth' = [depth EXCEPT ![c] = 0]
      /\ sample' = [sample EXCEPT ![c] = Unsampled] /\ lock' = Unlocked(c)
      /\ UNCHANGED <<kernelVars, status, world, doing, on, late>>
  BY DEF ReturnLent, Return, Go
<1>3. \A k \in Leases : lock'[k] = IF lock[k] = c THEN NoCaller ELSE lock[k]
  BY <1>2 DEF Unlocked
<1>4. TypeOK'
  <2>1. Unsampled \in SampleType
    BY LeaseAssumptions DEF SampleType, Unsampled, Attempt
  <2>2. lock' \in [Leases -> Callers \cup {NoCaller}]
    BY <1>1, <1>2 DEF Unlocked, TypeOK
  <2>3. QED
    BY <1>1, <1>2, <2>1, <2>2, LeaseAssumptions DEF TypeOK, SampleType, kernelVars
<1>5. step'[c] = "idle" /\ subject'[c] = "root"
  BY <1>1, <1>2 DEF TypeOK
<1>6. Aside(c)
  BY <1>1, <1>2 DEF Aside, TypeOK
<1>7. Kept(c)' = Kept(c)
  BY <1>2, UnchangedIsSame, SameKeeps
<1>8. Stands(c)' /\ Relies(c)'
  BY <1>2, <1>5, <1>7 DEF Stands, Relies, Issues
<1>9. Locking(c)
  <2>1. ASSUME NEW k \in Leases
        PROVE  ~Holds(c, k)'
    BY <1>5 DEF Holds, HoldsLease, HoldsRoot, Inspecting
  <2>2. QED
    BY <2>1, <1>3, LeaseAssumptions DEF Locking
<1>10. QED
  BY <1>2, <1>4, <1>6, <1>8, <1>9, StaysStill

LEMMA LentKeeps ==
  ASSUME Inv, NEW c \in Callers, Lent(c)
  PROVE  Inv'
<1>1. step[c] = "lend" /\ left[c] = {} /\ ReturnLent(c)
  BY DEF Lent
<1>2. Stands(c) /\ Relies(c) /\ late[c] \in BOOLEAN
  BY DEF Inv, LeaseInv, TypeOK
<1>3. /\ doing[c] = "lend" /\ on[c] \in Bundles
      /\ Kept(c) \cup left[c] \in Handoffs[on[c]]
  BY <1>1, <1>2 DEF Stands, Inspecting
<1>4. Kept(c) \cup left[c] = Kept(c) /\ late[c] = FALSE
  BY <1>1, <1>2 DEF Relies
<1>5. QED
  BY <1>1, <1>3, <1>4, ReturnKeeps

LEMMA RetracedKeeps ==
  ASSUME Inv, NEW c \in Callers, Retraced(c)
  PROVE  Inv'
<1>1. step[c] = "walk" /\ doing[c] = "requalify" /\ ReturnLent(c)
  BY DEF Retraced
<1>2. Stands(c) /\ Relies(c) /\ late[c] \in BOOLEAN
  BY DEF Inv, LeaseInv, TypeOK
<1>3. on[c] = Parent /\ Kept(c) = {"current"}
  BY <1>1, <1>2 DEF Stands
<1>4. late[c] = FALSE
  BY <1>1, <1>2 DEF Relies
<1>5. QED
  BY <1>1, <1>3, <1>4, ReturnKeeps

LEMMA DuplicateRootKeeps ==
  ASSUME Inv, NEW c \in Callers, DuplicateRoot(c)
  PROVE  Inv'
<1>1. TypeOK /\ Stands(c) /\ Relies(c)
  BY DEF Inv, LeaseInv
<1> DEFINE first == number[<<c, "current">>] = NoNumber
           s == IF first THEN "current" ELSE "retained"
           to == IF first THEN "lock_root" ELSE "walk"
<1>2. /\ step[c] = "duplicate_root" /\ Take(<<c, s>>, table[number[<<Root, "root">>]], Reserved)
      /\ step' = [step EXCEPT ![c] = to] /\ lock' = [lock EXCEPT ![Root] = NoCaller]
      /\ UNCHANGED <<status, world, doing, on, left, subject, depth, sample, late>>
  BY DEF DuplicateRoot, Duplicate, Go
<1>3. /\ doing[c] = "resolve" /\ on[c] = Parent /\ Kept(c) \subseteq {"current"}
      /\ late[c] = FALSE
  BY <1>1, <1>2 DEF Stands, Relies, Inspecting, TypeOK
<1>4. s \in Slots /\ s \notin Kept(c) /\ c \in {c, Opener}
      /\ (first <=> Kept(c) = {}) /\ (~first <=> Kept(c) = {"current"})
  BY <1>3 DEF Slots, Kept
<1>5. Root \in Leases /\ Root \in Holders /\ Kept(Root) = {"root"}
  <2>1. Root \in Leases /\ Holds(c, Root)
    BY <1>2 DEF Leases, Holds, HoldsRoot
  <2>2. QED
    BY <2>1, OwnLocks DEF Inv, LeaseInv, Holdings, Holders
<1>6. table[number[<<Root, "root">>]] \in MeantBy(s)
  <2>1. table[number[<<Root, "root">>]] \in MeantBy("root")
    BY <1>5, KeptRefers
  <2>2. QED
    BY <2>1 DEF MeantBy
<1>7. /\ KernelOK'
      /\ Kept(c)' = Kept(c) \cup {s}
      /\ \A g \in Holders \ {c} : Same(g) /\ Kept(g)' = Kept(g)
  BY <1>2, <1>4, <1>6, Takes
<1>8. TypeOK'
  BY <1>1, <1>2, <1>7 DEF TypeOK, KernelOK, Fallible
<1>9. step'[c] = to /\ \A k \in Leases : lock'[k] = IF k = Root THEN NoCaller ELSE lock[k]
  BY <1>1, <1>2 DEF TypeOK
<1>10. Aside(c)
  BY <1>1, <1>2 DEF Aside, TypeOK
<1>11. Kept(c)' = IF first THEN {"current"} ELSE {"current", "retained"}
  BY <1>4, <1>7
<1>12. Stands(c)'
  BY <1>2, <1>3, <1>9, <1>11 DEF Stands
<1>13. Relies(c)'
  BY <1>1, <1>2, <1>3, <1>9 DEF Relies
<1>14. Locking(c)
  <2>1. ASSUME NEW k \in Leases
        PROVE  (Holds(c, k) <=> k = Root) /\ ~Holds(c, k)'
    BY <1>2, <1>3, <1>9 DEF Holds, HoldsLease, HoldsRoot, Inspecting
  <2>2. QED
    BY <2>1, <1>9, OwnLocks, LeaseAssumptions DEF Locking
<1>15. QED
  BY <1>2, <1>3, <1>7, <1>8, <1>10, <1>12, <1>13, <1>14, GoesOn, Apart, LeaseAssumptions
     DEF Holders

LEMMA RetraceKeeps ==
  ASSUME Inv, NEW c \in Callers, Retrace(c)
  PROVE  Inv'
<1>1. TypeOK /\ Stands(c) /\ Relies(c)
  BY DEF Inv, LeaseInv
<1>2. /\ step[c] = "retrace" /\ step' = [step EXCEPT ![c] = "walk"]
      /\ Take(<<c, "current">>, table[number[<<Parent, "retained">>]], Reserved)
      /\ UNCHANGED <<leaseVars, world, doing, on, left, subject, depth, sample, late>>
  BY DEF Retrace, Duplicate, Go
<1>3. doing[c] = "requalify" /\ on[c] = Parent /\ Kept(c) = {} /\ late[c] = FALSE
  BY <1>1, <1>2 DEF Stands, Relies, Inspecting, TypeOK
<1>4. "current" \in Slots /\ "current" \notin Kept(c) /\ c \in {c, Opener}
  BY <1>3 DEF Slots
<1>5. Parent \in Leases /\ Parent \in Holders /\ "retained" \in Kept(Parent)
  <2>1. Parent \in Leases /\ Holds(c, Parent)
    BY <1>2, <1>3 DEF Leases, Holds, HoldsLease
  <2>2. QED
    BY <2>1, OwnLocks, LeaseAssumptions DEF Inv, LeaseInv, Holdings, Holders
<1>6. table[number[<<Parent, "retained">>]] \in MeantBy("current")
  <2>1. table[number[<<Parent, "retained">>]] \in MeantBy("retained")
    BY <1>5, KeptRefers
  <2>2. QED
    BY <2>1 DEF MeantBy
<1>7. /\ KernelOK'
      /\ Kept(c)' = Kept(c) \cup {"current"}
      /\ \A g \in Holders \ {c} : Same(g) /\ Kept(g)' = Kept(g)
  BY <1>2, <1>4, <1>6, Takes
<1>8. TypeOK'
  BY <1>1, <1>2, <1>7 DEF TypeOK, KernelOK, Fallible, leaseVars
<1>9. step'[c] = "walk"
  BY <1>1, <1>2 DEF TypeOK
<1>10. Aside(c)
  BY <1>1, <1>2 DEF Aside, TypeOK
<1>11. Stands(c)' /\ Relies(c)'
  BY <1>2, <1>3, <1>7, <1>9 DEF Stands, Relies, Issues
<1>12. Locking(c)
  <2>1. ASSUME NEW k \in Leases
        PROVE  Holds(c, k)' <=> Holds(c, k)
    BY <1>2, <1>3, <1>9 DEF Holds, HoldsLease, HoldsRoot, Inspecting
  <2>2. QED
    BY <2>1, <1>2, OwnLocks DEF Locking, leaseVars
<1>13. QED
  BY <1>2, <1>3, <1>7, <1>8, <1>10, <1>11, <1>12, GoesOn, Apart, LeaseAssumptions
     DEF Holders, leaseVars

LEMMA WalkOnKeeps ==
  ASSUME Inv, NEW c \in Callers, WalkOn(c)
  PROVE  Inv'
<1>1. TypeOK /\ Stands(c) /\ Relies(c)
  BY DEF Inv, LeaseInv
<1>2. /\ step[c] = "walk" /\ step' = [step EXCEPT ![c] = "advance"]
      /\ depth[c] < Depth /\ depth' = [depth EXCEPT ![c] = depth[c] + 1]
      /\ Take(<<c, "next">>, "below", 0)
      /\ UNCHANGED <<leaseVars, world, doing, on, left, subject, sample, late>>
  BY DEF WalkOn, Go
<1>3. /\ \/ doing[c] = "resolve" /\ Kept(c) = {"current", "retained"}
         \/ doing[c] = "requalify" /\ Kept(c) = {"current"}
      /\ on[c] = Parent
  BY <1>1, <1>2 DEF Stands, Inspecting
<1>4. "next" \in Slots /\ "next" \notin Kept(c) /\ c \in {c, Opener} /\ "below" \in MeantBy("next")
  BY <1>3 DEF Slots, MeantBy
<1>5. /\ KernelOK'
      /\ Kept(c)' = Kept(c) \cup {"next"}
      /\ \A g \in Holders \ {c} : Same(g) /\ Kept(g)' = Kept(g)
  BY <1>2, <1>4, Takes
<1>6. TypeOK'
  <2>1. depth[c] + 1 \in 0..Depth
    BY <1>1, <1>2, LeaseAssumptions DEF TypeOK
  <2>2. QED
    BY <1>1, <1>2, <1>5, <2>1 DEF TypeOK, KernelOK, Fallible, leaseVars
<1>7. step'[c] = "advance"
  BY <1>1, <1>2 DEF TypeOK
<1>8. Aside(c)
  BY <1>1, <1>2 DEF Aside, TypeOK
<1>9. Stands(c)' /\ Relies(c)'
  BY <1>1, <1>2, <1>3, <1>5, <1>7 DEF Stands, Relies, leaseVars
<1>10. Locking(c)
  <2>1. ASSUME NEW k \in Leases
        PROVE  Holds(c, k)' <=> Holds(c, k)
    BY <1>2, <1>3, <1>7 DEF Holds, HoldsLease, HoldsRoot, Inspecting
  <2>2. QED
    BY <2>1, <1>2, OwnLocks DEF Locking, leaseVars
<1>11. QED
  BY <1>2, <1>3, <1>5, <1>6, <1>8, <1>9, <1>10, GoesOn, Apart, LeaseAssumptions
     DEF Holders, leaseVars

LEMMA AdvanceKeeps ==
  ASSUME Inv, NEW c \in Callers, Advance(c)
  PROVE  Inv'
<1>1. TypeOK /\ Stands(c) /\ Relies(c)
  BY DEF Inv, LeaseInv
<1>2. /\ step[c] = "advance" /\ step' = [step EXCEPT ![c] = "walk"] /\ Forward(c)
      /\ UNCHANGED <<leaseVars, world, doing, on, left, subject, depth, sample, late>>
  BY DEF Advance, Forward, Go
<1>3. /\ \/ doing[c] = "resolve" /\ Kept(c) = {"current", "next", "retained"}
         \/ doing[c] = "requalify" /\ Kept(c) = {"current", "next"}
      /\ on[c] = Parent
  BY <1>1, <1>2 DEF Stands, Inspecting
<1>4. "current" \in Kept(c) /\ "next" \in Kept(c) /\ c \in Holders
  BY <1>3 DEF Holders
<1>5. /\ KernelOK'
      /\ Kept(c)' = Kept(c) \ {"next"}
      /\ \A g \in Holders \ {c} : Same(g)
  BY <1>2, <1>4, Kernel, ForwardKeeps
<1>6. TypeOK'
  BY <1>1, <1>2, <1>5 DEF TypeOK, KernelOK, Fallible, leaseVars
<1>7. step'[c] = "walk"
  BY <1>1, <1>2 DEF TypeOK
<1>8. Aside(c)
  BY <1>1, <1>2 DEF Aside, TypeOK
<1>9. \/ doing[c] = "resolve" /\ Kept(c)' = {"current", "retained"}
      \/ doing[c] = "requalify" /\ Kept(c)' = {"current"}
  BY <1>3, <1>5
<1>10. Stands(c)' /\ Relies(c)'
  BY <1>1, <1>2, <1>3, <1>7, <1>9 DEF Stands, Relies, leaseVars
<1>11. Locking(c)
  <2>1. ASSUME NEW k \in Leases
        PROVE  Holds(c, k)' <=> Holds(c, k)
    BY <1>2, <1>3, <1>7 DEF Holds, HoldsLease, HoldsRoot, Inspecting
  <2>2. QED
    BY <2>1, <1>2, OwnLocks DEF Locking, leaseVars
<1>12. QED
  BY <1>2, <1>3, <1>5, <1>6, <1>8, <1>10, <1>11, GoesOn, Apart, LeaseAssumptions
     DEF Holders, leaseVars

LEMMA ResolvedKeeps ==
  ASSUME Inv, NEW c \in Callers, Resolved(c)
  PROVE  Inv'
<1>1. step[c] = "walk" /\ doing[c] = "resolve" /\ Issue(c) /\ Stands(c)
  BY DEF Resolved, Inv, LeaseInv
<1>2. on[c] = Parent /\ Kept(c) = {"current", "retained"}
  BY <1>1 DEF Stands
<1>3. QED
  BY <1>1, <1>2, IssueKeeps, LeaseAssumptions DEF Holdings, Issues

LEMMA TransfersKeep ==
  ASSUME Inv, NEW c \in Callers, Transfers(c)
  PROVE  Inv'
<1>1. CASE Fail(c)
  BY <1>1, AbandonKeeps DEF Fail
<1>2. CASE ~Fail(c)
  BY <1>2, OpenRootKeeps, OpenRoleKeeps, NormalizeKeeps, ReleaseOriginalKeeps, LendKeeps,
     LentKeeps, DuplicateRootKeeps, RetraceKeeps, WalkOnKeeps, AdvanceKeeps, ResolvedKeeps,
     RetracedKeeps, CloseKeeps
     DEF Transfers
<1>3. QED
  BY <1>1, <1>2

-----------------------------------------------------------------------------
(* Other processes, and the theorems *)

(* A fact only grows, so that a read that is out of date stays out of date. *)
LEMMA ChangeKeeps ==
  ASSUME Inv, Change
  PROVE  Inv'
<1>1. PICK f \in Unstable : world[f] < MaxChanges /\ world' = [world EXCEPT ![f] = @ + 1]
  BY DEF Change
<1>2. UNCHANGED <<kernelVars, leaseVars, callVars>>
  BY DEF Change
<1>3. f \in Facts /\ TypeOK
  BY LeaseAssumptions DEF Facts, Inv, LeaseInv
<1>4. \A g \in Facts : world[g] \in Nat /\ world'[g] \in Nat /\ world[g] <= world'[g]
  BY <1>1, <1>3, LeaseAssumptions DEF TypeOK
<1>5. TypeOK'
  <2>1. world' \in [Facts -> 0..MaxChanges]
    BY <1>1, <1>3, LeaseAssumptions DEF TypeOK
  <2>2. QED
    BY <1>2, <1>3, <2>1 DEF TypeOK, kernelVars, leaseVars, callVars
<1>6. \A h : Kept(h)' = Kept(h)
  BY <1>2 DEF Kept, kernelVars
<1>7. ASSUME NEW c \in Callers
      PROVE  Relies(c)'
  <2>1. Relies(c) /\ sample[c] \in SampleType
    BY <1>3 DEF Inv, LeaseInv, TypeOK, SampleType
  <2>2. CASE step[c] \in {"mountinfo", "sample_again"}
    <3>1. PICK g \in Facts : /\ Evidence(c) = world[g]
                             /\ Evidence(c)' = world'[g]
      <4>1. PICK h \in Holders, s \in Slots : Inspected(c) = <<h, s>> /\ s \in Kept(h)
        BY <2>2, InspectsKept DEF Inspecting
      <4>2. table[number[<<h, s>>]] \in Facts
        BY <4>1, KeptRefers, Meanings DEF Directories, Facts
      <4>3. Inspected(c)' = Inspected(c)
        BY <1>2 DEF Inspected, callVars
      <4>4. QED
        BY <4>1, <4>2, <4>3, <1>2 DEF Evidence, kernelVars
    <3>2. "namespace" \in Facts
      BY DEF Facts
    <3>3. /\ sample[c].before \in Nat /\ sample[c].namespace \in Nat
          /\ sample[c].before <= Evidence(c) /\ sample[c].namespace <= world["namespace"]
      BY <2>1, <2>2 DEF Relies, SampleType
    <3>4. /\ sample[c].before <= Evidence(c)' /\ sample[c].namespace <= world'["namespace"]
          /\ ~Stable(c) => ~Stable(c)'
      BY <1>2, <1>4, <3>1, <3>2, <3>3 DEF Stable, callVars
    <3>5. QED
      BY <2>1, <2>2, <3>4, <1>2, <1>6 DEF Relies, callVars, leaseVars
  <2>3. CASE step[c] \notin {"mountinfo", "sample_again"}
    BY <2>1, <2>3, <1>2, <1>6 DEF Relies, callVars, leaseVars
  <2>4. QED
    BY <2>2, <2>3
<1>8. ASSUME NEW c \in Callers
      PROVE  /\ \A l \in Leases : Holds(c, l)' <=> Holds(c, l)
             /\ Stands(c)' /\ \A d \in Callers : Alone(c, d)'
  <2>1. \A l \in Leases : Holds(c, l)' <=> Holds(c, l)
    BY <1>2 DEF Holds, HoldsLease, HoldsRoot, callVars
  <2>2. Stands(c)'
    <3>1. Stands(c) /\ Kept(c)' = Kept(c) /\ Kept(Opener)' = Kept(Opener)
      BY <1>6 DEF Inv, LeaseInv
    <3>2. QED
      BY <3>1, <1>2 DEF Stands, callVars
  <2>3. \A d \in Callers : Alone(c, d)'
    BY <1>2 DEF Alone, Inv, LeaseInv, callVars
  <2>4. QED
    BY <2>1, <2>2, <2>3
<1>9. DescriptorsHaveOneOwner'
  BY <1>2 DEF Inv, DescriptorsHaveOneOwner, kernelVars, Free, MeantBy
<1>10. ASSUME NEW l \in Leases
       PROVE  /\ Kept(l)' = IF status'[l] = "open" THEN Holdings(l) ELSE {}
              /\ lock'[l] # NoCaller => status'[l] = "open" /\ Holds(lock[l], l)'
  BY <1>2, <1>3, <1>6, <1>8 DEF Inv, LeaseInv, TypeOK, leaseVars
<1>11. Kept(Opener)' # {} => \E c \in Callers : doing'[c] = "open_bundle"
  BY <1>2, <1>6 DEF Inv, LeaseInv, callVars
<1>12. QED
  BY <1>2, <1>5, <1>7, <1>8, <1>9, <1>10, <1>11 DEF Inv, LeaseInv, leaseVars

LEMMA InitInv == Init => Inv
<1>1. SUFFICES ASSUME Init
               PROVE  Inv
  OBVIOUS
<1>2. TypeOK
  <2>1. Unsampled \in SampleType
    BY LeaseAssumptions DEF SampleType, Unsampled, Attempt
  <2>2. QED
    BY <1>1, <2>1, LeaseAssumptions
       DEF Init, TypeOK, SampleType, Directories, Facts
<1>3. \A h \in Holders : Kept(h) = {}
  BY <1>1 DEF Init, Kept, Places
<1>4. DescriptorsHaveOneOwner
  <2>1. \A p \in Places : number[p] = NoNumber
    BY <1>1 DEF Init
  <2>2. \A n \in Numbers : table[n] \in {"free", "foreign"}
    BY <1>1 DEF Init
  <2>3. QED
    BY <2>1, <2>2 DEF DescriptorsHaveOneOwner, Free
<1>5. ASSUME NEW c \in Callers
      PROVE  /\ step[c] = "idle" /\ doing[c] = "nothing" /\ on[c] = NoLease
             /\ subject[c] = "root" /\ late[c] = FALSE /\ Kept(c) = {}
  BY <1>1, <1>3 DEF Init, Holders
<1>6. ASSUME NEW c \in Callers
      PROVE  Stands(c) /\ Relies(c) /\ (\A l \in Leases : ~Holds(c, l)) /\ \A d \in Callers : Alone(c, d)
  BY <1>5 DEF Stands, Relies, Issues, Holds, HoldsLease, HoldsRoot, Inspecting, Alone
<1>7. \A l \in Leases : status[l] = "none" /\ lock[l] = NoCaller /\ Kept(l) = {}
  BY <1>1, <1>3 DEF Init, Holders
<1>8. QED
  BY <1>2, <1>3, <1>4, <1>6, <1>7 DEF Inv, LeaseInv, Holders

LEMMA NextInv == Inv /\ [Next]_vars => Inv'
<1>1. ASSUME Inv, Next
      PROVE  Inv'
  BY <1>1, BeginsKeep, LockLeaseKeeps, LockRootKeeps, InspectionsKeep, TransfersKeep, ChangeKeeps
     DEF Next, Locks
<1>2. ASSUME Inv, UNCHANGED vars
      PROVE  Inv'
  <2>1. \A h : Kept(h)' = Kept(h)
    BY <1>2 DEF Kept, vars
  <2>2. TypeOK' /\ DescriptorsHaveOneOwner'
    BY <1>2 DEF vars, Inv, LeaseInv, TypeOK, DescriptorsHaveOneOwner, Free, MeantBy
  <2>3. ASSUME NEW c \in Callers
        PROVE  /\ \A l \in Leases : Holds(c, l)' <=> Holds(c, l)
               /\ Stands(c)' <=> Stands(c)
               /\ Relies(c)' <=> Relies(c)
               /\ \A d \in Callers : Alone(c, d)' <=> Alone(c, d)
    <3>1. Kept(c)' = Kept(c) /\ Kept(Opener)' = Kept(Opener)
      BY <2>1
    <3>2. Stands(c)' <=> Stands(c)
      BY <3>1, <1>2 DEF vars, Stands
    <3>3. Relies(c)' <=> Relies(c)
      BY <3>1, <1>2 DEF vars, Relies, Evidence, Inspected, Stable
    <3>4. QED
      BY <3>2, <3>3, <1>2 DEF vars, Holds, HoldsLease, HoldsRoot, Alone
  <2>4. QED
    BY <1>2, <2>1, <2>2, <2>3 DEF vars, Inv, LeaseInv, TypeOK
<1>3. QED
  BY <1>1, <1>2

LEMMA Invariant == Spec => []Inv
BY InitInv, NextInv, PTL DEF Spec

(* Wherever they are and whatever else runs, calls keep what an error path *)
(* of theirs closes, hold the mutexes they unlock, and leases keep their   *)
(* descriptors exactly while they are open.                                *)
THEOREM LeaseInvariant == Spec => []LeaseInv
<1>1. Inv => LeaseInv
  BY DEF Inv
<1>2. QED
  BY <1>1, Invariant, PTL

(* No descriptor is closed twice, used once closed, or leaked, for any     *)
(* number of goroutines, leases, roles and descriptors.                    *)
THEOREM OneOwner == Spec => []DescriptorsHaveOneOwner
<1>1. Inv => DescriptorsHaveOneOwner
  BY DEF Inv
<1>2. QED
  BY <1>1, Invariant, PTL

(* A handoff is lent whole or not at all.                                  *)
THEOREM LendingIsWhole == Spec => []LentIsWhole
<1>1. Inv => LentIsWhole
  <2> SUFFICES ASSUME Inv, NEW c \in Callers, step[c] = "idle"
               PROVE  \/ Kept(c) = {}
                      \/ doing[c] = "lend" /\ Kept(c) \in Handoffs[on[c]]
                      \/ doing[c] = "requalify" /\ Kept(c) = {"current"}
    BY DEF LentIsWhole
  <2>1. Stands(c)
    BY DEF Inv, LeaseInv
  <2>2. QED
    BY <2>1 DEF Stands, Inspecting
<1>2. QED
  BY <1>1, Invariant, PTL

(* A call that began after the lease it needs was closed gets nothing.     *)
THEOREM ClosedLendNothing == Spec => []ClosedLeasesLendNothing
<1>1. Inv => ClosedLeasesLendNothing
  BY DEF ClosedLeasesLendNothing, Inv, LeaseInv, Relies
<1>2. QED
  BY <1>1, Invariant, PTL

(* An inspection that is compared with what was registered describes one   *)
(* moment, however often the namespace, the mounts and the modes change.   *)
THEOREM InspectionIsASnapshot == Spec => []EvidenceIsASnapshot
<1>1. Inv => EvidenceIsASnapshot
  BY DEF EvidenceIsASnapshot, Inv, LeaseInv, Relies
<1>2. QED
  BY <1>1, Invariant, PTL
=============================================================================
