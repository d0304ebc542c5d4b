----------------------- MODULE HeldDirectoriesProofs -----------------------
(***************************************************************************)
(* HeldInv is an invariant of HeldDirectories, and what the run checks of  *)
(* the probes for a source and for a Trash entry, of the qualification of  *)
(* a layout and of a restoration follows from it: for a planned path and a *)
(* Trash of any number of directories, wherever they may be moved, as long *)
(* as no more changes are made during a call than it bears.                *)
(***************************************************************************)
EXTENDS HeldInvariant, TLAPS, SequenceTheorems

-----------------------------------------------------------------------------
(* What is left of a call, as a sequence. *)

LEMMA LayoutIsOfDirectories ==
  /\ TrashLayout \in Seq(Directories)
  /\ Len(TrashLayout) \in Nat
  /\ InTrash = {TrashLayout[i] : i \in 1..Len(TrashLayout)}
<1>1. TrashLayout \in Seq(DOMAIN Planned) /\ DOMAIN Planned = OnPath \cup InTrash
  BY LayoutAssumptions
<1>2. DOMAIN Planned \subseteq Directories
  BY <1>1 DEF Directories
<1>3. QED
  BY <1>1, <1>2, SeqMonotonic, LenProperties DEF InTrash

LEMMA StepsAreSteps ==
  ASSUME NEW v \in Verbs, NEW x \in Directories \cup Entries \cup Verdicts \cup {Root}
  PROVE  <<v, x>> \in AnyStep
BY DEF AnyStep

LEMMA EachMeans ==
  ASSUME NEW v \in Verbs, NEW ds \in Seq(Directories)
  PROVE  /\ Each(v, ds) \in Seq(AnyStep)
         /\ Len(Each(v, ds)) = Len(ds)
         /\ \A i \in 1..Len(ds) : Each(v, ds)[i] = <<v, ds[i]>>
<1>1. Len(ds) \in Nat /\ \A i \in 1..Len(ds) : ds[i] \in Directories
  BY ElementOfSeq, LenProperties
<1>2. \A i \in 1..Len(ds) : <<v, ds[i]>> \in AnyStep
  BY <1>1, StepsAreSteps
<1>3. [i \in 1..Len(ds) |-> <<v, ds[i]>>] \in Seq(AnyStep)
  BY <1>1, <1>2
<1>4. Len([i \in 1..Len(ds) |-> <<v, ds[i]>>]) = Len(ds)
  BY <1>1
<1>5. QED
  BY <1>3, <1>4 DEF Each

LEMMA FirstMeans ==
  ASSUME NEW S, NEW x \in S, NEW rest \in Seq(S)
  PROVE  /\ <<x>> \in Seq(S) /\ <<x>> \o rest \in Seq(S)
         /\ <<x>> # <<>> /\ <<x>> \o rest # <<>>
         /\ Head(<<x>>) = x /\ Head(<<x>> \o rest) = x
         /\ Tail(<<x>>) = <<>> /\ Tail(<<x>> \o rest) = rest
<1>1. <<x>> \in Seq(S) /\ Len(<<x>>) = 1 /\ <<x>>[1] = x /\ Head(<<x>>) = x
  OBVIOUS
<1>2. /\ <<x>> \o rest \in Seq(S) /\ Len(<<x>> \o rest) = 1 + Len(rest)
      /\ \A i \in 1 .. 1 + Len(rest) : (<<x>> \o rest)[i] = IF i <= 1 THEN x ELSE rest[i - 1]
  BY <1>1, ConcatProperties
<1>3. Len(rest) \in Nat
  BY LenProperties
<1>4. <<x>> \o rest # <<>> /\ Head(<<x>> \o rest) = x
  BY <1>2, <1>3
<1>5. /\ Tail(<<x>> \o rest) \in Seq(S) /\ Len(Tail(<<x>> \o rest)) = Len(rest)
      /\ \A i \in 1 .. Len(rest) : Tail(<<x>> \o rest)[i] = (<<x>> \o rest)[i + 1]
  BY <1>2, <1>3, <1>4, HeadTailProperties
<1>6. \A i \in 1 .. Len(rest) : Tail(<<x>> \o rest)[i] = rest[i]
  BY <1>2, <1>3, <1>5
<1>7. Tail(<<x>> \o rest) = rest
  BY <1>5, <1>6, SeqEqual
<1>8. Tail(<<x>>) = <<>>
  BY <1>1, HeadTailProperties, EmptySeq
<1>9. QED
  BY <1>1, <1>2, <1>4, <1>7, <1>8

LEMMA OneMeans ==
  ASSUME NEW v \in Verbs, NEW x \in Directories \cup Entries \cup Verdicts \cup {Root},
         NEW rest \in Seq(AnyStep)
  PROVE  /\ One(v, x) \in Seq(AnyStep) /\ One(v, x) \o rest \in Seq(AnyStep)
         /\ One(v, x) # <<>> /\ One(v, x) \o rest # <<>>
         /\ Head(One(v, x)) = <<v, x>> /\ Head(One(v, x) \o rest) = <<v, x>>
         /\ Tail(One(v, x)) = <<>> /\ Tail(One(v, x) \o rest) = rest
BY FirstMeans, StepsAreSteps DEF One

LEMMA TopologyMeans ==
  /\ Topology \in Seq(AnyStep)
  /\ Len(Topology) = Len(TrashLayout) + Len(TrashLayout)
  /\ \A i \in 1..Len(TrashLayout) :
       /\ Topology[i] = <<"private", TrashLayout[i]>>
       /\ Topology[Len(TrashLayout) + i] = <<"child", TrashLayout[i]>>
<1> PICK ps, cs : ps = Each("private", TrashLayout) /\ cs = Each("child", TrashLayout)
  OBVIOUS
<1>1. TrashLayout \in Seq(Directories) /\ Len(TrashLayout) \in Nat
  BY LayoutIsOfDirectories
<1>2. /\ ps \in Seq(AnyStep) /\ Len(ps) = Len(TrashLayout)
      /\ \A i \in 1..Len(TrashLayout) : ps[i] = <<"private", TrashLayout[i]>>
  BY <1>1, EachMeans DEF Verbs
<1>3. /\ cs \in Seq(AnyStep) /\ Len(cs) = Len(TrashLayout)
      /\ \A i \in 1..Len(TrashLayout) : cs[i] = <<"child", TrashLayout[i]>>
  BY <1>1, EachMeans DEF Verbs
<1>4. Topology = ps \o cs
  BY DEF Topology
<1>5. /\ Topology \in Seq(AnyStep) /\ Len(Topology) = Len(ps) + Len(cs)
      /\ \A i \in 1 .. Len(ps) + Len(cs) :
           Topology[i] = IF i <= Len(ps) THEN ps[i] ELSE cs[i - Len(ps)]
  BY <1>2, <1>3, <1>4, ConcatProperties
<1>6. PICK n \in Nat : n = Len(TrashLayout) /\ n = Len(ps) /\ n = Len(cs)
  BY <1>1, <1>2, <1>3
<1>7. ASSUME NEW i \in 1..n
      PROVE  Topology[i] = <<"private", TrashLayout[i]>>
  <2>1. i \in 1 .. n + n /\ i <= n
    OBVIOUS
  <2>2. Topology[i] = ps[i]
    BY <1>5, <1>6, <2>1
  <2>3. QED
    BY <1>2, <1>6, <2>2
<1>8. ASSUME NEW i \in 1..n
      PROVE  Topology[n + i] = <<"child", TrashLayout[i]>>
  <2>1. n + i \in 1 .. n + n /\ ~(n + i <= n) /\ (n + i) - n = i
    OBVIOUS
  <2>2. Topology[n + i] = cs[i]
    BY <1>5, <1>6, <2>1
  <2>3. QED
    BY <1>3, <1>6, <2>2
<1>9. QED
  BY <1>5, <1>6, <1>7, <1>8

LEMMA TopologyVerbs ==
  ASSUME NEW i \in Places, i # Len(Topology)
  PROVE  \E v, x : Topology[i + 1] = <<v, x>> /\ v \in {"private", "child"}
<1> PICK n \in Nat : n = Len(TrashLayout) /\ Len(Topology) = n + n
  BY TopologyMeans, LayoutIsOfDirectories
<1>1. i \in Nat /\ i < n + n
  BY DEF Places
<1>2. CASE i < n
  <2>1. i + 1 \in 1..n
    BY <1>1, <1>2
  <2>2. QED
    BY <2>1, TopologyMeans
<1>3. CASE i >= n
  <2>1. (i + 1) - n \in 1..n /\ i + 1 = n + ((i + 1) - n)
    BY <1>1, <1>3
  <2>2. QED
    BY <2>1, TopologyMeans
<1>4. QED
  BY <1>1, <1>2, <1>3

LEMMA LeftMeans ==
  /\ Left(0) = Topology
  /\ Left(Len(Topology)) = <<>>
  /\ \A i \in Places : Left(i) \in Seq(AnyStep)
  /\ \A i \in Places \ {Len(Topology)} :
       Left(i) # <<>> /\ Head(Left(i)) = Topology[i + 1] /\ Tail(Left(i)) = Left(i + 1)
<1>1. Topology \in Seq(AnyStep) /\ Len(Topology) \in Nat
  BY TopologyMeans, LenProperties
<1>2. Left(0) = Topology
  BY <1>1, SubSeqFull DEF Left
<1>3. Left(Len(Topology)) = <<>>
  BY <1>1, SubSeqEmpty DEF Left
<1>4. ASSUME NEW i \in Places PROVE Left(i) \in Seq(AnyStep)
  BY <1>1, SubSeqProperties, ElementOfSeq DEF Left, Places
<1>5. ASSUME NEW i \in Places \ {Len(Topology)}
      PROVE  Left(i) # <<>> /\ Head(Left(i)) = Topology[i + 1] /\ Tail(Left(i)) = Left(i + 1)
  <2>1. i + 1 \in 1 .. Len(Topology) /\ Len(Topology) \in i + 1 .. Len(Topology)
    BY <1>1 DEF Places
  <2>2. Head(Left(i)) = Topology[i + 1] /\ Tail(Left(i)) = Left(i + 1)
    BY <1>1, <2>1, HeadTailOfSubSeq DEF Left
  <2>3. Len(Left(i)) # 0
    BY <1>1, <2>1 DEF Left
  <2>4. QED
    BY <2>2, <2>3
<1>6. QED
  BY <1>2, <1>3, <1>4, <1>5

LEMMA JoinedToFirst ==
  ASSUME NEW S, NEW s \in Seq(S), NEW rest \in Seq(S), s # <<>>
  PROVE  s \o rest # <<>> /\ Head(s \o rest) = Head(s) /\ Tail(s \o rest) = Tail(s) \o rest
<1>1. /\ s \o rest \in Seq(S)
      /\ Len(s \o rest) = Len(s) + Len(rest)
      /\ \A j \in 1 .. Len(s) + Len(rest) :
           (s \o rest)[j] = IF j <= Len(s) THEN s[j] ELSE rest[j - Len(s)]
  BY ConcatProperties
<1>2. Len(s) \in Nat \ {0} /\ Len(rest) \in Nat
  BY EmptySeq, LenProperties
<1>3. s \o rest # <<>> /\ Head(s \o rest) = Head(s)
  BY <1>1, <1>2
<1>4. /\ Tail(s) \in Seq(S) /\ Len(Tail(s)) = Len(s) - 1
      /\ \A j \in 1 .. Len(Tail(s)) : Tail(s)[j] = s[j + 1]
  BY HeadTailProperties
<1>5. /\ Tail(s \o rest) \in Seq(S) /\ Len(Tail(s \o rest)) = Len(s) + Len(rest) - 1
      /\ \A j \in 1 .. Len(Tail(s \o rest)) : Tail(s \o rest)[j] = (s \o rest)[j + 1]
  BY <1>1, <1>3, HeadTailProperties
<1>6. /\ Tail(s) \o rest \in Seq(S)
      /\ Len(Tail(s) \o rest) = Len(Tail(s)) + Len(rest)
      /\ \A j \in 1 .. Len(Tail(s)) + Len(rest) :
           (Tail(s) \o rest)[j]
             = IF j <= Len(Tail(s)) THEN Tail(s)[j] ELSE rest[j - Len(Tail(s))]
  BY <1>4, ConcatProperties
<1>7. \A j \in 1 .. Len(Tail(s \o rest)) : Tail(s \o rest)[j] = (Tail(s) \o rest)[j]
  BY <1>1, <1>2, <1>4, <1>5, <1>6
<1>8. Tail(s \o rest) = Tail(s) \o rest
  BY <1>2, <1>4, <1>5, <1>6, <1>7, SeqEqual
<1>9. QED
  BY <1>3, <1>8

LEMMA InspectionMeans ==
  ASSUME NEW i \in Places, NEW rest \in Seq(AnyStep)
  PROVE  /\ i = Len(Topology) => Left(i) \o rest = rest
         /\ i # Len(Topology) => /\ Left(i) \o rest # <<>>
                                 /\ Head(Left(i) \o rest) = Topology[i + 1]
                                 /\ Tail(Left(i) \o rest) = Left(i + 1) \o rest
<1>1. i = Len(Topology) => Left(i) \o rest = rest
  BY LeftMeans, ConcatEmptySeq
<1>2. ASSUME i # Len(Topology)
      PROVE  /\ Left(i) \o rest # <<>>
             /\ Head(Left(i) \o rest) = Topology[i + 1]
             /\ Tail(Left(i) \o rest) = Left(i + 1) \o rest
  <2>1. /\ Left(i) \in Seq(AnyStep) /\ Left(i) # <<>>
        /\ Head(Left(i)) = Topology[i + 1] /\ Tail(Left(i)) = Left(i + 1)
    BY <1>2, LeftMeans
  <2>2. /\ Left(i) \o rest # <<>> /\ Head(Left(i) \o rest) = Head(Left(i))
        /\ Tail(Left(i) \o rest) = Tail(Left(i)) \o rest
    BY <2>1, JoinedToFirst
  <2>3. QED
    BY <2>1, <2>2
<1>3. QED
  BY <1>1, <1>2

-----------------------------------------------------------------------------
(* What an inspection knows. *)

OnTrash == op \in Operations \ {"probe_source"}

LEMMA ClaimMeans ==
  ASSUME OnTrash, NEW r \in Verdicts
  PROVE  Claim(op, r) <=> TrashInPlace /\ Said(r)
<1>1. CASE op = "qualify"
  BY <1>1 DEF Claim, Said
<1>2. CASE op = "probe_record"
  BY <1>2 DEF Claim, Said
<1>3. CASE op = "probe_content"
  BY <1>3 DEF Claim, Said
<1>4. CASE op = "restore"
  BY <1>4 DEF Claim, Said
<1>5. QED
  BY <1>1, <1>2, <1>3, <1>4 DEF OnTrash, Operations

LEMMA TrueIsSeen ==
  ASSUME OnTrash, Holding \subseteq seen, NEW r \in Verdicts, TrashInPlace, Said(r)
  PROVE  r \in seen
<1>1. r \in Holding
  BY ClaimMeans DEF Holding
<1>2. QED
  BY <1>1

LEMMA LookedMeans ==
  /\ Looked(0) = {}
  /\ Looked(Len(Topology)) = InTrash
  /\ \A i \in Places : Looked(i) \subseteq InTrash
  /\ \A i \in Places : i < Len(TrashLayout) => Looked(i + 1) = {}
  /\ \A i \in Places \ {Len(Topology)} :
       i >= Len(TrashLayout) =>
         /\ Looked(i + 1) \subseteq Looked(i) \cup {TrashLayout[(i + 1) - Len(TrashLayout)]}
         /\ Topology[i + 1] = <<"child", TrashLayout[(i + 1) - Len(TrashLayout)]>>
<1> PICK n \in Nat : n = Len(TrashLayout) /\ Len(Topology) = n + n
  BY LayoutIsOfDirectories, TopologyMeans
<1>1. Looked(0) = {}
  BY DEF Looked
<1>2. Looked(Len(Topology)) = InTrash
  BY LayoutIsOfDirectories DEF Looked
<1>3. \A i \in Places : Looked(i) \subseteq InTrash
  BY LayoutIsOfDirectories DEF Looked, Places
<1>4. \A i \in Places : i < n => Looked(i + 1) = {}
  BY DEF Looked, Places
<1>5. ASSUME NEW i \in Places \ {Len(Topology)}, i >= n
      PROVE  /\ Looked(i + 1) \subseteq Looked(i) \cup {TrashLayout[(i + 1) - n]}
             /\ Topology[i + 1] = <<"child", TrashLayout[(i + 1) - n]>>
  <2>1. \A j \in 1 .. (i + 1) - n : j \in 1 .. i - n \/ j = (i + 1) - n
    BY DEF Places
  <2>2. Looked(i + 1) \subseteq Looked(i) \cup {TrashLayout[(i + 1) - n]}
    <3>1. Looked(i) = {TrashLayout[j] : j \in 1 .. i - n}
      BY DEF Looked
    <3>2. Looked(i + 1) = {TrashLayout[j] : j \in 1 .. (i + 1) - n}
      BY DEF Looked
    <3>3. QED
      BY <2>1, <3>1, <3>2
  <2>3. (i + 1) - n \in 1..n /\ i + 1 = n + ((i + 1) - n)
    BY <1>5 DEF Places
  <2>4. Topology[i + 1] = <<"child", TrashLayout[(i + 1) - n]>>
    BY <2>3, TopologyMeans
  <2>5. QED
    BY <2>2, <2>4
<1>6. QED
  BY <1>1, <1>2, <1>3, <1>4, <1>5

LEMMA InspectionStarts ==
  ASSUME NEW r, NEW known \in BOOLEAN, NEW base \in Nat, changes \in Nat,
         changes >= base, known => Said(r)
  PROVE  Inspecting(r, known, base, 0)
BY LookedMeans DEF Inspecting, Undisturbed

(* The last child compared: all of the Trash was in its place at a moment. *)
LEMMA InspectionEnds ==
  ASSUME OnTrash, Holding \subseteq seen, NEW r \in Verdicts, NEW known \in BOOLEAN,
         NEW base \in Nat, changes \in Nat,
         Inspecting(r, known, base, Len(Topology)), known \/ Said(r)
  PROVE  r \in seen \/ changes >= base + 2
<1>1. Looked(Len(Topology)) = InTrash
  BY LookedMeans
<1>2. (\A d \in InTrash : Sound(d)) => TrashInPlace
  BY DEF Sound, TrashInPlace
<1>3. TrashInPlace /\ Said(r) => r \in seen
  BY TrueIsSeen
<1>4. CASE Undisturbed(r, known, Len(Topology))
  BY <1>1, <1>2, <1>3, <1>4 DEF Undisturbed
<1>5. CASE Disturbed(r, known, Len(Topology))
  BY <1>1, <1>2, <1>3, <1>5 DEF Disturbed
<1>6. QED
  BY <1>4, <1>5 DEF Inspecting

NamesStay == UNCHANGED <<place, loose, entry, op, changes>> /\ seen \subseteq seen'

LEMMA InspectionStays ==
  ASSUME NamesStay, NEW r, NEW known \in BOOLEAN, NEW base \in Nat, NEW i,
         Inspecting(r, known, base, i)
  PROVE  Inspecting(r, known, base, i)'
<1>1. /\ Said(r)' <=> Said(r)
      /\ \A d : Sound(d)' <=> Sound(d)
      /\ TrashInPlace' <=> TrashInPlace
      /\ r \in seen => r \in seen'
      /\ changes' = changes
  BY DEF NamesStay, Said, Sound, TrashInPlace
<1>2. Undisturbed(r, known, i) => Undisturbed(r, known, i)'
  BY <1>1 DEF Undisturbed
<1>3. Disturbed(r, known, i) => Disturbed(r, known, i)'
  BY <1>1 DEF Disturbed
<1>4. QED
  BY <1>1, <1>2, <1>3 DEF Inspecting

(* The next step of an inspection: a descriptor, or a literal child. *)
LEMMA InspectionAdvances ==
  ASSUME NEW r, NEW known \in BOOLEAN, NEW base \in Nat,
         NEW i \in Places \ {Len(Topology)},
         Inspecting(r, known, base, i),
         \A d \in InTrash : Topology[i + 1] = <<"child", d>> => Sound(d)
  PROVE  Inspecting(r, known, base, i + 1)
<1>1. PICK x \in InTrash : \/ Sound(x) /\ Looked(i + 1) \subseteq Looked(i) \cup {x}
                        \/ Looked(i + 1) = {}
  <2>1. i \in Nat /\ Len(TrashLayout) \in Nat /\ Len(Topology) = Len(TrashLayout) + Len(TrashLayout)
    BY LayoutIsOfDirectories, TopologyMeans DEF Places
  <2>2. CASE i < Len(TrashLayout)
    <3>1. Looked(i + 1) = {}
      BY <2>2, LookedMeans
    <3>2. TrashLayout[1] \in InTrash
      BY <2>1, <2>2, LayoutIsOfDirectories
    <3>3. QED
      BY <3>1, <3>2
  <2>3. CASE i >= Len(TrashLayout)
    <3>1. /\ Looked(i + 1) \subseteq Looked(i) \cup {TrashLayout[(i + 1) - Len(TrashLayout)]}
          /\ Topology[i + 1] = <<"child", TrashLayout[(i + 1) - Len(TrashLayout)]>>
      BY <2>3, LookedMeans
    <3>2. (i + 1) - Len(TrashLayout) \in 1..Len(TrashLayout)
      BY <2>1, <2>3 DEF Places
    <3>3. TrashLayout[(i + 1) - Len(TrashLayout)] \in InTrash
      BY <3>2, LayoutIsOfDirectories
    <3>4. QED
      BY <3>1, <3>3
  <2>4. QED
    BY <2>1, <2>2, <2>3
<1>2. \A d \in Looked(i + 1) : d \in Looked(i) \/ Sound(d)
  BY <1>1
<1>3. Undisturbed(r, known, i) => Undisturbed(r, known, i + 1)
  BY <1>2 DEF Undisturbed
<1>4. Disturbed(r, known, i) => Disturbed(r, known, i + 1)
  BY <1>2 DEF Disturbed
<1>5. QED
  BY <1>3, <1>4 DEF Inspecting

(* A change while the inspection is under way. *)
LEMMA InspectionIsDisturbed ==
  ASSUME OnTrash, Holding \subseteq seen, DOMAIN place = Directories,
         NEW r \in Verdicts, NEW known \in BOOLEAN, NEW base \in Nat, NEW i \in Places,
         changes \in Nat, Inspecting(r, known, base, i), Change, seen \subseteq seen'
  PROVE  Inspecting(r, known, base, i)'
<1>1. changes' = changes + 1 /\ op' = op /\ (r \in seen => r \in seen')
  BY DEF Change, callVars
<1>2. TrashInPlace /\ Said(r) => r \in seen
  BY TrueIsSeen
<1>3. Looked(i) \subseteq InTrash
  BY LookedMeans
<1>4. ASSUME Undisturbed(r, known, i) PROVE Disturbed(r, known, i)'
  <2>1. CASE Replace
    <3>1. \A d : Sound(d)' <=> Sound(d)
      BY <2>1 DEF Replace, Sound
    <3>2. TrashInPlace' <=> TrashInPlace
      BY <2>1 DEF Replace, TrashInPlace
    <3>3. known => (TrashInPlace' => r \in seen')
      BY <1>1, <1>2, <1>4, <3>2 DEF Undisturbed
    <3>4. QED
      BY <1>4, <3>1, <3>3 DEF Undisturbed, Disturbed
  <2>2. ASSUME NEW x, \A d \in Directories \ {x} : Sound(d)' <=> Sound(d), entry' = entry
        PROVE  Disturbed(r, known, i)'
    <3>1. Said(r)' <=> Said(r)
      BY <1>1, <2>2 DEF Said
    <3>2. \A d \in InTrash \ {x} : Sound(d)' <=> Sound(d)
      BY <2>2 DEF Directories
    <3>3. CASE x \in Looked(i)
      <4>1. \A d \in Looked(i) \ {x} : Sound(d)'
        BY <1>3, <1>4, <3>2 DEF Undisturbed
      <4>2. Sound(x)
        BY <1>4, <3>3 DEF Undisturbed
      <4>3. (\A d \in InTrash \ {x} : Sound(d)') /\ Said(r)' => r \in seen'
        BY <1>1, <1>2, <3>1, <3>2, <4>2 DEF TrashInPlace, Sound
      <4>4. QED
        BY <1>3, <1>4, <3>1, <3>3, <4>1, <4>3 DEF Undisturbed, Disturbed
    <3>4. CASE x \notin Looked(i)
      <4>1. \A d \in Looked(i) : Sound(d)'
        BY <1>3, <1>4, <3>2, <3>4 DEF Undisturbed
      <4>2. QED
        BY <1>4, <3>1, <4>1 DEF Undisturbed, Disturbed
    <3>5. QED
      BY <3>3, <3>4
  <2>3. CASE Relocate
    <3>1. PICK x \in Directories : /\ \E p : place' = [place EXCEPT ![x] = p]
                                   /\ loose' = loose /\ entry' = entry
      BY <2>3 DEF Relocate
    <3>2. \A d \in Directories \ {x} : Sound(d)' <=> Sound(d)
      BY <3>1 DEF Sound
    <3>3. QED
      BY <2>2, <3>1, <3>2
  <2>4. CASE Loosen
    <3>1. PICK x : /\ loose' = IF x \in loose THEN loose \ {x} ELSE loose \cup {x}
                   /\ place' = place /\ entry' = entry
      BY <2>4 DEF Loosen
    <3>2. \A d \in Directories \ {x} : Sound(d)' <=> Sound(d)
      BY <3>1 DEF Sound
    <3>3. QED
      BY <2>2, <3>1, <3>2
  <2>5. QED
    BY <2>1, <2>3, <2>4 DEF Change
<1>5. QED
  BY <1>1, <1>4 DEF Inspecting

-----------------------------------------------------------------------------
(* What is left of each call, step by step. *)

(* A sequence of steps of which the first is s, and then rest. *)
Then(todos, s, rest) ==
  todos \in Seq(AnyStep) /\ todos # <<>> /\ Head(todos) = s /\ Tail(todos) = rest

LEMMA ConcludingMeans ==
  ASSUME NEW r \in Verdicts
  PROVE  Then(Concluding(r), <<"conclude", r>>, <<>>)
BY OneMeans, EmptySeq DEF Concluding, Then, Verbs

LEMMA InspectingThen ==
  ASSUME NEW rest \in Seq(AnyStep)
  PROVE  /\ Topology \o rest \in Seq(AnyStep)
         /\ Topology \o rest = Left(0) \o rest
         /\ 0 \in Places
BY TopologyMeans, LeftMeans, ConcatProperties, LenProperties DEF Places

LEMMA ThenInspecting ==
  ASSUME NEW v \in Verbs, NEW x \in Entries, NEW rest \in Seq(AnyStep)
  PROVE  Then(One(v, x) \o (Topology \o rest), <<v, x>>, Left(0) \o rest)
<1> PICK t : t = Topology \o rest
  OBVIOUS
<1>1. t \in Seq(AnyStep) /\ t = Left(0) \o rest
  BY InspectingThen
<1>2. x \in Directories \cup Entries \cup Verdicts \cup {Root}
  OBVIOUS
<1>3. Then(One(v, x) \o t, <<v, x>>, t)
  BY <1>1, <1>2, OneMeans DEF Then
<1>4. QED
  BY <1>1, <1>3

LEMMA ProbesMean ==
  ASSUME NEW e \in Entries
  PROVE  /\ Then(FoundAgain(e), <<"present", e>>, Left(0) \o Concluding("present"))
         /\ Then(LookedTwice(e), <<"find", e>>, Left(0) \o Concluding("absent"))
         /\ Then(LookedOnce(e), <<"find", e>>, Left(0) \o LookedTwice(e))
<1>1. Concluding("present") \in Seq(AnyStep) /\ Concluding("absent") \in Seq(AnyStep)
  BY ConcludingMeans DEF Then, Verdicts
<1>2. Then(LookedTwice(e), <<"find", e>>, Left(0) \o Concluding("absent"))
  BY <1>1, ThenInspecting DEF LookedTwice, Verbs
<1>3. Then(FoundAgain(e), <<"present", e>>, Left(0) \o Concluding("present"))
  BY <1>1, ThenInspecting DEF FoundAgain, Verbs
<1>4. LookedTwice(e) \in Seq(AnyStep)
  BY <1>2 DEF Then
<1>5. Then(LookedOnce(e), <<"find", e>>, Left(0) \o LookedTwice(e))
  BY <1>4, ThenInspecting DEF LookedOnce, Verbs
<1>6. QED
  BY <1>2, <1>3, <1>5

LEMMA RestorationMeans ==
  /\ Then(Moving, <<"present", "content">>, Renaming)
  /\ Then(Renaming, <<"rename", "content">>, Renamed)
  /\ Then(Renamed, <<"present", "source">>, SyncingBoth)
  /\ Then(SyncingBoth, <<"sync", "content">>, SyncingSource)
  /\ Then(SyncingSource, <<"sync", "source">>, Left(0) \o Concluding("verified"))
<1>1. Then(SyncingSource, <<"sync", "source">>, Left(0) \o Concluding("verified"))
  BY ConcludingMeans, ThenInspecting DEF SyncingSource, Then, Verbs, Verdicts, Entries
<1>2. Then(SyncingBoth, <<"sync", "content">>, SyncingSource)
  BY <1>1, OneMeans DEF SyncingBoth, Then, Verbs, Entries
<1>3. Then(Renamed, <<"present", "source">>, SyncingBoth)
  BY <1>2, OneMeans DEF Renamed, Then, Verbs, Entries
<1>4. Then(Renaming, <<"rename", "content">>, Renamed)
  BY <1>3, OneMeans DEF Renaming, Then, Verbs, Entries
<1>5. Then(Moving, <<"present", "content">>, Renaming)
  BY <1>4, OneMeans DEF Moving, Then, Verbs, Entries
<1>6. QED
  BY <1>1, <1>2, <1>3, <1>4, <1>5

(* The definitions of the calls, by what is left of them. *)
LEMMA CallsMean ==
  /\ Steps("qualify") = Left(0) \o Concluding("present")
  /\ Steps("probe_record") = Left(0) \o LookedOnce("record")
  /\ Steps("probe_content") = Left(0) \o LookedOnce("content")
  /\ Steps("restore") = Left(0) \o Moving
  /\ \A e : Found(e) = Left(0) \o FoundAgain(e)
<1>1. \A e : Found(e) = Topology \o FoundAgain(e)
  BY Zenon DEF Found, FoundAgain, Concluding
<1>2. \A e : Probe(e) = Topology \o LookedOnce(e)
  BY Zenon DEF Probe, LookedOnce, LookedTwice, Concluding
<1>3. Restoration = Topology \o Moving
  BY Zenon DEF Restoration, Moving, Renaming, Renamed, SyncingBoth, SyncingSource, Concluding
<1>4. Steps("qualify") = Topology \o Concluding("present")
  BY Zenon DEF Steps, Concluding
<1>5. Steps("probe_record") = Probe("record") /\ Steps("probe_content") = Probe("content")
  BY Zenon DEF Steps
<1>6. Steps("restore") = Restoration
  BY Zenon DEF Steps
<1>7. QED
  BY <1>1, <1>2, <1>3, <1>4, <1>5, <1>6, LeftMeans

-----------------------------------------------------------------------------
(* What a call does at the step it has come to. *)

RestStays == UNCHANGED <<namespaceVars, op, result, applied, changes>>

(* An error, or a check that does not hold. *)
Failed == Fail /\ todo' = <<>> /\ UNCHANGED <<namespaceVars, op, applied, changes>>

LEMMA FailMeans ==
  ASSUME Fail
  PROVE  /\ Failed
         /\ op # "restore" => result' = "unknown"
         /\ op = "restore" => result' \in {"not_applied", "indeterminate"}
         /\ op = "restore" /\ ~Renames(todo) => result' = "indeterminate"
BY DEF Fail, Failed, Return, Renames

LEMMA LookingMeans ==
  ASSUME Call, ~Fail, todo # <<>>, NEW v, NEW x, Head(todo) = <<v, x>>,
         v \in {"from", "walk", "compare", "private", "child", "absent", "present"}
  PROVE  /\ todo' = Tail(todo) /\ RestStays
         /\ v = "child" => Sound(x)
         /\ v = "present" => entry[x] = "planned"
<1>1. CASE StartWalk \/ Walk \/ Compare \/ Private \/ Absent
  BY <1>1 DEF StartWalk, Walk, Compare, Private, Absent, Done, At, RestStays
<1>2. CASE Child
  BY <1>2 DEF Child, Done, At, RestStays, Sound
<1>3. CASE Present
  BY <1>3 DEF Present, Lookup, Done, At, RestStays
<1>4. ~(Find \/ Sync \/ Conclude)
  BY DEF Find, Sync, Conclude, At
<1>5. QED
  BY <1>1, <1>2, <1>3, <1>4 DEF Call

LEMMA FindMeans ==
  ASSUME Call, ~Fail, todo # <<>>, NEW e, Head(todo) = <<"find", e>>
  PROVE  /\ RestStays
         /\ \/ entry[e] = "none" /\ todo' = Tail(todo)
            \/ entry[e] = "planned" /\ todo' = Found(e)
<1>1. ~(StartWalk \/ Walk \/ Compare \/ Private \/ Child \/ Absent \/ Present)
  BY DEF StartWalk, Walk, Compare, Private, Child, Absent, Present, Done, At
<1>2. ~(Sync \/ Conclude)
  BY DEF Sync, Conclude, At
<1>3. Find
  BY <1>1, <1>2 DEF Call
<1>4. QED
  BY <1>3 DEF Find, At, RestStays

LEMMA SyncMeans ==
  ASSUME Call, ~Fail, todo # <<>>, NEW e, Head(todo) = <<"sync", e>>
  PROVE  /\ todo' = Tail(todo) /\ unsynced' = unsynced \ {e}
         /\ UNCHANGED <<place, loose, entry, op, at, result, applied, changes>>
<1>1. ~(StartWalk \/ Walk \/ Compare \/ Private \/ Child \/ Absent \/ Present)
  BY DEF StartWalk, Walk, Compare, Private, Child, Absent, Present, Done, At
<1>2. ~(Find \/ Conclude)
  BY DEF Find, Conclude, At
<1>3. Sync
  BY <1>1, <1>2 DEF Call
<1>4. QED
  BY <1>3 DEF Sync, At

LEMMA ConcludeMeans ==
  ASSUME Call, ~Fail, todo # <<>>, NEW r, Head(todo) = <<"conclude", r>>
  PROVE  todo' = <<>> /\ result' = r /\ UNCHANGED <<namespaceVars, op, applied, changes>>
<1>1. ~(StartWalk \/ Walk \/ Compare \/ Private \/ Child \/ Absent \/ Present)
  BY DEF StartWalk, Walk, Compare, Private, Child, Absent, Present, Done, At
<1>2. ~(Find \/ Sync)
  BY DEF Find, Sync, At
<1>3. Conclude
  BY <1>1, <1>2 DEF Call
<1>4. QED
  BY <1>3 DEF Conclude, At, Return

LEMMA NoRenaming ==
  ASSUME Call, ~Fail, todo # <<>>, NEW e, Head(todo) = <<"rename", e>>
  PROVE  FALSE
<1>1. ~(StartWalk \/ Walk \/ Compare \/ Private \/ Child \/ Absent \/ Present)
  BY DEF StartWalk, Walk, Compare, Private, Child, Absent, Present, Done, At
<1>2. ~(Find \/ Sync \/ Conclude)
  BY DEF Find, Sync, Conclude, At
<1>3. QED
  BY <1>1, <1>2 DEF Call

LEMMA NothingLeft ==
  ASSUME Call \/ Change \/ Rename, todo = <<>>
  PROVE  FALSE
<1>1. ~(StartWalk \/ Walk \/ Compare \/ Private \/ Child \/ Absent \/ Present)
  BY DEF StartWalk, Walk, Compare, Private, Child, Absent, Present, Done, At
<1>2. ~(Find \/ Sync \/ Conclude \/ Fail \/ Change \/ Rename)
  BY DEF Find, Sync, Conclude, Fail, Change, Rename, At
<1>3. QED
  BY <1>1, <1>2 DEF Call

(* A step of the call in the middle of an inspection. *)
LEMMA InspectionStep ==
  ASSUME NEW i \in Places, NEW rest \in Seq(AnyStep), todo = Left(i) \o rest,
         i # Len(Topology), Call, ~Fail, seen \subseteq seen'
  PROVE  /\ todo' = Left(i + 1) \o rest /\ RestStays /\ i + 1 \in Places
         /\ \A r : \A known \in BOOLEAN, base \in Nat :
              Inspecting(r, known, base, i) => Inspecting(r, known, base, i + 1)'
<1>1. /\ todo # <<>> /\ Head(todo) = Topology[i + 1]
      /\ Tail(todo) = Left(i + 1) \o rest
  BY InspectionMeans
<1>2. Len(Topology) \in Nat /\ i + 1 \in Places
  BY TopologyMeans, LayoutIsOfDirectories DEF Places
<1>3. PICK v, x : Topology[i + 1] = <<v, x>> /\ v \in {"private", "child"}
  BY TopologyVerbs
<1>4. todo' = Tail(todo) /\ RestStays /\ (v = "child" => Sound(x))
  BY <1>1, <1>3, LookingMeans
<1>5. \A d \in InTrash : Topology[i + 1] = <<"child", d>> => Sound(d)
  BY <1>3, <1>4
<1>6. NamesStay
  BY <1>4 DEF RestStays, namespaceVars, NamesStay
<1>7. ASSUME NEW r, NEW known \in BOOLEAN, NEW base \in Nat, Inspecting(r, known, base, i)
      PROVE  Inspecting(r, known, base, i + 1)'
  <2>1. Inspecting(r, known, base, i + 1)
    BY <1>5, <1>7, InspectionAdvances
  <2>2. QED
    BY <1>6, <2>1, InspectionStays
<1>8. QED
  BY <1>1, <1>2, <1>4, <1>7

(***************************************************************************)
(* The call reads an entry that agrees with r at the end of an inspection, *)
(* and inspects anew: it has two more changes to be deceived by.           *)
(***************************************************************************)
LEMMA InspectionRenews ==
  ASSUME OnTrash, Holding \subseteq seen, NEW r \in Verdicts, NEW known \in BOOLEAN,
         NEW base \in Nat, NEW more \in Nat, more = base + 2, changes \in Nat,
         Inspecting(r, known, base, Len(Topology)), Said(r), NamesStay
  PROVE  Inspecting(r, TRUE, more, 0)'
<1>1. r \in seen \/ changes >= more
  BY InspectionEnds
<1>2. PICK sure \in BOOLEAN : sure = TRUE
  OBVIOUS
<1>3. Inspecting(r, sure, more, 0)
  <2>1. CASE r \in seen
    BY <2>1 DEF Inspecting
  <2>2. CASE changes >= more
    BY <2>2, InspectionStarts
  <2>3. QED
    BY <1>1, <2>1, <2>2
<1>4. Inspecting(r, sure, more, 0)'
  BY <1>3, InspectionStays
<1>5. QED
  BY <1>2, <1>4

-----------------------------------------------------------------------------
(* Each call keeps its part of the invariant. *)

(* What holds of every call. *)
Framed ==
  /\ DOMAIN place = Directories
  /\ entry \in [Entries -> Objects]
  /\ op \in Operations
  /\ changes \in 0..Tolerated[op]
  /\ Holding \subseteq seen
  /\ NoLoops

LEMMA FramedMeans ==
  ASSUME Framed
  PROVE  /\ changes \in Nat /\ changes <= Tolerated[op]
         /\ op # "probe_source" => OnTrash
BY LayoutAssumptions DEF Framed, OnTrash

LEMMA StepIsFramed ==
  ASSUME Framed, Next
  PROVE  Framed' /\ op' = op
<1>1. place' = place => (NoLoops => NoLoops')
  BY DEF NoLoops
<1>2. ASSUME Call, seen' = seen \cup Holding' PROVE Framed' /\ op' = op
  <2>1. /\ UNCHANGED <<place, entry, op, changes>>
    BY <1>2 DEF Call, StartWalk, Walk, Compare, Private, Child, Absent, Present, Done, Find, Sync,
                Conclude, Fail, namespaceVars
  <2>2. QED
    BY <1>1, <1>2, <2>1 DEF Framed
<1>3. ASSUME Change, seen' = seen \cup Holding' PROVE Framed' /\ op' = op
  <2>1. op' = op /\ changes' \in 0..Tolerated[op]
    BY <1>3, LayoutAssumptions DEF Change, callVars, Framed
  <2>2. DOMAIN place' = Directories /\ entry' \in [Entries -> Objects]
    BY <1>3 DEF Change, Relocate, Loosen, Replace, Framed
  <2>3. NoLoops'
    BY <1>1, <1>3 DEF Change, Relocate, Loosen, Replace, Framed
  <2>4. QED
    BY <1>3, <2>1, <2>2, <2>3 DEF Framed
<1>4. ASSUME Rename, seen' = Holding' PROVE Framed' /\ op' = op
  <2>1. op' = op /\ place' = place /\ changes' = 0 /\ Tolerated[op] \in Nat
    BY <1>4, LayoutAssumptions DEF Rename, Framed
  <2>2. entry' \in [Entries -> Objects]
    BY <1>4 DEF Rename, Apply, Framed, Entries, Objects
  <2>3. QED
    BY <1>1, <1>4, <2>1, <2>2 DEF Framed
<1>5. QED
  BY <1>2, <1>3, <1>4 DEF Next

LEMMA QualifyingKeeps ==
  ASSUME Framed, Bearable, op = "qualify", Qualifying, Call \/ Change, seen \subseteq seen'
  PROVE  Qualifying'
<1>0. /\ OnTrash /\ Holding \subseteq seen /\ DOMAIN place = Directories
      /\ changes \in Nat /\ changes < 2 /\ "present" \in Verdicts
  <2>1. Tolerated["qualify"] \in Nat
    BY LayoutAssumptions DEF Operations
  <2>2. OnTrash /\ changes \in Nat /\ changes <= Tolerated["qualify"]
    BY FramedMeans
  <2>3. QED
    BY <2>1, <2>2 DEF Framed, Bearable, Verdicts
<1> PICK rest : rest = Concluding("present")
  OBVIOUS
<1>1. PICK i \in Places : result = "none" /\ todo = Left(i) \o rest
                          /\ Inspecting("present", TRUE, 0, i)
  BY NothingLeft DEF Qualifying, Returned
<1>2. Then(rest, <<"conclude", "present">>, <<>>)
  BY ConcludingMeans DEF Verdicts
<1>3. CASE Change
  <2>1. todo' = todo /\ result' = result
    BY <1>3 DEF Change, callVars
  <2>2. Inspecting("present", TRUE, 0, i)'
    BY <1>0, <1>1, <1>3, InspectionIsDisturbed
  <2>3. QED
    BY <1>1, <2>1, <2>2 DEF Qualifying
<1>4. CASE Fail
  BY <1>4, FailMeans DEF Failed, Qualifying, Returned, Verdicts
<1>5. CASE Call /\ ~Fail /\ i # Len(Topology)
  <2>1. /\ todo' = Left(i + 1) \o rest /\ RestStays /\ i + 1 \in Places
        /\ Inspecting("present", TRUE, 0, i + 1)'
    BY <1>1, <1>2, <1>5, InspectionStep DEF Then
  <2>2. result' = "none"
    BY <1>1, <2>1 DEF RestStays
  <2>3. QED
    BY <2>1, <2>2 DEF Qualifying
<1>6. CASE Call /\ ~Fail /\ i = Len(Topology)
  <2>1. todo = rest
    BY <1>1, <1>2, <1>6, InspectionMeans DEF Then
  <2>2. todo' = <<>> /\ result' = "present"
    BY <1>2, <1>6, <2>1, ConcludeMeans DEF Then
  <2>3. "present" \in seen
    <3>1. PICK sure \in BOOLEAN, base \in Nat : sure = TRUE /\ base = 0
      OBVIOUS
    <3>2. Inspecting("present", sure, base, Len(Topology))
      BY <1>1, <1>6, <3>1
    <3>3. "present" \in seen \/ changes >= base + 2
      BY <1>0, <3>1, <3>2, InspectionEnds
    <3>4. QED
      BY <1>0, <3>1, <3>3
  <2>4. QED
    BY <2>2, <2>3 DEF Qualifying, Returned
<1>7. QED
  BY <1>3, <1>4, <1>5, <1>6

(* The probe of a record or of content, at the entry it is for. *)
ProbesFor(e) ==
  \/ op = "probe_record" /\ e = "record"
  \/ op = "probe_content" /\ e = "content"

LEMMA ProbingChanges ==
  ASSUME Framed, NEW e \in Entries, ProbesFor(e), Probing(e), Change, seen \subseteq seen'
  PROVE  Probing(e)'
<1>0. OnTrash /\ Holding \subseteq seen /\ DOMAIN place = Directories /\ changes \in Nat
  BY FramedMeans DEF Framed, ProbesFor
<1>1. todo # <<>> /\ todo' = todo /\ result' = result
  BY DEF Change, callVars
<1>2. ASSUME NEW r \in Verdicts, NEW known \in BOOLEAN, NEW base \in Nat, NEW i \in Places,
             Inspecting(r, known, base, i)
      PROVE  Inspecting(r, known, base, i)'
  BY <1>0, <1>2, InspectionIsDisturbed
<1>3. ASSUME NEW i \in Places
      PROVE  /\ Inspecting("absent", FALSE, 0, i) => Inspecting("absent", FALSE, 0, i)'
             /\ Inspecting("absent", TRUE, 2, i) => Inspecting("absent", TRUE, 2, i)'
             /\ Inspecting("absent", TRUE, 4, i) => Inspecting("absent", TRUE, 4, i)'
             /\ Inspecting("present", FALSE, 0, i) => Inspecting("present", FALSE, 0, i)'
             /\ Inspecting("present", TRUE, 2, i) => Inspecting("present", TRUE, 2, i)'
             /\ Inspecting("present", TRUE, 4, i) => Inspecting("present", TRUE, 4, i)'
  BY <1>2 DEF Verdicts
<1>4. QED
  BY <1>1, <1>3 DEF Probing, Returned

(* In the middle of an inspection. *)
LEMMA ProbingInspects ==
  ASSUME NEW e \in Entries, NEW i \in Places, i # Len(Topology),
         Call, ~Fail, seen \subseteq seen',
         result = "none",
         \/ /\ todo = Left(i) \o LookedOnce(e)
            /\ Inspecting("absent", FALSE, 0, i) /\ Inspecting("present", FALSE, 0, i)
         \/ /\ todo = Left(i) \o LookedTwice(e)
            /\ Inspecting("absent", TRUE, 2, i) /\ Inspecting("present", FALSE, 0, i)
         \/ todo = Left(i) \o Concluding("absent") /\ Inspecting("absent", TRUE, 4, i)
         \/ todo = Left(i) \o FoundAgain(e) /\ Inspecting("present", TRUE, 2, i)
         \/ todo = Left(i) \o Concluding("present") /\ Inspecting("present", TRUE, 4, i)
  PROVE  Probing(e)'
<1>1. /\ LookedOnce(e) \in Seq(AnyStep) /\ LookedTwice(e) \in Seq(AnyStep)
      /\ FoundAgain(e) \in Seq(AnyStep)
      /\ Concluding("absent") \in Seq(AnyStep) /\ Concluding("present") \in Seq(AnyStep)
  BY ProbesMean, ConcludingMeans DEF Then, Verdicts
<1>2. ASSUME NEW rest \in Seq(AnyStep), todo = Left(i) \o rest
      PROVE  /\ todo' = Left(i + 1) \o rest /\ result' = "none" /\ i + 1 \in Places
             /\ \A r : \A known \in BOOLEAN, base \in Nat :
                  Inspecting(r, known, base, i) => Inspecting(r, known, base, i + 1)'
  BY <1>2, InspectionStep DEF RestStays
<1>3. CASE /\ todo = Left(i) \o LookedOnce(e)
           /\ Inspecting("absent", FALSE, 0, i) /\ Inspecting("present", FALSE, 0, i)
  <2>1. /\ todo' = Left(i + 1) \o LookedOnce(e) /\ result' = "none" /\ i + 1 \in Places
        /\ Inspecting("absent", FALSE, 0, i + 1)' /\ Inspecting("present", FALSE, 0, i + 1)'
    BY <1>1, <1>2, <1>3
  <2>2. QED
    BY <2>1 DEF Probing
<1>4. CASE /\ todo = Left(i) \o LookedTwice(e)
           /\ Inspecting("absent", TRUE, 2, i) /\ Inspecting("present", FALSE, 0, i)
  <2>1. /\ todo' = Left(i + 1) \o LookedTwice(e) /\ result' = "none" /\ i + 1 \in Places
        /\ Inspecting("absent", TRUE, 2, i + 1)' /\ Inspecting("present", FALSE, 0, i + 1)'
    BY <1>1, <1>2, <1>4
  <2>2. QED
    BY <2>1 DEF Probing
<1>5. CASE todo = Left(i) \o Concluding("absent") /\ Inspecting("absent", TRUE, 4, i)
  <2>1. /\ todo' = Left(i + 1) \o Concluding("absent") /\ result' = "none" /\ i + 1 \in Places
        /\ Inspecting("absent", TRUE, 4, i + 1)'
    BY <1>1, <1>2, <1>5
  <2>2. QED
    BY <2>1 DEF Probing
<1>6. CASE todo = Left(i) \o FoundAgain(e) /\ Inspecting("present", TRUE, 2, i)
  <2>1. /\ todo' = Left(i + 1) \o FoundAgain(e) /\ result' = "none" /\ i + 1 \in Places
        /\ Inspecting("present", TRUE, 2, i + 1)'
    BY <1>1, <1>2, <1>6
  <2>2. QED
    BY <2>1 DEF Probing
<1>7. CASE todo = Left(i) \o Concluding("present") /\ Inspecting("present", TRUE, 4, i)
  <2>1. /\ todo' = Left(i + 1) \o Concluding("present") /\ result' = "none" /\ i + 1 \in Places
        /\ Inspecting("present", TRUE, 4, i + 1)'
    BY <1>1, <1>2, <1>7
  <2>2. QED
    BY <2>1 DEF Probing
<1>8. QED
  BY <1>3, <1>4, <1>5, <1>6, <1>7

(* At the end of an inspection: what the probe goes on to know. *)
LEMMA ProbingRenews ==
  ASSUME Framed, NEW e \in Entries, ProbesFor(e), NamesStay
  PROVE  /\ entry[e] = "none" =>
              /\ Inspecting("absent", FALSE, 0, Len(Topology)) => Inspecting("absent", TRUE, 2, 0)'
              /\ Inspecting("absent", TRUE, 2, Len(Topology)) => Inspecting("absent", TRUE, 4, 0)'
         /\ entry[e] = "planned" =>
              /\ Inspecting("present", FALSE, 0, Len(Topology)) => Inspecting("present", TRUE, 2, 0)'
              /\ Inspecting("present", TRUE, 2, Len(Topology)) => Inspecting("present", TRUE, 4, 0)'
         /\ Inspecting("present", FALSE, 0, 0)'
<1>1. OnTrash /\ Holding \subseteq seen /\ changes \in Nat
  BY FramedMeans DEF Framed, ProbesFor
<1>2. /\ entry[e] = "none" => Said("absent")
      /\ entry[e] = "planned" => Said("present")
  BY DEF ProbesFor, Said
<1>3. ASSUME NEW r \in Verdicts, NEW known \in BOOLEAN, NEW base \in Nat, NEW more \in Nat,
             more = base + 2, Inspecting(r, known, base, Len(Topology)), Said(r)
      PROVE  Inspecting(r, TRUE, more, 0)'
  BY <1>1, <1>3, InspectionRenews
<1>4. /\ "absent" \in Verdicts /\ "present" \in Verdicts
      /\ 0 \in Nat /\ 2 \in Nat /\ 4 \in Nat /\ 2 = 0 + 2 /\ 4 = 2 + 2
  BY DEF Verdicts
<1>5. ASSUME NEW r \in Verdicts, Said(r)
      PROVE  /\ Inspecting(r, FALSE, 0, Len(Topology)) => Inspecting(r, TRUE, 2, 0)'
             /\ Inspecting(r, TRUE, 2, Len(Topology)) => Inspecting(r, TRUE, 4, 0)'
  BY <1>3, <1>4, <1>5
<1>6. Inspecting("present", FALSE, 0, 0)'
  <2>1. PICK known \in BOOLEAN, base \in Nat : known = FALSE /\ base = 0
    OBVIOUS
  <2>2. Inspecting("present", known, base, 0)
    BY <1>1, <2>1, InspectionStarts
  <2>3. Inspecting("present", known, base, 0)'
    BY <2>2, InspectionStays
  <2>4. QED
    BY <2>1, <2>3
<1>7. QED
  BY <1>2, <1>4, <1>5, <1>6

(* The last inspection ends, and fewer than six changes have been made. *)
LEMMA ProbingConcludes ==
  ASSUME Framed, Bearable, NEW e \in Entries, ProbesFor(e),
         NEW r \in {"absent", "present"}, Inspecting(r, TRUE, 4, Len(Topology))
  PROVE  r \in seen
<1>1. OnTrash /\ Holding \subseteq seen /\ changes \in Nat /\ changes <= Tolerated[op]
  BY FramedMeans DEF Framed, ProbesFor
<1>2. Tolerated[op] \in Nat /\ Tolerated[op] <= 5
  BY LayoutAssumptions DEF Bearable, ProbesFor, Operations
<1>3. PICK known \in BOOLEAN, base \in Nat : known = TRUE /\ base = 4
  OBVIOUS
<1>4. Inspecting(r, known, base, Len(Topology)) /\ r \in Verdicts
  BY <1>3 DEF Verdicts
<1>5. r \in seen \/ changes >= base + 2
  BY <1>1, <1>3, <1>4, InspectionEnds
<1>6. QED
  BY <1>1, <1>2, <1>3, <1>5

(* The step of the call after an inspection. *)
LEMMA ProbingTurns ==
  ASSUME Framed, Bearable, NEW e \in Entries, ProbesFor(e),
         Call, ~Fail, seen \subseteq seen', result = "none",
         \/ /\ todo = LookedOnce(e)
            /\ Inspecting("absent", FALSE, 0, Len(Topology))
            /\ Inspecting("present", FALSE, 0, Len(Topology))
         \/ /\ todo = LookedTwice(e)
            /\ Inspecting("absent", TRUE, 2, Len(Topology))
            /\ Inspecting("present", FALSE, 0, Len(Topology))
         \/ todo = Concluding("absent") /\ Inspecting("absent", TRUE, 4, Len(Topology))
         \/ todo = FoundAgain(e) /\ Inspecting("present", TRUE, 2, Len(Topology))
         \/ todo = Concluding("present") /\ Inspecting("present", TRUE, 4, Len(Topology))
  PROVE  Probing(e)'
<1>1. 0 \in Places
  BY InspectingThen, EmptySeq
<1>2. ASSUME RestStays PROVE NamesStay /\ result' = "none"
  BY <1>2 DEF RestStays, NamesStay, namespaceVars
<1>3. CASE /\ todo = LookedOnce(e)
           /\ Inspecting("absent", FALSE, 0, Len(Topology))
           /\ Inspecting("present", FALSE, 0, Len(Topology))
  <2>1. todo # <<>> /\ Head(todo) = <<"find", e>> /\ Tail(todo) = Left(0) \o LookedTwice(e)
    BY <1>3, ProbesMean DEF Then
  <2>2. /\ RestStays
        /\ \/ entry[e] = "none" /\ todo' = Left(0) \o LookedTwice(e)
           \/ entry[e] = "planned" /\ todo' = Left(0) \o FoundAgain(e)
    BY <2>1, FindMeans, CallsMean
  <2>3. CASE entry[e] = "none" /\ todo' = Left(0) \o LookedTwice(e)
    <3>1. Inspecting("absent", TRUE, 2, 0)' /\ Inspecting("present", FALSE, 0, 0)'
      BY <1>2, <1>3, <2>2, <2>3, ProbingRenews
    <3>2. QED
      BY <1>1, <1>2, <2>2, <2>3, <3>1 DEF Probing
  <2>4. CASE entry[e] = "planned" /\ todo' = Left(0) \o FoundAgain(e)
    <3>1. Inspecting("present", TRUE, 2, 0)'
      BY <1>2, <1>3, <2>2, <2>4, ProbingRenews
    <3>2. QED
      BY <1>1, <1>2, <2>2, <2>4, <3>1 DEF Probing
  <2>5. QED
    BY <2>2, <2>3, <2>4
<1>4. CASE /\ todo = LookedTwice(e)
           /\ Inspecting("absent", TRUE, 2, Len(Topology))
           /\ Inspecting("present", FALSE, 0, Len(Topology))
  <2>1. todo # <<>> /\ Head(todo) = <<"find", e>> /\ Tail(todo) = Left(0) \o Concluding("absent")
    BY <1>4, ProbesMean DEF Then
  <2>2. /\ RestStays
        /\ \/ entry[e] = "none" /\ todo' = Left(0) \o Concluding("absent")
           \/ entry[e] = "planned" /\ todo' = Left(0) \o FoundAgain(e)
    BY <2>1, FindMeans, CallsMean
  <2>3. CASE entry[e] = "none" /\ todo' = Left(0) \o Concluding("absent")
    <3>1. Inspecting("absent", TRUE, 4, 0)'
      BY <1>2, <1>4, <2>2, <2>3, ProbingRenews
    <3>2. QED
      BY <1>1, <1>2, <2>2, <2>3, <3>1 DEF Probing
  <2>4. CASE entry[e] = "planned" /\ todo' = Left(0) \o FoundAgain(e)
    <3>1. Inspecting("present", TRUE, 2, 0)'
      BY <1>2, <1>4, <2>2, <2>4, ProbingRenews
    <3>2. QED
      BY <1>1, <1>2, <2>2, <2>4, <3>1 DEF Probing
  <2>5. QED
    BY <2>2, <2>3, <2>4
<1>5. CASE todo = FoundAgain(e) /\ Inspecting("present", TRUE, 2, Len(Topology))
  <2>1. /\ todo # <<>> /\ Head(todo) = <<"present", e>>
        /\ Tail(todo) = Left(0) \o Concluding("present")
    BY <1>5, ProbesMean DEF Then
  <2>2. RestStays /\ entry[e] = "planned" /\ todo' = Left(0) \o Concluding("present")
    BY <2>1, LookingMeans
  <2>3. Inspecting("present", TRUE, 4, 0)'
    BY <1>2, <1>5, <2>2, ProbingRenews
  <2>4. QED
    BY <1>1, <1>2, <2>2, <2>3 DEF Probing
<1>6. ASSUME NEW r \in {"absent", "present"}, todo = Concluding(r),
             Inspecting(r, TRUE, 4, Len(Topology))
      PROVE  Probing(e)'
  <2>1. todo # <<>> /\ Head(todo) = <<"conclude", r>>
    BY <1>6, ConcludingMeans DEF Then, Verdicts
  <2>2. todo' = <<>> /\ result' = r
    BY <2>1, ConcludeMeans
  <2>3. r \in seen'
    BY <1>6, ProbingConcludes
  <2>4. QED
    BY <2>2, <2>3 DEF Probing, Returned
<1>7. QED
  BY <1>3, <1>4, <1>5, <1>6

LEMMA ProbingKeeps ==
  ASSUME Framed, Bearable, NEW e \in Entries, ProbesFor(e), Probing(e),
         Call \/ Change, seen \subseteq seen'
  PROVE  Probing(e)'
<1>1. PICK i \in Places :
        /\ result = "none"
        /\ \/ /\ todo = Left(i) \o LookedOnce(e)
              /\ Inspecting("absent", FALSE, 0, i) /\ Inspecting("present", FALSE, 0, i)
           \/ /\ todo = Left(i) \o LookedTwice(e)
              /\ Inspecting("absent", TRUE, 2, i) /\ Inspecting("present", FALSE, 0, i)
           \/ todo = Left(i) \o Concluding("absent") /\ Inspecting("absent", TRUE, 4, i)
           \/ todo = Left(i) \o FoundAgain(e) /\ Inspecting("present", TRUE, 2, i)
           \/ todo = Left(i) \o Concluding("present") /\ Inspecting("present", TRUE, 4, i)
  BY NothingLeft DEF Probing, Returned
<1>2. CASE Change
  BY <1>2, ProbingChanges
<1>3. CASE Fail
  <2>1. op # "restore"
    BY DEF ProbesFor
  <2>2. QED
    BY <1>3, <2>1, FailMeans DEF Failed, Probing, Returned, Verdicts
<1>4. CASE Call /\ ~Fail /\ i # Len(Topology)
  BY <1>1, <1>4, ProbingInspects
<1>5. CASE Call /\ ~Fail /\ i = Len(Topology)
  <2>1. /\ LookedOnce(e) \in Seq(AnyStep) /\ LookedTwice(e) \in Seq(AnyStep)
        /\ FoundAgain(e) \in Seq(AnyStep)
        /\ Concluding("absent") \in Seq(AnyStep) /\ Concluding("present") \in Seq(AnyStep)
    BY ProbesMean, ConcludingMeans DEF Then, Verdicts
  <2>2. /\ Left(i) \o LookedOnce(e) = LookedOnce(e)
        /\ Left(i) \o LookedTwice(e) = LookedTwice(e)
        /\ Left(i) \o FoundAgain(e) = FoundAgain(e)
        /\ Left(i) \o Concluding("absent") = Concluding("absent")
        /\ Left(i) \o Concluding("present") = Concluding("present")
    BY <1>5, <2>1, InspectionMeans
  <2>3. \/ /\ todo = LookedOnce(e)
           /\ Inspecting("absent", FALSE, 0, Len(Topology))
           /\ Inspecting("present", FALSE, 0, Len(Topology))
        \/ /\ todo = LookedTwice(e)
           /\ Inspecting("absent", TRUE, 2, Len(Topology))
           /\ Inspecting("present", FALSE, 0, Len(Topology))
        \/ todo = Concluding("absent") /\ Inspecting("absent", TRUE, 4, Len(Topology))
        \/ todo = FoundAgain(e) /\ Inspecting("present", TRUE, 2, Len(Topology))
        \/ todo = Concluding("present") /\ Inspecting("present", TRUE, 4, Len(Topology))
    BY <1>1, <1>5, <2>2
  <2>4. QED
    BY <1>1, <1>5, <2>3, ProbingTurns
<1>6. QED
  BY <1>2, <1>3, <1>4, <1>5

-----------------------------------------------------------------------------
(* A restoration. *)

LEMMA JoinedMeans ==
  ASSUME NEW S, NEW s \in Seq(S), NEW t \in Seq(S)
  PROVE  /\ s \o t \in Seq(S)
         /\ \A i \in 1..Len(s \o t) : \/ \E j \in 1..Len(s) : (s \o t)[i] = s[j]
                                      \/ \E j \in 1..Len(t) : (s \o t)[i] = t[j]
<1>1. Len(s) \in Nat /\ Len(t) \in Nat
  BY LenProperties
<1>2. /\ s \o t \in Seq(S) /\ Len(s \o t) = Len(s) + Len(t)
      /\ \A i \in 1 .. Len(s) + Len(t) :
           (s \o t)[i] = IF i <= Len(s) THEN s[i] ELSE t[i - Len(s)]
  BY ConcatProperties
<1>3. ASSUME NEW i \in 1..Len(s \o t)
      PROVE  \/ \E j \in 1..Len(s) : (s \o t)[i] = s[j]
             \/ \E j \in 1..Len(t) : (s \o t)[i] = t[j]
  <2>1. CASE i <= Len(s)
    BY <1>1, <1>2, <2>1
  <2>2. CASE i > Len(s)
    <3>1. i - Len(s) \in 1..Len(t) /\ (s \o t)[i] = t[i - Len(s)]
      BY <1>1, <1>2, <2>2
    <3>2. QED
      BY <3>1
  <2>3. QED
    BY <1>1, <1>2, <2>1, <2>2
<1>4. QED
  BY <1>2, <1>3

LEMMA RenamesNothing ==
  /\ \A s, t \in Seq(AnyStep) : ~Renames(s) /\ ~Renames(t) => ~Renames(s \o t)
  /\ \A v \in Verbs \ {"rename"} : \A x : ~Renames(One(v, x))
  /\ ~Renames(Topology)
<1>1. ASSUME NEW s \in Seq(AnyStep), NEW t \in Seq(AnyStep), ~Renames(s), ~Renames(t)
      PROVE  ~Renames(s \o t)
  BY <1>1, JoinedMeans DEF Renames
<1>2. ASSUME NEW v \in Verbs \ {"rename"}, NEW x PROVE ~Renames(One(v, x))
  BY <1>2 DEF Renames, One
<1>3. ~Renames(Topology)
  <2>1. ASSUME NEW i \in 1..Len(Topology) PROVE Topology[i][1] # "rename"
    <3>1. Len(Topology) \in Nat
      BY TopologyMeans, LenProperties
    <3>2. i - 1 \in Places /\ i - 1 # Len(Topology) /\ (i - 1) + 1 = i
      BY <3>1 DEF Places
    <3>3. PICK v, x : Topology[i] = <<v, x>> /\ v \in {"private", "child"}
      BY <3>2, TopologyVerbs
    <3>4. QED
      BY <3>3
  <2>2. QED
    BY <2>1 DEF Renames
<1>4. QED
  BY <1>1, <1>2, <1>3

LEMMA RenamedOnce == ~Renames(Renamed)
<1> PICK c, last, ss, sb : /\ c = Concluding("verified") /\ last = Topology \o c
                           /\ ss = SyncingSource /\ sb = SyncingBoth
  OBVIOUS
<1>1. c \in Seq(AnyStep) /\ ~Renames(c)
  BY ConcludingMeans, RenamesNothing DEF Then, Concluding, Verbs, Verdicts
<1>2. last \in Seq(AnyStep) /\ ~Renames(last)
  BY <1>1, TopologyMeans, InspectingThen, RenamesNothing
<1>3. ss \in Seq(AnyStep) /\ sb \in Seq(AnyStep) /\ Renamed \in Seq(AnyStep)
  BY RestorationMeans DEF Then
<1>4. /\ One("sync", "source") \in Seq(AnyStep) /\ ~Renames(One("sync", "source"))
      /\ One("sync", "content") \in Seq(AnyStep) /\ ~Renames(One("sync", "content"))
      /\ One("present", "source") \in Seq(AnyStep) /\ ~Renames(One("present", "source"))
  BY OneMeans, EmptySeq, RenamesNothing DEF Verbs, Entries
<1>5. ~Renames(ss)
  <2>1. ss = One("sync", "source") \o last
    BY DEF SyncingSource
  <2>2. QED
    BY <1>2, <1>4, <2>1, RenamesNothing
<1>6. ~Renames(sb)
  <2>1. sb = One("sync", "content") \o ss
    BY DEF SyncingBoth
  <2>2. QED
    BY <1>3, <1>4, <1>5, <2>1, RenamesNothing
<1>7. Renamed = One("present", "source") \o sb
  BY DEF Renamed
<1>8. QED
  BY <1>3, <1>4, <1>6, <1>7, RenamesNothing

LEMMA RenamesNoMore ==
  ASSUME NEW s \in Seq(AnyStep), s # <<>>, ~Renames(s)
  PROVE  ~Renames(Tail(s)) /\ Head(s)[1] # "rename"
<1>1. Len(s) \in Nat \ {0} /\ Head(s) = s[1]
  BY EmptySeq, LenProperties
<1>2. /\ Len(Tail(s)) = Len(s) - 1
      /\ \A i \in 1..Len(Tail(s)) : Tail(s)[i] = s[i + 1]
  BY HeadTailProperties
<1>3. \A i \in 1..Len(s) : s[i][1] # "rename"
  BY DEF Renames
<1>4. \A i \in 1..Len(Tail(s)) : i + 1 \in 1..Len(s)
  BY <1>1, <1>2
<1>5. 1 \in 1..Len(s)
  BY <1>1
<1>6. QED
  BY <1>1, <1>2, <1>3, <1>4, <1>5 DEF Renames

(* Its way to the rename. *)
Bound == result = "none" /\ ~applied /\ (todo = Renaming \/ \E i \in Places : todo = Left(i) \o Moving)

(* Its way back. *)
Verifying ==
  \/ todo = Renamed /\ unsynced \subseteq {"source", "content"}
  \/ /\ todo = SyncingBoth /\ unsynced \subseteq {"source", "content"}
     /\ Inspecting("verified", TRUE, 0, 0)
  \/ /\ todo = SyncingSource /\ unsynced \subseteq {"source"}
     /\ Inspecting("verified", TRUE, 0, 0)
  \/ /\ unsynced = {}
     /\ \E i \in Places : /\ todo = Left(i) \o Concluding("verified")
                          /\ Inspecting("verified", TRUE, 0, i)

LEMMA RestoringMeans ==
  Restoring <=> \/ RestorationReturned
                \/ Bound
                \/ result = "none" /\ applied /\ ~Renames(todo) /\ Verifying
BY DEF Restoring, Bound, Verifying

LEMMA BoundKeeps ==
  ASSUME op = "restore", Bound, Call \/ Change, seen \subseteq seen'
  PROVE  Bound' \/ RestorationReturned'
<1>1. Moving \in Seq(AnyStep)
  BY RestorationMeans DEF Then
<1>2. CASE Change
  BY <1>2 DEF Change, callVars, Bound
<1>3. CASE Fail
  BY <1>3, FailMeans DEF Failed, Bound, RestorationReturned
<1>4. CASE Call /\ ~Fail
  <2>1. CASE todo = Renaming
    BY <1>4, <2>1, RestorationMeans, NoRenaming DEF Then
  <2>2. ASSUME NEW i \in Places, i # Len(Topology), todo = Left(i) \o Moving
        PROVE  Bound'
    <3>1. todo' = Left(i + 1) \o Moving /\ RestStays /\ i + 1 \in Places
      BY <1>1, <1>4, <2>2, InspectionStep
    <3>2. QED
      BY <3>1 DEF RestStays, Bound
  <2>3. ASSUME NEW i \in Places, i = Len(Topology), todo = Left(i) \o Moving
        PROVE  Bound'
    <3>1. todo = Moving
      BY <1>1, <2>3, InspectionMeans
    <3>2. todo' = Renaming /\ RestStays
      BY <1>4, <3>1, RestorationMeans, LookingMeans DEF Then
    <3>3. QED
      BY <3>2 DEF RestStays, Bound
  <2>4. QED
    BY <2>1, <2>2, <2>3 DEF Bound
<1>5. QED
  BY <1>2, <1>3, <1>4

LEMMA VerifyingMeans ==
  ASSUME Verifying
  PROVE  todo \in Seq(AnyStep) /\ todo # <<>>
<1>1. ASSUME NEW i \in Places, todo = Left(i) \o Concluding("verified")
      PROVE  todo \in Seq(AnyStep) /\ todo # <<>>
  <2>1. Then(Concluding("verified"), <<"conclude", "verified">>, <<>>)
    BY ConcludingMeans DEF Verdicts
  <2>2. Left(i) \in Seq(AnyStep)
    BY LeftMeans
  <2>3. todo \in Seq(AnyStep)
    BY <1>1, <2>1, <2>2, ConcatProperties DEF Then
  <2>4. todo # <<>>
    BY <1>1, <2>1, InspectionMeans DEF Then
  <2>5. QED
    BY <2>3, <2>4
<1>2. QED
  BY <1>1, RestorationMeans DEF Then, Verifying

LEMMA VerifyingChanges ==
  ASSUME Framed, op = "restore", Verifying, Change, seen \subseteq seen'
  PROVE  Verifying'
<1>0. OnTrash /\ Holding \subseteq seen /\ DOMAIN place = Directories /\ changes \in Nat
  BY FramedMeans DEF Framed
<1>1. todo' = todo /\ unsynced' = unsynced
  BY DEF Change, callVars
<1>2. PICK known \in BOOLEAN, base \in Nat : known = TRUE /\ base = 0
  OBVIOUS
<1>3. ASSUME NEW i \in Places, Inspecting("verified", TRUE, 0, i)
      PROVE  Inspecting("verified", TRUE, 0, i)'
  <2>1. Inspecting("verified", known, base, i)
    BY <1>2, <1>3
  <2>2. Inspecting("verified", known, base, i)'
    BY <1>0, <2>1, InspectionIsDisturbed DEF Verdicts
  <2>3. QED
    BY <1>2, <2>2
<1>4. 0 \in Places
  BY InspectingThen, EmptySeq
<1>5. QED
  BY <1>1, <1>3, <1>4 DEF Verifying

(* A step of the call on its way back from the rename. *)
LEMMA VerifyingKeeps ==
  ASSUME Framed, Bearable, op = "restore", Verifying, result = "none", applied,
         Call, ~Fail, seen \subseteq seen'
  PROVE  \/ Verifying' /\ result' = "none" /\ applied' /\ todo' = Tail(todo)
         \/ RestorationReturned'
<1>0. OnTrash /\ Holding \subseteq seen /\ changes \in Nat /\ changes < 2
  <2>1. Tolerated["restore"] \in Nat
    BY LayoutAssumptions DEF Operations
  <2>2. OnTrash /\ changes \in Nat /\ changes <= Tolerated["restore"]
    BY FramedMeans
  <2>3. QED
    BY <2>1, <2>2 DEF Framed, Bearable
<1>1. PICK known \in BOOLEAN, base \in Nat : known = TRUE /\ base = 0
  OBVIOUS
<1>2. 0 \in Places
  BY InspectingThen, EmptySeq
<1>3. ASSUME NamesStay, Inspecting("verified", TRUE, 0, 0) PROVE Inspecting("verified", TRUE, 0, 0)'
  <2>1. Inspecting("verified", known, base, 0)
    BY <1>1, <1>3
  <2>2. Inspecting("verified", known, base, 0)'
    BY <1>3, <2>1, InspectionStays
  <2>3. QED
    BY <1>1, <2>2
<1>4. CASE todo = Renamed /\ unsynced \subseteq {"source", "content"}
  <2>1. todo' = Tail(todo) /\ todo' = SyncingBoth /\ RestStays /\ entry["source"] = "planned"
    BY <1>4, RestorationMeans, LookingMeans DEF Then
  <2>2. NamesStay /\ unsynced' = unsynced /\ result' = result /\ applied' = applied
    BY <2>1 DEF RestStays, NamesStay, namespaceVars
  <2>3. Said("verified")
    BY <2>1 DEF Said
  <2>4. Inspecting("verified", known, base, 0)
    <3>1. changes \in Nat /\ changes >= base /\ (known => Said("verified"))
      BY <1>0, <1>1, <2>3
    <3>2. QED
      BY <3>1, InspectionStarts
  <2>5. Inspecting("verified", TRUE, 0, 0)'
    BY <1>1, <1>3, <2>2, <2>4
  <2>6. QED
    BY <1>4, <2>1, <2>2, <2>5 DEF Verifying
<1>5. CASE /\ todo = SyncingBoth /\ unsynced \subseteq {"source", "content"}
           /\ Inspecting("verified", TRUE, 0, 0)
  <2>1. /\ todo' = Tail(todo) /\ todo' = SyncingSource /\ unsynced' = unsynced \ {"content"}
        /\ UNCHANGED <<place, loose, entry, op, at, result, applied, changes>>
    BY <1>5, RestorationMeans, SyncMeans DEF Then
  <2>2. Inspecting("verified", TRUE, 0, 0)'
    BY <1>3, <1>5, <2>1 DEF NamesStay
  <2>3. QED
    BY <1>5, <2>1, <2>2 DEF Verifying
<1>6. CASE /\ todo = SyncingSource /\ unsynced \subseteq {"source"}
           /\ Inspecting("verified", TRUE, 0, 0)
  <2>1. /\ todo' = Tail(todo) /\ todo' = Left(0) \o Concluding("verified")
        /\ unsynced' = unsynced \ {"source"}
        /\ UNCHANGED <<place, loose, entry, op, at, result, applied, changes>>
    BY <1>6, RestorationMeans, SyncMeans DEF Then
  <2>2. Inspecting("verified", TRUE, 0, 0)' /\ unsynced' = {}
    BY <1>3, <1>6, <2>1 DEF NamesStay
  <2>3. QED
    BY <1>2, <2>1, <2>2 DEF Verifying
<1>7. ASSUME unsynced = {}, NEW i \in Places, todo = Left(i) \o Concluding("verified"),
             Inspecting("verified", TRUE, 0, i)
      PROVE  \/ Verifying' /\ result' = "none" /\ applied' /\ todo' = Tail(todo)
             \/ RestorationReturned'
  <2> PICK rest : rest = Concluding("verified")
    OBVIOUS
  <2>1. Then(rest, <<"conclude", "verified">>, <<>>)
    BY ConcludingMeans DEF Verdicts
  <2>2. Inspecting("verified", known, base, i)
    BY <1>1, <1>7
  <2>3. CASE i # Len(Topology)
    <3>1. /\ todo' = Left(i + 1) \o rest /\ RestStays /\ i + 1 \in Places
          /\ Inspecting("verified", known, base, i + 1)'
      BY <1>7, <2>1, <2>2, <2>3, InspectionStep DEF Then
    <3>2. todo' = Tail(todo)
      BY <1>7, <2>1, <2>3, <3>1, InspectionMeans DEF Then
    <3>3. unsynced' = {} /\ result' = "none" /\ applied'
      BY <1>7, <3>1 DEF RestStays, namespaceVars
    <3>4. Inspecting("verified", TRUE, 0, i + 1)'
      BY <1>1, <3>1
    <3>5. QED
      BY <3>1, <3>2, <3>3, <3>4 DEF Verifying
  <2>4. CASE i = Len(Topology)
    <3>1. todo = rest
      BY <1>7, <2>1, <2>4, InspectionMeans DEF Then
    <3>2. /\ todo' = <<>> /\ result' = "verified"
          /\ UNCHANGED <<namespaceVars, op, applied, changes>>
      BY <2>1, <3>1, ConcludeMeans DEF Then
    <3>3. "verified" \in seen \/ changes >= base + 2
      BY <1>0, <1>1, <2>2, <2>4, InspectionEnds DEF Verdicts
    <3>4. "verified" \in seen'
      BY <1>0, <1>1, <3>3
    <3>5. QED
      BY <1>7, <3>2, <3>4 DEF RestorationReturned, namespaceVars
  <2>5. QED
    BY <2>3, <2>4
<1>8. QED
  BY <1>4, <1>5, <1>6, <1>7 DEF Verifying

LEMMA RestoringKeeps ==
  ASSUME Framed, Bearable, op = "restore", Restoring, Call \/ Change, seen \subseteq seen'
  PROVE  Restoring'
<1>1. ~RestorationReturned
  BY NothingLeft DEF RestorationReturned
<1>2. CASE Bound
  BY <1>2, BoundKeeps DEF Restoring, Bound
<1>3. CASE result = "none" /\ applied /\ ~Renames(todo) /\ Verifying
  <2>1. todo \in Seq(AnyStep) /\ todo # <<>> /\ ~Renames(Tail(todo))
    BY <1>3, VerifyingMeans, RenamesNoMore
  <2>2. CASE Change
    <3>1. todo' = todo /\ result' = result /\ applied' = applied
      BY <2>2 DEF Change, callVars
    <3>2. Verifying'
      BY <1>3, <2>2, VerifyingChanges
    <3>3. ~Renames(todo)'
      BY <1>3, <3>1 DEF Renames
    <3>4. QED
      BY <1>3, <3>1, <3>2, <3>3 DEF Restoring, Verifying
  <2>3. CASE Fail
    BY <1>3, <2>3, FailMeans DEF Failed, Restoring, RestorationReturned
  <2>4. CASE Call /\ ~Fail
    <3>1. CASE RestorationReturned'
      BY <3>1 DEF Restoring
    <3>2. CASE Verifying' /\ result' = "none" /\ applied' /\ todo' = Tail(todo)
      <4>1. ~Renames(todo)'
        BY <2>1, <3>2 DEF Renames
      <4>2. QED
        BY <3>2, <4>1 DEF Restoring, Verifying
    <3>3. QED
      BY <1>3, <2>4, <3>1, <3>2, VerifyingKeeps
  <2>5. QED
    BY <2>2, <2>3, <2>4
<1>4. QED
  BY <1>1, <1>2, <1>3, RestoringMeans

(* Where the call is when it renames. *)
LEMMA NoRenameHere ==
  ASSUME NEW i \in Places, NEW rest \in Seq(AnyStep), NEW s, NEW more,
         Then(rest, s, more), s # <<"rename", "content">>, todo = Left(i) \o rest
  PROVE  ~At(<<"rename", "content">>)
<1>1. CASE i = Len(Topology)
  BY <1>1, InspectionMeans DEF Then, At
<1>2. CASE i # Len(Topology)
  <2>1. PICK v, x : Topology[i + 1] = <<v, x>> /\ v \in {"private", "child"}
    BY <1>2, TopologyVerbs
  <2>2. QED
    BY <1>2, <2>1, InspectionMeans DEF At
<1>3. QED
  BY <1>1, <1>2

LEMMA RenameKeeps ==
  ASSUME Restoring, Rename
  PROVE  Restoring'
<1>1. At(<<"rename", "content">>) /\ todo # <<>> /\ Head(todo)[1] = "rename"
  BY DEF Rename, At
<1>2. ~RestorationReturned
  BY <1>1 DEF RestorationReturned
<1>3. ~(result = "none" /\ applied /\ ~Renames(todo) /\ Verifying)
  BY <1>1, VerifyingMeans, RenamesNoMore
<1>4. todo = Renaming /\ result = "none" /\ ~applied
  <2>1. ASSUME NEW i \in Places, todo = Left(i) \o Moving PROVE FALSE
    <3>1. Then(Moving, <<"present", "content">>, Renaming) /\ Moving \in Seq(AnyStep)
      BY RestorationMeans DEF Then
    <3>2. <<"present", "content">> # <<"rename", "content">>
      OBVIOUS
    <3>3. QED
      BY <1>1, <2>1, <3>1, <3>2, NoRenameHere
  <2>2. QED
    BY <1>2, <1>3, <2>1, RestoringMeans DEF Bound
<1>5. Tail(todo) = Renamed /\ Renamed # <<>>
  BY <1>4, RestorationMeans DEF Then
<1>6. CASE todo' # Renamed
  <2>1. todo' = <<>> /\ result' \in {"not_applied", "indeterminate"}
        /\ (result' = "not_applied" => applied' = applied)
    BY <1>5, <1>6 DEF Rename, Return
  <2>2. QED
    BY <1>4, <2>1 DEF Restoring, RestorationReturned
<1>7. CASE Apply /\ todo' = Tail(todo) /\ UNCHANGED result
  <2>1. ~Renames(todo)'
    BY <1>5, <1>7, RenamedOnce DEF Renames
  <2>2. Verifying' /\ applied' /\ result' = "none"
    BY <1>4, <1>5, <1>7 DEF Apply, Verifying
  <2>3. QED
    BY <2>1, <2>2 DEF Restoring, Verifying
<1>8. QED
  BY <1>5, <1>6, <1>7 DEF Rename, Return

-----------------------------------------------------------------------------
(* The probe for a source: what is left of it. *)

LEMMA PathIsOfDirectories ==
  /\ Path \in Seq(Directories) /\ Len(Path) \in Nat \ {0}
  /\ \A i \in 1..Len(Path) : Path[i] \in Directories
  /\ Parent \in Directories
<1>1. Path \in Seq(DOMAIN Planned) /\ Path # <<>> /\ DOMAIN Planned \subseteq Directories
  BY LayoutAssumptions DEF Directories
<1>2. Path \in Seq(Directories) /\ Len(Path) \in Nat \ {0}
  BY <1>1, SeqMonotonic, LenProperties, EmptySeq
<1>3. \A i \in 1..Len(Path) : Path[i] \in Directories
  BY <1>2, ElementOfSeq
<1>4. Len(Path) \in 1..Len(Path)
  BY <1>2
<1>5. QED
  BY <1>2, <1>3, <1>4 DEF Parent

LEMMA OnwardMeans ==
  ASSUME NEW rest \in Seq(AnyStep), NEW i \in 0..Len(Path)
  PROVE  /\ Onward(i, rest) \in Seq(AnyStep)
         /\ i = Len(Path) => Then(Onward(i, rest), <<"compare", Parent>>, rest)
         /\ i # Len(Path) => Then(Onward(i, rest), <<"walk", Path[i + 1]>>, Onward(i + 1, rest))
<1> PICK w, t, l : /\ w = Each("walk", Path) /\ t = One("compare", Parent) \o rest
                   /\ l = SubSeq(w, i + 1, Len(Path))
  OBVIOUS
<1>1. Then(t, <<"compare", Parent>>, rest)
  <2>1. Parent \in Directories \cup Entries \cup Verdicts \cup {Root} /\ "compare" \in Verbs
    BY PathIsOfDirectories DEF Verbs
  <2>2. QED
    BY <2>1, OneMeans DEF Then
<1>2. /\ w \in Seq(AnyStep) /\ Len(w) = Len(Path) /\ Len(Path) \in Nat
      /\ \A j \in 1..Len(Path) : w[j] = <<"walk", Path[j]>>
  BY PathIsOfDirectories, EachMeans DEF Verbs
<1>3. l \in Seq(AnyStep)
  BY <1>2, SubSeqProperties, ElementOfSeq
<1>4. Onward(i, rest) = l \o t
  BY DEF Onward
<1>5. Onward(i, rest) \in Seq(AnyStep)
  BY <1>1, <1>3, <1>4, ConcatProperties DEF Then
<1>6. CASE i = Len(Path)
  <2>1. l = <<>>
    BY <1>2, <1>6, SubSeqEmpty
  <2>2. l \o t = t
    BY <1>1, <2>1, ConcatEmptySeq DEF Then
  <2>3. QED
    BY <1>1, <1>4, <1>5, <1>6, <2>2
<1>7. CASE i # Len(Path)
  <2>1. i + 1 \in 1 .. Len(w) /\ Len(w) \in i + 1 .. Len(w)
    BY <1>2, <1>7
  <2>2. Head(l) = w[i + 1] /\ Tail(l) = SubSeq(w, (i + 1) + 1, Len(Path))
    <3>1. l = SubSeq(w, i + 1, Len(w))
      BY <1>2
    <3>2. Head(l) = w[i + 1] /\ Tail(l) = SubSeq(w, (i + 1) + 1, Len(w))
      BY <1>2, <2>1, <3>1, HeadTailOfSubSeq
    <3>3. QED
      BY <1>2, <3>2
  <2>3. l # <<>>
    <3>1. l = SubSeq(w, i + 1, Len(w))
      BY <1>2
    <3>2. Len(SubSeq(w, i + 1, Len(w))) # 0
      BY <1>2, <2>1
    <3>3. Len(l) # 0
      BY <3>1, <3>2
    <3>4. l # <<>>
      <4>1. Len(<<>>) = 0
        OBVIOUS
      <4>2. QED
        BY <3>3, <4>1, Zenon
    <3>5. QED
      BY <3>4
  <2>4. l \o t # <<>> /\ Head(l \o t) = Head(l) /\ Tail(l \o t) = Tail(l) \o t
    <3>1. t \in Seq(AnyStep)
      BY <1>1 DEF Then
    <3>2. QED
      BY <1>3, <2>3, <3>1, JoinedToFirst, Zenon
  <2>5. Onward(i + 1, rest) = Tail(l) \o t
    BY <2>2 DEF Onward
  <2>6. w[i + 1] = <<"walk", Path[i + 1]>>
    BY <1>2, <2>1
  <2>7. QED
    BY <1>4, <1>5, <1>7, <2>2, <2>4, <2>5, <2>6 DEF Then
<1>8. QED
  BY <1>5, <1>6, <1>7

LEMMA RequalifyMeans ==
  ASSUME NEW rest \in Seq(AnyStep)
  PROVE  Then(Requalify(rest), <<"from", Root>>, Onward(0, rest)) /\ 0 \in 0..Len(Path)
<1> PICK w, t : w = Each("walk", Path) /\ t = One("compare", Parent) \o rest
  OBVIOUS
<1>1. w \in Seq(AnyStep) /\ Len(w) = Len(Path) /\ Len(Path) \in Nat
  BY PathIsOfDirectories, EachMeans DEF Verbs
<1>2. SubSeq(w, 0 + 1, Len(Path)) = w
  BY <1>1, SubSeqFull
<1>3. 0 \in 0..Len(Path)
  BY <1>1
<1>4. Onward(0, rest) = w \o t
  BY <1>2 DEF Onward
<1>5. Onward(0, rest) \in Seq(AnyStep)
  BY <1>3, OnwardMeans
<1>6. Requalify(rest) = One("from", Root) \o Onward(0, rest)
  BY <1>4 DEF Requalify
<1>7. QED
  BY <1>3, <1>5, <1>6, OneMeans DEF Then, Verbs

LEMMA LooksMean ==
  /\ Then(LastLook, <<"absent", "source">>, Concluding("absent"))
  /\ Then(FirstLook, <<"absent", "source">>, Requalify(LastLook))
  /\ Steps("probe_source") = Requalify(FirstLook)
<1>1. Concluding("absent") \in Seq(AnyStep)
  BY ConcludingMeans DEF Then, Verdicts
<1>2. Then(LastLook, <<"absent", "source">>, Concluding("absent"))
  BY <1>1, OneMeans DEF LastLook, Then, Verbs, Entries
<1>3. Requalify(LastLook) \in Seq(AnyStep)
  BY <1>2, RequalifyMeans DEF Then
<1>4. Then(FirstLook, <<"absent", "source">>, Requalify(LastLook))
  BY <1>3, OneMeans DEF FirstLook, Then, Verbs, Entries
<1>5. Steps("probe_source") = ObserveTwice
  BY Zenon DEF Steps
<1>6. ObserveTwice = Requalify(FirstLook)
  BY DEF ObserveTwice, FirstLook, LastLook, Concluding
<1>7. QED
  BY <1>2, <1>4, <1>5, <1>6

(* A step of the walk, its end and the lookup of the source. *)
LEMMA WalkMeans ==
  ASSUME Call, ~Fail, todo # <<>>, NEW v, NEW x, Head(todo) = <<v, x>>,
         v \in {"from", "walk", "compare", "absent"}
  PROVE  /\ todo' = Tail(todo) /\ RestStays
         /\ v = "from" => at' = Root
         /\ v = "walk" => at' \in Directories /\ place[at'] = <<at, Name(x)>>
         /\ v = "compare" => at = Parent /\ at' = at
         /\ v = "absent" => Lookup(x) = "none" /\ at' = at
<1>1. CASE StartWalk
  BY <1>1 DEF StartWalk, Done, At, RestStays
<1>2. CASE Walk
  BY <1>2 DEF Walk, Below, Done, At, RestStays
<1>3. CASE Compare
  BY <1>3 DEF Compare, Done, At, RestStays
<1>4. CASE Absent
  BY <1>4 DEF Absent, Done, At, RestStays
<1>5. ~(Private \/ Child \/ Present \/ Find \/ Sync \/ Conclude)
  BY DEF Private, Child, Present, Done, Find, Sync, Conclude, At
<1>6. QED
  BY <1>1, <1>2, <1>3, <1>4, <1>5 DEF Call

-----------------------------------------------------------------------------
(* What a walk knows. *)

LEMMA WalkingMoves ==
  ASSUME NamesStay, NEW base \in Nat, NEW i \in 0..Len(Path), i # Len(Path),
         at \in IF i = 0 THEN {Root} ELSE Directories,
         at' \in Directories, place[at'] = <<at, Name(Path[i + 1])>>,
         Walking(base, i)
  PROVE  Walking(base, i + 1)'
<1>1. /\ \A way, j : Linked(way, j)' <=> Linked(way, j)
      /\ "absent" \in seen => "absent" \in seen'
      /\ changes' = changes /\ entry' = entry
  BY DEF NamesStay, Linked, Before
<1>2. i \in Nat /\ i + 1 \in 1..Len(Path)
  BY PathIsOfDirectories
<1>3. ASSUME Led(i) PROVE Led(i + 1)'
  <2>1. PICK way \in Ways : at = Before(way, i) /\ \A j \in 1..i : Linked(way, j)
    BY <1>3 DEF Led
  <2> PICK on : on = [way EXCEPT ![i + 1] = at']
    OBVIOUS
  <2>2. on \in Ways /\ on[i + 1] = at' /\ \A j \in 1..Len(Path) : j # i + 1 => on[j] = way[j]
    BY <1>2, <2>1 DEF Ways
  <2>3. at' = Before(on, i + 1)
    BY <1>2, <2>2 DEF Before
  <2>4. Linked(on, i + 1)
    <3>1. Before(on, (i + 1) - 1) = at
      BY <1>2, <2>1, <2>2 DEF Before
    <3>2. QED
      BY <2>2, <3>1 DEF Linked
  <2>5. ASSUME NEW j \in 1..i PROVE Linked(on, j)
    <3>1. j \in 1..Len(Path) /\ j # i + 1 /\ (j - 1 # 0 => j - 1 \in 1..Len(Path) /\ j - 1 # i + 1)
      BY <1>2
    <3>2. on[j] = way[j] /\ Before(on, j - 1) = Before(way, j - 1)
      BY <2>2, <3>1 DEF Before
    <3>3. QED
      BY <2>1, <3>2 DEF Linked
  <2>6. \A j \in 1 .. i + 1 : Linked(on, j)'
    <3>1. ASSUME NEW j \in 1 .. i + 1 PROVE Linked(on, j)
      <4>1. j \in 1..i \/ j = i + 1
        BY <1>2
      <4>2. QED
        BY <2>4, <2>5, <4>1
    <3>2. QED
      BY <1>1, <3>1
  <2>7. QED
    BY <2>2, <2>3, <2>6 DEF Led, Before
<1>4. ASSUME Misled(i) PROVE Misled(i + 1)'
  <2>1. SUFFICES ASSUME NEW way \in Ways, Leading(way, i + 1)', entry["source"] = "none"
                 PROVE  "absent" \in seen
    BY <1>1 DEF Misled
  <2>2. /\ at' = way[i + 1] /\ way[Len(Path)] = Parent
        /\ \A j \in i + 2 .. Len(Path) : Linked(way, j)
    BY <1>1, <1>2, <2>1 DEF Leading, Before
  <2> PICK on : on = IF i = 0 THEN way ELSE [way EXCEPT ![i] = at]
    OBVIOUS
  <2>3. /\ on \in Ways /\ at = Before(on, i)
        /\ \A j \in i + 1 .. Len(Path) : on[j] = way[j]
    BY <1>2, <2>1 DEF Ways, Before
  <2>4. ASSUME NEW j \in i + 1 .. Len(Path) PROVE Linked(on, j)
    <3>1. CASE j = i + 1
      <4>1. on[j] = at' /\ Before(on, j - 1) = at
        BY <1>2, <2>2, <2>3, <3>1
      <4>2. QED
        BY <3>1, <4>1 DEF Linked
    <3>2. CASE j # i + 1
      <4>1. j \in i + 2 .. Len(Path) /\ j - 1 \in i + 1 .. Len(Path) /\ j - 1 # 0
        BY <1>2, <3>2
      <4>2. on[j] = way[j] /\ Before(on, j - 1) = Before(way, j - 1)
        BY <2>3, <4>1 DEF Before
      <4>3. QED
        BY <2>2, <4>1, <4>2 DEF Linked
    <3>3. QED
      BY <3>1, <3>2
  <2>5. on[Len(Path)] = Parent
    <3>1. Len(Path) \in i + 1 .. Len(Path)
      BY <1>2
    <3>2. QED
      BY <2>2, <2>3, <3>1
  <2>6. Leading(on, i)
    BY <2>3, <2>4, <2>5 DEF Leading
  <2>7. QED
    BY <1>4, <2>1, <2>3, <2>6 DEF Misled
<1>5. QED
  BY <1>1, <1>3, <1>4 DEF Walking

(* Without a step of the walk. *)
LEMMA WalkingStays ==
  ASSUME NamesStay, at' = at, NEW base, NEW i, Walking(base, i)
  PROVE  Walking(base, i)'
<1>1. /\ \A way, j : Linked(way, j)' <=> Linked(way, j)
      /\ \A way : Before(way, i)' = Before(way, i)
      /\ "absent" \in seen => "absent" \in seen'
      /\ changes' = changes /\ entry' = entry
  BY DEF NamesStay, Linked, Before
<1>2. Led(i) => Led(i)'
  BY <1>1 DEF Led
<1>3. Misled(i) => Misled(i)'
  BY <1>1 DEF Misled, Leading
<1>4. QED
  BY <1>1, <1>2, <1>3 DEF Walking

(* A directory that is moved was on the first part of the way only. *)
LEMMA WalkingIsDisturbed ==
  ASSUME op = "probe_source", Holding \subseteq seen, DOMAIN place = Directories,
         changes \in Nat, NEW base \in Nat, NEW i \in 0..Len(Path),
         Walking(base, i), Change, seen \subseteq seen'
  PROVE  Walking(base, i)'
<1>1. /\ changes' = changes + 1 /\ op' = op /\ at' = at
      /\ "absent" \in seen => "absent" \in seen'
  BY DEF Change, callVars
<1>2. i \in Nat /\ Len(Path) \in Nat \ {0} /\ i <= Len(Path)
  BY PathIsOfDirectories
<1>3. ASSUME Led(i), place' = place PROVE Led(i)'
  BY <1>1, <1>3 DEF Led, Linked, Before
<1>4. ASSUME Led(i), NEW x \in Directories, \E p : place' = [place EXCEPT ![x] = p],
             entry' = entry, NoLoops'
      PROVE  Led(i)' \/ Misled(i)'
  <2>1. PICK way \in Ways : at = Before(way, i) /\ \A j \in 1..i : Linked(way, j)
    BY <1>4 DEF Led
  <2>2. \A d \in Directories \ {x} : place'[d] = place[d]
    BY <1>4
  <2>3. \A j \in 1..Len(Path) : way[j] \in Directories
    BY <2>1 DEF Ways
  <2>4. CASE \A j \in 1..i : way[j] # x
    <3>1. \A j \in 1..i : Linked(way, j)'
      <4>1. SUFFICES ASSUME NEW j \in 1..i PROVE Linked(way, j)'
        OBVIOUS
      <4>2. j \in 1..Len(Path) /\ way[j] # x
        BY <1>2, <2>4
      <4>3. place'[way[j]] = place[way[j]]
        BY <2>2, <2>3, <4>2
      <4>4. QED
        BY <2>1, <4>3 DEF Linked, Before
    <3>2. QED
      BY <1>1, <2>1, <3>1 DEF Led, Before
  <2>5. CASE \E j \in 1..i : way[j] = x
    <3>1. PICK j \in 1..i : way[j] = x
      BY <2>5
    <3>2. SUFFICES ASSUME NEW on \in Ways, Leading(on, i)', entry["source"] = "none"
                   PROVE  "absent" \in seen
      BY <1>1, <1>4 DEF Misled
    <3>3. /\ on[i] = way[i] /\ on[Len(Path)] = Parent
          /\ \A k \in i + 1 .. Len(Path) : place'[on[k]] = <<on[k - 1], Name(Path[k])>>
      <4>1. i # 0
        BY <1>2, <3>1
      <4>2. /\ at' = Before(on, i)' /\ on[Len(Path)] = Parent
            /\ \A k \in i + 1 .. Len(Path) : Linked(on, k)'
        BY <3>2 DEF Leading
      <4>3. on[i] = way[i]
        BY <1>1, <2>1, <4>1, <4>2 DEF Before
      <4>4. ASSUME NEW k \in i + 1 .. Len(Path)
            PROVE  place'[on[k]] = <<on[k - 1], Name(Path[k])>>
        <5>1. k - 1 # 0
          BY <1>2, <4>1
        <5>2. place'[on[k]] = <<Before(on, k - 1), Name(Path[k])>>
          BY <4>2 DEF Linked, Before
        <5>3. QED
          BY <5>1, <5>2 DEF Before
      <4>5. QED
        BY <4>2, <4>3, <4>4
    <3> PICK u : u = [k \in 1..Len(Path) |-> IF k <= i THEN way[k] ELSE on[k]]
      OBVIOUS
    <3>4. /\ u \in Ways
          /\ \A k \in 1..i : u[k] = way[k]
          /\ \A k \in i .. Len(Path) : k # 0 => u[k] = on[k]
      BY <1>2, <2>1, <3>2, <3>3 DEF Ways
    <3>5. ASSUME NEW k \in 1..i PROVE Linked(u, k)
      <4>1. k \in 1..i /\ (k - 1 # 0 => k - 1 \in 1..i)
        BY <1>2
      <4>2. u[k] = way[k] /\ Before(u, k - 1) = Before(way, k - 1)
        BY <3>4, <4>1 DEF Before
      <4>3. QED
        BY <2>1, <4>2 DEF Linked
    <3>6. ASSUME NEW k \in i + 1 .. Len(Path)
          PROVE  place'[u[k]] = <<u[k - 1], Name(Path[k])>> /\ k \in 1..Len(Path)
      <4>1. k \in i .. Len(Path) /\ k - 1 \in i .. Len(Path) /\ k # 0 /\ k - 1 # 0
        BY <1>2, <3>1
      <4>2. QED
        BY <3>3, <3>4, <4>1, <1>2
    <3>7. ASSUME NEW k \in i + 1 .. Len(Path) PROVE u[k] # x
      <4>1. SUFFICES ASSUME u[k] = x PROVE FALSE
        OBVIOUS
      <4> PICK ds : ds = {u[m] : m \in j..k}
        OBVIOUS
      <4>2. j \in Nat /\ k \in Nat /\ 1 <= j /\ j <= i /\ i < k /\ k <= Len(Path)
        BY <1>2, <3>1
      <4>3. ds \in (SUBSET Directories) \ {{}}
        <5>1. \A m \in j..k : m \in 1..Len(Path)
          BY <1>2, <4>2
        <5>2. \A m \in j..k : u[m] \in Directories
          BY <3>4, <5>1 DEF Ways
        <5>3. u[j] \in ds
          BY <4>2
        <5>4. ds \subseteq Directories
          BY <5>2
        <5>5. QED
          BY <5>3, <5>4
      <4>4. ASSUME NEW m \in j + 1 .. k, u[m] # x \/ m > i
            PROVE  place'[u[m]] \in ds \X {Name(e) : e \in DOMAIN Planned}
        <5>1. m \in 1..Len(Path) /\ m - 1 \in j..k /\ m - 1 # 0
          BY <1>2, <4>2
        <5>2. Path[m] \in DOMAIN Planned
          <6>1. Path[m] \in OnPath
            BY <5>1 DEF OnPath
          <6>2. QED
            BY <6>1, LayoutAssumptions
        <5>3. u[m - 1] \in ds
          BY <5>1
        <5>4. place'[u[m]] = <<u[m - 1], Name(Path[m])>>
          <6>1. CASE m > i
            <7>1. m \in i + 1 .. Len(Path)
              BY <1>2, <4>2, <6>1
            <7>2. QED
              BY <3>6, <7>1
          <6>2. CASE m <= i
            <7>1. m \in 1..i
              BY <5>1, <6>2, <1>2
            <7>2. place[u[m]] = <<u[m - 1], Name(Path[m])>>
              BY <3>5, <5>1, <7>1 DEF Linked, Before
            <7>3. u[m] # x /\ u[m] \in Directories
              BY <1>2, <3>4, <4>4, <5>1, <6>2 DEF Ways
            <7>4. QED
              BY <2>2, <7>2, <7>3
          <6>3. QED
            BY <1>2, <5>1, <6>1, <6>2
        <5>5. QED
          BY <5>2, <5>3, <5>4
      <4>5. place'[x] \in ds \X {Name(e) : e \in DOMAIN Planned}
        <5>1. k \in j + 1 .. k /\ k > i
          BY <4>2
        <5>2. QED
          BY <4>1, <4>4, <5>1
      <4>6. ASSUME NEW d \in ds PROVE place'[d] \in ds \X {Name(e) : e \in DOMAIN Planned}
        <5>1. PICK m \in j..k : d = u[m]
          OBVIOUS
        <5>2. CASE d = x
          BY <4>5, <5>2
        <5>3. CASE d # x
          <6>1. m # j
            BY <3>1, <3>4, <5>1, <5>3
          <6>2. m \in j + 1 .. k
            BY <4>2, <5>1, <6>1
          <6>3. QED
            BY <4>4, <5>1, <5>3, <6>2
        <5>4. QED
          BY <5>2, <5>3
      <4>7. QED
        BY <1>4, <4>3, <4>6 DEF NoLoops
    <3>8. \A k \in 1..Len(Path) : Linked(u, k)
      <4>1. SUFFICES ASSUME NEW k \in i + 1 .. Len(Path) PROVE Linked(u, k)
        BY <1>2, <3>5
      <4>2. u[k] \in Directories /\ u[k] # x
        BY <3>4, <3>6, <3>7 DEF Ways
      <4>3. place[u[k]] = <<u[k - 1], Name(Path[k])>>
        BY <2>2, <3>6, <4>2
      <4>4. k - 1 # 0
        BY <1>2, <3>1
      <4>5. QED
        BY <4>3, <4>4 DEF Linked, Before
    <3>9. u[Len(Path)] = Parent
      BY <1>2, <3>3, <3>4
    <3>10. ParentInPlace
      BY <3>4, <3>8, <3>9 DEF ParentInPlace
    <3>11. "absent" \in Holding
      BY <3>2, <3>10 DEF Holding, Claim, Verdicts
    <3>12. QED
      BY <3>11
  <2>6. QED
    BY <2>4, <2>5
<1>5. Led(i) => Led(i)' \/ Misled(i)'
  <2>1. CASE Relocate
    <3>1. PICK x \in Directories : /\ \E p : place' = [place EXCEPT ![x] = p]
                                   /\ entry' = entry /\ NoLoops'
      BY <2>1 DEF Relocate
    <3>2. QED
      BY <1>4, <3>1
  <2>2. CASE Loosen \/ Replace
    BY <1>3, <2>2 DEF Loosen, Replace
  <2>3. QED
    BY <2>1, <2>2 DEF Change
<1>6. QED
  BY <1>1, <1>5 DEF Walking

(* The parent was reached, and the source is not in it. *)
LEMMA WalkingEnds ==
  ASSUME op = "probe_source", Holding \subseteq seen, changes \in Nat, NEW base \in Nat,
         at = Parent, entry["source"] = "none", Walking(base, Len(Path))
  PROVE  "absent" \in seen \/ changes >= base + 2
<1>1. Len(Path) \in Nat \ {0} /\ Len(Path) \in 1..Len(Path) /\ Parent \in Directories
  BY PathIsOfDirectories
<1>2. ASSUME Led(Len(Path)) PROVE "absent" \in seen
  <2>1. PICK way \in Ways : at = Before(way, Len(Path)) /\ \A j \in 1..Len(Path) : Linked(way, j)
    BY <1>2 DEF Led
  <2>2. ParentInPlace
    BY <1>1, <2>1 DEF ParentInPlace, Before
  <2>3. "absent" \in Holding
    BY <2>2 DEF Holding, Claim, Verdicts
  <2>4. QED
    BY <2>3
<1>3. ASSUME Misled(Len(Path)) PROVE "absent" \in seen
  <2> PICK way : way = [j \in 1..Len(Path) |-> Parent]
    OBVIOUS
  <2>1. way \in Ways /\ way[Len(Path)] = Parent
    BY <1>1 DEF Ways
  <2>2. \A j \in Len(Path) + 1 .. Len(Path) : Linked(way, j)
    BY <1>1
  <2>3. Leading(way, Len(Path))
    BY <1>1, <2>1, <2>2 DEF Leading, Before
  <2>4. QED
    BY <1>3, <2>1, <2>3 DEF Misled
<1>4. QED
  BY <1>2, <1>3 DEF Walking

-----------------------------------------------------------------------------
(* The probe for a source keeps its part of the invariant. *)

LEMMA ObservingStarts ==
  ASSUME NamesStay, at' = Root, NEW base \in Nat,
         "absent" \in seen \/ changes >= base
  PROVE  Walking(base, 0)' /\ at' \in IF 0 = 0 THEN {Root} ELSE Directories
<1>1. "absent" \in seen' \/ changes' >= base
  BY DEF NamesStay
<1>2. Led(0)'
  <2>1. [j \in 1..Len(Path) |-> Parent] \in Ways
    BY PathIsOfDirectories DEF Ways
  <2>2. \A way : Before(way, 0) = Root
    BY DEF Before
  <2>3. QED
    BY <2>1, <2>2 DEF Led
<1>3. QED
  BY <1>1, <1>2 DEF Walking

LEMMA ObservingChanges ==
  ASSUME Framed, op = "probe_source", NEW base \in Nat, NEW rest,
         Observing(rest, base), Change, seen \subseteq seen'
  PROVE  Observing(rest, base)'
<1>1. /\ Holding \subseteq seen /\ DOMAIN place = Directories /\ changes \in Nat
  BY FramedMeans DEF Framed
<1>2. /\ todo' = todo /\ at' = at /\ changes' = changes + 1
      /\ "absent" \in seen => "absent" \in seen'
  BY DEF Change, callVars
<1>3. \A i \in 0..Len(Path) : Walking(base, i) => Walking(base, i)'
  BY <1>1, WalkingIsDisturbed
<1>4. Len(Path) \in 0..Len(Path)
  BY PathIsOfDirectories
<1>5. QED
  BY <1>1, <1>2, <1>3, <1>4 DEF Observing

(* A step on the way to the lookup of the source, or the lookup. *)
LEMMA ObservingKeeps ==
  ASSUME Framed, op = "probe_source", NEW base \in Nat, NEW rest, NEW next,
         Then(rest, <<"absent", "source">>, next),
         Observing(rest, base), Call, ~Fail, seen \subseteq seen'
  PROVE  /\ RestStays
         /\ \/ Observing(rest, base)'
            \/ todo' = next /\ ("absent" \in seen \/ changes >= base + 2)
<1>0. /\ Holding \subseteq seen /\ changes \in Nat /\ rest \in Seq(AnyStep)
      /\ Len(Path) \in Nat \ {0}
  BY FramedMeans, PathIsOfDirectories DEF Framed, Then
<1>1. ASSUME RestStays PROVE NamesStay
  BY <1>1 DEF RestStays, NamesStay, namespaceVars
<1>2. CASE todo = Requalify(rest) /\ ("absent" \in seen \/ changes >= base)
  <2>1. /\ todo # <<>> /\ Head(todo) = <<"from", Root>> /\ Tail(todo) = Onward(0, rest)
        /\ 0 \in 0..Len(Path)
    BY <1>0, <1>2, RequalifyMeans DEF Then
  <2>2. todo' = Onward(0, rest) /\ RestStays /\ at' = Root
    BY <2>1, WalkMeans
  <2>3. Walking(base, 0)' /\ at' \in IF 0 = 0 THEN {Root} ELSE Directories
    BY <1>1, <1>2, <2>2, ObservingStarts
  <2>4. QED
    BY <2>1, <2>2, <2>3 DEF Observing
<1>3. ASSUME NEW i \in 0..Len(Path), todo = Onward(i, rest), Walking(base, i),
             at \in IF i = 0 THEN {Root} ELSE Directories
      PROVE  RestStays /\ Observing(rest, base)'
  <2>1. CASE i = Len(Path)
    <3>1. todo # <<>> /\ Head(todo) = <<"compare", Parent>> /\ Tail(todo) = rest
      BY <1>0, <1>3, <2>1, OnwardMeans DEF Then
    <3>2. todo' = rest /\ RestStays /\ at = Parent /\ at' = at
      BY <3>1, WalkMeans
    <3>3. Walking(base, i)'
      BY <1>1, <1>3, <3>2, WalkingStays
    <3>4. QED
      BY <2>1, <3>2, <3>3 DEF Observing
  <2>2. CASE i # Len(Path)
    <3>1. /\ todo # <<>> /\ Head(todo) = <<"walk", Path[i + 1]>>
          /\ Tail(todo) = Onward(i + 1, rest)
      BY <1>0, <1>3, <2>2, OnwardMeans DEF Then
    <3>2. /\ todo' = Onward(i + 1, rest) /\ RestStays
          /\ at' \in Directories /\ place[at'] = <<at, Name(Path[i + 1])>>
      BY <3>1, WalkMeans
    <3>3. i + 1 \in 0..Len(Path) /\ i + 1 # 0
      BY <1>0, <2>2
    <3>4. Walking(base, i + 1)'
      BY <1>1, <1>3, <2>2, <3>2, WalkingMoves
    <3>5. QED
      BY <3>2, <3>3, <3>4 DEF Observing
  <2>3. QED
    BY <2>1, <2>2
<1>4. CASE todo = rest /\ at = Parent /\ Walking(base, Len(Path))
  <2>1. todo # <<>> /\ Head(todo) = <<"absent", "source">> /\ Tail(todo) = next
    BY <1>4 DEF Then
  <2>2. todo' = next /\ RestStays /\ Lookup("source") = "none"
    BY <2>1, WalkMeans
  <2>3. entry["source"] = "none"
    BY <1>4, <2>2 DEF Lookup
  <2>4. "absent" \in seen \/ changes >= base + 2
    BY <1>0, <1>4, <2>3, WalkingEnds
  <2>5. QED
    BY <2>2, <2>4
<1>5. QED
  BY <1>2, <1>3, <1>4 DEF Observing

LEMMA LookingKeeps ==
  ASSUME Framed, Bearable, op = "probe_source", Looking, Call \/ Change, seen \subseteq seen'
  PROVE  Looking'
<1>0. /\ changes \in Nat /\ changes < 4
  <2>1. Tolerated["probe_source"] \in Nat
    BY LayoutAssumptions DEF Operations
  <2>2. changes \in Nat /\ changes <= Tolerated["probe_source"]
    BY FramedMeans
  <2>3. QED
    BY <2>1, <2>2 DEF Bearable
<1> PICK none \in Nat, two \in Nat : none = 0 /\ two = 2
  OBVIOUS
<1>1. /\ ~LookingReturned /\ result = "none"
      /\ \/ Observing(FirstLook, none) \/ Observing(LastLook, two)
         \/ todo = Concluding("absent") /\ "absent" \in seen
  BY NothingLeft DEF Looking, LookingReturned
<1>2. CASE Fail
  BY <1>2, FailMeans DEF Failed, Looking, LookingReturned
<1>3. CASE Change
  <2>1. todo' = todo /\ result' = result
    BY <1>3 DEF Change, callVars
  <2>2. Observing(FirstLook, none) => Observing(FirstLook, none)'
    BY <1>3, ObservingChanges
  <2>3. Observing(LastLook, two) => Observing(LastLook, two)'
    BY <1>3, ObservingChanges
  <2>4. QED
    BY <1>1, <2>1, <2>2, <2>3 DEF Looking
<1>4. CASE Call /\ ~Fail /\ Observing(FirstLook, none)
  <2>1. /\ RestStays
        /\ \/ Observing(FirstLook, none)'
           \/ todo' = Requalify(LastLook) /\ ("absent" \in seen \/ changes >= none + 2)
    BY <1>4, LooksMean, ObservingKeeps
  <2>2. result' = "none" /\ changes' = changes
    BY <1>1, <2>1 DEF RestStays
  <2>3. ASSUME todo' = Requalify(LastLook), "absent" \in seen \/ changes >= none + 2
        PROVE  Observing(LastLook, two)'
    <3>1. "absent" \in seen' \/ changes' >= two
      BY <1>0, <2>2, <2>3
    <3>2. QED
      BY <2>3, <3>1 DEF Observing
  <2>4. QED
    BY <2>1, <2>2, <2>3 DEF Looking
<1>5. CASE Call /\ ~Fail /\ Observing(LastLook, two)
  <2>1. /\ RestStays
        /\ \/ Observing(LastLook, two)'
           \/ todo' = Concluding("absent") /\ ("absent" \in seen \/ changes >= two + 2)
    BY <1>5, LooksMean, ObservingKeeps
  <2>2. result' = "none"
    BY <1>1, <2>1 DEF RestStays
  <2>3. "absent" \in seen \/ changes >= two + 2 => "absent" \in seen'
    BY <1>0
  <2>4. QED
    BY <2>1, <2>2, <2>3 DEF Looking
<1>6. CASE Call /\ ~Fail /\ todo = Concluding("absent") /\ "absent" \in seen
  <2>1. todo # <<>> /\ Head(todo) = <<"conclude", "absent">>
    BY <1>6, ConcludingMeans DEF Then, Verdicts
  <2>2. todo' = <<>> /\ result' = "absent"
    BY <1>6, <2>1, ConcludeMeans
  <2>3. QED
    BY <1>6, <2>2 DEF Looking, LookingReturned
<1>7. QED
  BY <1>1, <1>2, <1>3, <1>4, <1>5, <1>6

-----------------------------------------------------------------------------
(* Only a restoration renames. *)

LEMMA RenamesOnlyRestoring ==
  ASSUME Rename, op \in Operations,
         op = "probe_source" => Looking,
         op = "qualify" => Qualifying,
         op = "probe_record" => Probing("record"),
         op = "probe_content" => Probing("content")
  PROVE  op = "restore"
<1>1. At(<<"rename", "content">>) /\ todo # <<>>
  BY DEF Rename, At
<1>2. /\ Then(Concluding("present"), <<"conclude", "present">>, <<>>)
      /\ Then(Concluding("absent"), <<"conclude", "absent">>, <<>>)
  BY ConcludingMeans DEF Verdicts
<1>3. ~Looking
  <2>1. ASSUME NEW rest, NEW next, Then(rest, <<"absent", "source">>, next), NEW base
        PROVE  ~Observing(rest, base)
    <3>1. rest \in Seq(AnyStep) /\ todo # rest
      BY <1>1, <2>1 DEF Then, At
    <3>2. todo # Requalify(rest)
      <4>1. Head(Requalify(rest)) = <<"from", Root>>
        BY <3>1, RequalifyMeans DEF Then
      <4>2. QED
        BY <1>1, <4>1 DEF At
    <3>3. ASSUME NEW i \in 0..Len(Path) PROVE todo # Onward(i, rest)
      <4>1. \/ Head(Onward(i, rest)) = <<"compare", Parent>>
            \/ Head(Onward(i, rest)) = <<"walk", Path[i + 1]>>
        BY <3>1, OnwardMeans DEF Then
      <4>2. QED
        BY <1>1, <4>1 DEF At
    <3>4. QED
      BY <3>1, <3>2, <3>3 DEF Observing
  <2>2. \A base : ~Observing(FirstLook, base) /\ ~Observing(LastLook, base)
    BY <2>1, LooksMean
  <2>3. QED
    BY <1>1, <1>2, <2>2 DEF Looking, LookingReturned, Then, At
<1>4. ~Qualifying
  <2>1. ASSUME NEW i \in Places, todo = Left(i) \o Concluding("present") PROVE FALSE
    <3>1. Concluding("present") \in Seq(AnyStep)
      BY <1>2 DEF Then
    <3>2. <<"conclude", "present">> # <<"rename", "content">>
      OBVIOUS
    <3>3. QED
      BY <1>1, <1>2, <2>1, <3>1, <3>2, NoRenameHere
  <2>2. QED
    BY <1>1, <2>1 DEF Qualifying, Returned
<1>5. ASSUME NEW e \in Entries PROVE ~Probing(e)
  <2>1. ASSUME NEW rest, NEW s, NEW more, Then(rest, s, more),
               s # <<"rename", "content">>, NEW i \in Places
        PROVE  todo # Left(i) \o rest
    BY <1>1, <2>1, NoRenameHere DEF Then
  <2>2. /\ Then(FoundAgain(e), <<"present", e>>, Left(0) \o Concluding("present"))
        /\ Then(LookedTwice(e), <<"find", e>>, Left(0) \o Concluding("absent"))
        /\ Then(LookedOnce(e), <<"find", e>>, Left(0) \o LookedTwice(e))
    BY ProbesMean
  <2>3. /\ <<"present", e>> # <<"rename", "content">> /\ <<"find", e>> # <<"rename", "content">>
        /\ <<"conclude", "present">> # <<"rename", "content">>
        /\ <<"conclude", "absent">> # <<"rename", "content">>
    OBVIOUS
  <2>4. ASSUME NEW i \in Places
        PROVE  /\ todo # Left(i) \o LookedOnce(e) /\ todo # Left(i) \o LookedTwice(e)
               /\ todo # Left(i) \o FoundAgain(e)
               /\ todo # Left(i) \o Concluding("absent") /\ todo # Left(i) \o Concluding("present")
    BY <1>2, <2>1, <2>2, <2>3
  <2>5. QED
    BY <1>1, <2>4 DEF Probing, Returned
<1>6. QED
  BY <1>3, <1>4, <1>5 DEF Operations, Entries

-----------------------------------------------------------------------------
(* The invariant. *)

LEMMA HeldMeans ==
  HeldInv <=> /\ Framed
              /\ op = "probe_source" => Looking
              /\ op = "qualify" => Qualifying
              /\ op = "probe_record" => Probing("record")
              /\ op = "probe_content" => Probing("content")
              /\ op = "restore" => Restoring
BY DEF HeldInv, Framed

LEMMA HeldInit ==
  ASSUME Init
  PROVE  HeldInv
<1>1. Framed
  <2>1. DOMAIN place = Directories /\ entry \in [Entries -> Objects]
    BY DEF Init
  <2>2. op \in Operations /\ Holding \subseteq seen /\ changes = 0 /\ NoLoops
    BY DEF Init
  <2>3. changes \in 0..Tolerated[op]
    BY <2>2, LayoutAssumptions
  <2>4. QED
    BY <2>1, <2>2, <2>3 DEF Framed
<1>2. /\ todo = Steps(op) /\ result = "none" /\ ~applied /\ changes \in Nat /\ changes >= 0
      /\ 0 \in Places
  <2>1. todo = Steps(op) /\ result = "none" /\ changes = 0
    BY DEF Init
  <2>2. ~applied
    BY Zenon DEF Init
  <2>3. 0 \in Places
    BY InspectingThen, EmptySeq
  <2>4. QED
    BY <2>1, <2>2, <2>3
<1>3. ASSUME NEW r, NEW known \in BOOLEAN, known => Said(r)
      PROVE  Inspecting(r, known, 0, 0)
  <2>1. PICK base \in Nat : base = 0
    OBVIOUS
  <2>2. Inspecting(r, known, base, 0)
    BY <1>2, <1>3, <2>1, InspectionStarts
  <2>3. QED
    BY <2>1, <2>2
<1>4. CASE op = "probe_source"
  <2>1. todo = Requalify(FirstLook)
    BY <1>2, <1>4, LooksMean
  <2>2. Looking
    BY <1>2, <2>1 DEF Looking, Observing
  <2>3. QED
    BY <1>1, <1>4, <2>2, HeldMeans
<1>5. CASE op = "qualify"
  <2>1. Said("present")
    BY <1>5 DEF Said
  <2>2. PICK sure \in BOOLEAN : sure = TRUE
    OBVIOUS
  <2>3. Inspecting("present", sure, 0, 0)
    BY <1>3, <2>1
  <2>4. Inspecting("present", TRUE, 0, 0)
    BY <2>2, <2>3
  <2>5. todo = Left(0) \o Concluding("present")
    BY <1>2, <1>5, CallsMean
  <2>6. Qualifying
    BY <1>2, <2>4, <2>5 DEF Qualifying
  <2>7. QED
    BY <1>1, <1>5, <2>6, HeldMeans
<1>6. ASSUME NEW e \in Entries, ProbesFor(e) PROVE Probing(e)
  <2>1. PICK known \in BOOLEAN : known = FALSE
    OBVIOUS
  <2>2. Inspecting("absent", known, 0, 0) /\ Inspecting("present", known, 0, 0)
    BY <1>3, <2>1
  <2>3. Inspecting("absent", FALSE, 0, 0) /\ Inspecting("present", FALSE, 0, 0)
    BY <2>1, <2>2
  <2>4. todo = Left(0) \o LookedOnce(e)
    BY <1>2, <1>6, CallsMean DEF ProbesFor
  <2>5. QED
    BY <1>2, <2>3, <2>4 DEF Probing
<1>7. CASE op \in {"probe_record", "probe_content"}
  <2>1. "record" \in Entries /\ "content" \in Entries
    BY DEF Entries
  <2>2. /\ op = "probe_record" => ProbesFor("record")
        /\ op = "probe_content" => ProbesFor("content")
    BY DEF ProbesFor
  <2>3. /\ op = "probe_record" => Probing("record")
        /\ op = "probe_content" => Probing("content")
    BY <1>6, <2>1, <2>2, Zenon
  <2>4. QED
    BY <1>1, <1>7, <2>3, HeldMeans
<1>8. CASE op = "restore"
  <2>1. Restoring
    BY <1>2, <1>8, CallsMean DEF Restoring
  <2>2. QED
    BY <1>1, <1>8, <2>1, HeldMeans
<1>9. QED
  BY <1>1, <1>4, <1>5, <1>7, <1>8 DEF Framed, Operations

LEMMA HeldNext ==
  ASSUME Bearable, HeldInv, Next
  PROVE  HeldInv'
<1>1. /\ Framed /\ Framed' /\ op' = op /\ op \in Operations
  BY HeldMeans, StepIsFramed DEF Framed
<1>2. ASSUME op = "restore" => Restoring', op = "probe_source" => Looking',
             op = "qualify" => Qualifying', op = "probe_record" => Probing("record")',
             op = "probe_content" => Probing("content")'
      PROVE  HeldInv'
  BY <1>1, <1>2 DEF HeldInv, Framed
<1>3. CASE (Call \/ Change) /\ seen' = seen \cup Holding'
  <2>1. seen \subseteq seen'
    BY <1>3
  <2>2. op = "probe_source" => Looking'
    BY <1>1, <1>3, <2>1, HeldMeans, LookingKeeps
  <2>3. op = "qualify" => Qualifying'
    BY <1>1, <1>3, <2>1, HeldMeans, QualifyingKeeps
  <2>4. ASSUME NEW e \in Entries, ProbesFor(e), Probing(e) PROVE Probing(e)'
    BY <1>1, <1>3, <2>1, <2>4, ProbingKeeps
  <2>5. /\ op = "probe_record" => Probing("record")'
        /\ op = "probe_content" => Probing("content")'
    <3>1. "record" \in Entries /\ "content" \in Entries
      BY DEF Entries
    <3>2. /\ op = "probe_record" => ProbesFor("record") /\ Probing("record")
          /\ op = "probe_content" => ProbesFor("content") /\ Probing("content")
      BY HeldMeans DEF ProbesFor
    <3>3. QED
      BY <2>4, <3>1, <3>2, Zenon
  <2>6. op = "restore" => Restoring'
    BY <1>1, <1>3, <2>1, HeldMeans, RestoringKeeps
  <2>7. QED
    BY <1>2, <2>2, <2>3, <2>5, <2>6
<1>4. CASE Rename
  <2>1. op = "restore"
    BY <1>1, <1>4, HeldMeans, RenamesOnlyRestoring
  <2>2. Restoring'
    BY <1>4, <2>1, HeldMeans, RenameKeeps
  <2>3. QED
    BY <1>2, <2>1, <2>2
<1>5. QED
  BY <1>3, <1>4 DEF Next

LEMMA HeldStutters ==
  ASSUME HeldInv, UNCHANGED vars
  PROVE  HeldInv'
<1>1. /\ UNCHANGED <<place, loose, entry, unsynced, op, todo, result, applied, changes, seen>>
  BY DEF vars
<1>2. NamesStay
  BY <1>1 DEF NamesStay
<1>3. Framed => Framed'
  <2>1. Holding' = Holding
    BY <1>1 DEF Holding, Claim, ParentInPlace, Linked, Before, TrashInPlace
  <2>2. NoLoops => NoLoops'
    BY <1>1 DEF NoLoops
  <2>3. QED
    BY <1>1, <2>1, <2>2 DEF Framed
<1>4. ASSUME NEW r, NEW known \in BOOLEAN, NEW base \in Nat, NEW i, Inspecting(r, known, base, i)
      PROVE  Inspecting(r, known, base, i)'
  BY <1>2, <1>4, InspectionStays
<1>5. ASSUME NEW r, NEW i
      PROVE  /\ Inspecting(r, FALSE, 0, i) => Inspecting(r, FALSE, 0, i)'
             /\ Inspecting(r, TRUE, 0, i) => Inspecting(r, TRUE, 0, i)'
             /\ Inspecting(r, TRUE, 2, i) => Inspecting(r, TRUE, 2, i)'
             /\ Inspecting(r, TRUE, 4, i) => Inspecting(r, TRUE, 4, i)'
  BY <1>4
<1>6. Looking => Looking'
  <2>1. ASSUME NEW base, NEW i, Walking(base, i) PROVE Walking(base, i)'
    <3>1. at' = at
      BY DEF vars
    <3>2. QED
      BY <1>2, <2>1, <3>1, WalkingStays
  <2>2. ASSUME NEW rest, NEW base, Observing(rest, base) PROVE Observing(rest, base)'
    <3>1. at' = at
      BY DEF vars
    <3>2. QED
      BY <1>1, <2>1, <2>2, <3>1 DEF Observing
  <2>3. QED
    BY <1>1, <2>2 DEF Looking, LookingReturned
<1>7. Returned => Returned'
  BY <1>1 DEF Returned
<1>8. Qualifying => Qualifying'
  BY <1>1, <1>5, <1>7 DEF Qualifying
<1>9. ASSUME NEW e PROVE Probing(e) => Probing(e)'
  BY <1>1, <1>5, <1>7 DEF Probing
<1>10. RestorationReturned => RestorationReturned'
  BY <1>1 DEF RestorationReturned
<1>11. Restoring => Restoring'
  <2>1. Renames(todo)' <=> Renames(todo)
    BY <1>1 DEF Renames
  <2>2. QED
    BY <1>1, <1>5, <1>10, <2>1 DEF Restoring
<1>12. QED
  BY <1>1, <1>3, <1>6, <1>8, <1>9, <1>11, HeldMeans DEF HeldInv, Framed

(***************************************************************************)
(* What a call knows on its way through the directories that are held, by  *)
(* the number of changes that deceive it, of a Trash of any depth: see     *)
(* HeldInvariant.  (trash_restore_linux.go and its callers in linuxfs.)    *)
(***************************************************************************)
THEOREM HeldInvariantHolds ==
  ASSUME Bearable
  PROVE  Spec => []HeldInv
<1>1. Init => HeldInv
  BY HeldInit
<1>2. HeldInv /\ [Next]_vars => HeldInv'
  BY HeldNext, HeldStutters
<1>3. QED
  BY <1>1, <1>2, PTL DEF Spec

(***************************************************************************)
(* A probe that reports a record or content absent or present, and a       *)
(* qualification of a layout, are right about one moment of the call: five *)
(* changes of the namespace meanwhile, or one, do not deceive them.        *)
(***************************************************************************)
THEOREM VerdictsHold ==
  ASSUME Bearable
  PROVE  Spec => []TrashVerdictsWereTrue
<1>1. ASSUME HeldInv PROVE TrashVerdictsWereTrue
  <2>1. /\ op = "qualify" => Qualifying
        /\ op = "probe_record" => Probing("record")
        /\ op = "probe_content" => Probing("content")
    BY <1>1, HeldMeans
  <2>2. Returned \/ result = "none" => (result \in Verdicts => result \in seen)
    BY DEF Returned, Verdicts
  <2>3. Qualifying => Returned \/ result = "none"
    BY DEF Qualifying
  <2>4. Probing("record") \/ Probing("content") => Returned \/ result = "none"
    BY DEF Probing
  <2>5. QED
    BY <2>1, <2>2, <2>3, <2>4 DEF TrashVerdictsWereTrue
<1>2. QED
  BY <1>1, HeldInvariantHolds, PTL

(***************************************************************************)
(* A source that is reported absent was absent from its parent while that  *)
(* was at its planned path: three changes during the call, wherever the    *)
(* directories of a path of any length are moved, do not deceive it.       *)
(***************************************************************************)
THEOREM SourceAbsenceHolds ==
  ASSUME Bearable
  PROVE  Spec => []SourceAbsenceWasTrue
<1>1. HeldInv => SourceAbsenceWasTrue
  BY HeldMeans DEF Looking, LookingReturned, SourceAbsenceWasTrue
<1>2. QED
  BY <1>1, HeldInvariantHolds, PTL

(***************************************************************************)
(* A restoration that reports that it was not applied moved nothing.  One  *)
(* that reports that it was verified moved the content, synced both of the *)
(* directories, and the content was under the source name while the Trash  *)
(* was in its place, at a moment since.                                    *)
(***************************************************************************)
THEOREM RestorationsHold ==
  ASSUME Bearable
  PROVE  Spec => []RestorationsTellWhatTheyDid
<1>1. ASSUME HeldInv PROVE RestorationsTellWhatTheyDid
  <2>1. /\ op = "probe_source" => Looking
        /\ op = "qualify" => Qualifying
        /\ op = "probe_record" => Probing("record")
        /\ op = "probe_content" => Probing("content")
        /\ op = "restore" => Restoring
        /\ op \in Operations
    BY <1>1, HeldMeans DEF Framed
  <2>2. Looking => result \notin {"verified", "not_applied"}
    BY DEF Looking, LookingReturned
  <2>3. Qualifying \/ Probing("record") \/ Probing("content")
          => result \notin {"verified", "not_applied"}
    BY DEF Qualifying, Probing, Returned
  <2>4. Restoring => RestorationReturned \/ result = "none"
    BY DEF Restoring
  <2>5. RestorationReturned \/ result \notin {"verified", "not_applied"}
          => RestorationsTellWhatTheyDid
    BY DEF RestorationReturned, RestorationsTellWhatTheyDid
  <2>6. QED
    BY <2>1, <2>2, <2>3, <2>4, <2>5 DEF Operations
<1>2. QED
  BY <1>1, HeldInvariantHolds, PTL

(***************************************************************************)
(* A restoration does not replace what is under the source name: its       *)
(* rename is one to a vacant name (renameat2 with RENAME_NOREPLACE).  This *)
(* one holds however many changes others make.                             *)
(***************************************************************************)
THEOREM NothingIsReplaced == Spec => RestorationsReplaceNothing
<1>1. Init => Framed
  BY HeldInit, HeldMeans
<1>2. Framed /\ [Next]_vars => Framed'
  <2>1. ASSUME Framed, UNCHANGED vars PROVE Framed'
    <3>1. Holding' = Holding
      BY <2>1 DEF vars, Holding, Claim, ParentInPlace, Linked, Before, TrashInPlace
    <3>2. NoLoops => NoLoops'
      BY <2>1 DEF vars, NoLoops
    <3>3. QED
      BY <2>1, <3>1, <3>2 DEF vars, Framed
  <2>2. QED
    BY <2>1, StepIsFramed
<1>3. Framed /\ [Next]_vars
        => [entry["source"] # "none" /\ entry'["source"] # entry["source"]
              => changes' > changes]_vars
  <2>1. SUFFICES ASSUME Framed, Next, entry["source"] # "none",
                        entry'["source"] # entry["source"]
                 PROVE  changes' > changes
    OBVIOUS
  <2>2. CASE Call
    BY <2>1, <2>2 DEF Call, StartWalk, Walk, Compare, Private, Child, Absent, Present, Done, Find,
                      Sync, Conclude, Fail, namespaceVars
  <2>3. CASE Change
    <3>1. changes \in Nat
      BY <2>1, FramedMeans
    <3>2. QED
      BY <2>3, <3>1 DEF Change
  <2>4. CASE Rename
    BY <2>1, <2>4 DEF Rename, Apply
  <2>5. QED
    BY <2>1, <2>2, <2>3, <2>4 DEF Next
<1>4. QED
  BY <1>1, <1>2, <1>3, PTL DEF Spec, RestorationsReplaceNothing
=============================================================================
