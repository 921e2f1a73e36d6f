---------------------------- MODULE LoaderProofs ----------------------------
(***************************************************************************)
(* Proofs about Loader, for an image of any size, any sorted zones, any    *)
(* poisoned words and any number of late answers.                          *)
(***************************************************************************)
EXTENDS Loader, SequenceTheorems, WellFoundedInduction, TLAPS

-----------------------------------------------------------------------------
(* Least elements, in place of an induction over a predicate.               *)

(* A set of naturals that is not empty has a least element.                 *)
LEMMA Least ==
    ASSUME NEW T, T \subseteq Nat, T # {}
    PROVE  \E m \in T : \A k \in T : m <= k
<1> DEFINE R == {ss \in Nat \X Nat : ss[1] < ss[2]}
<1>1. IsWellFoundedOn(R, Nat)
  <2>1. R = OpToRel(<, Nat)
    BY DEF OpToRel
  <2>2. QED
    BY <2>1, NatLessThanWellFounded
<1>2. PICK m \in T : \A k \in T : ~(<<k, m>> \in R)
  <2> HIDE DEF R
  <2>1. QED
    BY <1>1, WFMin
<1>3. ASSUME NEW k \in T PROVE m <= k
  <2>1. k \in Nat /\ m \in Nat /\ ~(<<k, m>> \in R)
    BY <1>2
  <2>2. QED
    BY <2>1
<1>4. QED
  BY <1>2, <1>3

(* From the end backwards: what holds at an address whenever it holds at    *)
(* all that come behind it holds at every address.                          *)
LEMMA FromTheEnd ==
    ASSUME NEW n \in Nat, NEW T,
           \A k \in 0 .. n : (\A j \in k + 1 .. n : j \in T) => k \in T
    PROVE  0 .. n \subseteq T
<1> DEFINE Bad == {m \in 0 .. n : n - m \notin T}
<1>1. CASE Bad = {}
  <2>1. ASSUME NEW k \in 0 .. n PROVE k \in T
    <3>1. n - k \in 0 .. n /\ n - (n - k) = k
      OBVIOUS
    <3>2. QED
      BY <1>1, <3>1
  <2>2. QED
    BY <2>1
<1>2. CASE Bad # {}
  <2>1. PICK m \in Bad : \A k \in Bad : m <= k
    <3>1. Bad \subseteq Nat
      OBVIOUS
    <3> HIDE DEF Bad
    <3>2. QED
      BY <1>2, <3>1, Least
  <2>2. m \in 0 .. n /\ n - m \notin T /\ n - m \in 0 .. n
    BY <2>1
  <2>3. ASSUME NEW j \in n - m + 1 .. n PROVE j \in T
    <3>1. n - j \in 0 .. n /\ ~(m <= n - j) /\ n - (n - j) = j
      BY <2>2
    <3>2. QED
      BY <2>1, <3>1
  <2>4. QED
    BY <2>2, <2>3
<1>3. QED
  BY <1>1, <1>2

(* What Min of a set of naturals is.                                        *)
LEMMA MinIsLeast ==
    ASSUME NEW T, T \subseteq Nat, T # {}
    PROVE  Min(T) \in T /\ \A k \in T : Min(T) <= k
<1>1. \E m \in T : \A k \in T : m <= k
  BY Least
<1>2. QED
  BY <1>1 DEF Min

(* What Min of two naturals is.                                             *)
LEMMA MinOfTwo ==
    ASSUME NEW a \in Nat, NEW b \in Nat
    PROVE  Min({a, b}) = IF a <= b THEN a ELSE b
<1>1. Min({a, b}) \in {a, b} /\ \A k \in {a, b} : Min({a, b}) <= k
  BY MinIsLeast
<1>2. QED
  BY <1>1

-----------------------------------------------------------------------------
(* The plan of an upload.                                                   *)

(* The zones of a plan: those of the layout come first, sorted.             *)
LEMMA ZonesType ==
    ASSUME NEW g \in Scenario
    PROVE  /\ RegularZones(g) \in Seq(ZoneSet) /\ Sorted(RegularZones(g))
           /\ Zones(g) \in Seq(ZoneSet)
           /\ \A i \in DOMAIN Zones(g) : Zones(g)[i].start <= Zones(g)[i].end
           /\ \A i \in DOMAIN RegularZones(g) :
                  i \in DOMAIN Zones(g) /\ Zones(g)[i] = RegularZones(g)[i]
<1> DEFINE points == [i \in DOMAIN Poisons |-> [start |-> Poisons[i], end |-> Poisons[i] + 1]]
           window == <<[start |-> Wall, end |-> ImageLen]>>
<1>1. points \in Seq(ZoneSet) /\ \A i \in DOMAIN points : points[i].start <= points[i].end
  <2>1. Poisons \in Seq(Nat) /\ Len(Poisons) \in Nat /\ DOMAIN Poisons = 1 .. Len(Poisons)
    BY LoaderAssumption
  <2>2. ASSUME NEW i \in 1 .. Len(Poisons)
        PROVE  /\ points[i] = [start |-> Poisons[i], end |-> Poisons[i] + 1]
               /\ Poisons[i] \in Nat
    BY <2>1
  <2>3. \A i \in 1 .. Len(Poisons) : points[i] \in ZoneSet /\ points[i].start <= points[i].end
    BY <2>2 DEF ZoneSet
  <2>4. points \in [1 .. Len(Poisons) -> ZoneSet] /\ DOMAIN points = 1 .. Len(Poisons)
    BY <2>1, <2>3
  <2> HIDE DEF points
  <2>5. points \in Seq(ZoneSet)
    BY <2>1, <2>4, SeqDef
  <2>6. QED
    BY <2>3, <2>4, <2>5
<1>2. window \in Seq(ZoneSet) /\ Sorted(window)
  BY LoaderAssumption DEF Sorted, ZoneSet
<1>3. RegularZones(g) \in Seq(ZoneSet) /\ Sorted(RegularZones(g))
  <2>1. <<>> \in Seq(ZoneSet) /\ Sorted(<<>>)
    BY DEF Sorted
  <2>2. QED
    BY <1>2, <2>1, LoaderAssumption DEF RegularZones
<1>4. CASE g.rev = "U01"
  BY <1>3, <1>4 DEF Zones, RegularZones
<1>5. CASE g.rev # "U01"
  <2>1. Zones(g) = RegularZones(g) \o points
    BY <1>5 DEF Zones
  <2> HIDE DEF points
  <2> DEFINE r == RegularZones(g)
  <2>2. r \in Seq(ZoneSet) /\ points \in Seq(ZoneSet)
    BY <1>1, <1>3
  <2>3. /\ Zones(g) \in Seq(ZoneSet) /\ Len(Zones(g)) = Len(r) + Len(points)
        /\ \A i \in 1 .. Len(r) + Len(points) :
              Zones(g)[i] = IF i <= Len(r) THEN r[i] ELSE points[i - Len(r)]
    BY <2>1, <2>2, ConcatProperties
  <2>4. /\ Len(r) \in Nat /\ Len(points) \in Nat /\ DOMAIN r = 1 .. Len(r)
        /\ DOMAIN points = 1 .. Len(points) /\ DOMAIN Zones(g) = 1 .. Len(r) + Len(points)
    BY <2>2, <2>3, LenProperties
  <2> HIDE DEF r
  <2>5. \A i \in DOMAIN r : r[i].start <= r[i].end
    <3>1. Sorted(r)
      BY <1>3 DEF r
    <3>2. QED
      BY <3>1, Zenon DEF Sorted
  <2>6. \A i \in DOMAIN Zones(g) : Zones(g)[i].start <= Zones(g)[i].end
    <3> TAKE i \in DOMAIN Zones(g)
    <3>1. i <= Len(r) \/ i - Len(r) \in DOMAIN points
      BY <2>4
    <3>2. QED
      BY <1>1, <2>3, <2>4, <2>5, <3>1
  <2> HIDE DEF r
  <2>7. \A i \in DOMAIN r : i \in DOMAIN Zones(g) /\ Zones(g)[i] = r[i]
    BY <2>3, <2>4
  <2>8. QED
    BY <1>3, <2>3, <2>6, <2>7 DEF r
<1>6. QED
  BY <1>4, <1>5

(* What a step of a load is.                                                *)
LEMMA StepType ==
    ASSUME NEW op \in Kinds, NEW area \in Areas, NEW lo \in 0 .. ImageLen,
           NEW hi \in 0 .. ImageLen, NEW fail \in Outcomes
    PROVE  /\ Step(op, area, lo, hi, fail) \in StepSet
           /\ Step(op, area, lo, hi, fail).op = op
           /\ Step(op, area, lo, hi, fail).area = area
           /\ Step(op, area, lo, hi, fail).lo = lo
           /\ Step(op, area, lo, hi, fail).hi = hi
           /\ Step(op, area, lo, hi, fail).fail = fail
BY DEF Step, StepSet

LEMMA ChunkType ==
    ASSUME NEW lo \in 0 .. ImageLen, NEW hi \in 0 .. ImageLen
    PROVE  /\ Chunk(lo, hi) \in StepSet /\ Chunk(lo, hi).lo = lo /\ Chunk(lo, hi).hi = hi
           /\ Chunk(lo, hi).op = "block" /\ Chunk(lo, hi).area = "image"
           /\ Chunk(lo, hi).fail = "abort"
<1>1. "block" \in Kinds /\ "abort" \in Outcomes /\ "image" \in Areas
  BY DEF Kinds, Areas, Outcomes
<1>2. Chunk(lo, hi) = Step("block", "image", lo, hi, "abort")
  BY DEF Chunk
<1>3. QED
  BY <1>1, <1>2, StepType

(* One step of the walk over the image: it goes forward, either past a zone *)
(* it stands in, or past a chunk that touches no zone of the layout and,    *)
(* when it was clipped, past the zone behind it.                            *)
LEMMA PlanStep ==
    ASSUME NEW g \in Scenario, NEW off \in 0 .. ImageLen, off # ImageLen
    PROVE  \E jump \in off + 1 .. ImageLen :
             \/ /\ \A rest : PlanFrom(g, rest, off) = rest[jump]
                /\ \E i \in DOMAIN Zones(g) : Zones(g)[i].start <= off /\ jump <= Zones(g)[i].end
             \/ \E hi \in off + 1 .. jump :
                  /\ \A rest : PlanFrom(g, rest, off) = <<Chunk(off, hi)>> \o rest[jump]
                  /\ \A i \in DOMAIN RegularZones(g) : ~Touches(off, hi, RegularZones(g)[i])
                  /\ hi # jump => \E i \in DOMAIN Zones(g) :
                                     Zones(g)[i].start = hi /\ jump <= Zones(g)[i].end
<1> DEFINE end   == Min({off + ChunkAt(g, off), ImageLen})
           zones == Zones(g)
           r     == RegularZones(g)
           hit   == {i \in DOMAIN zones : Touches(off, end, zones[i])}
           zone  == zones[Min(hit)]
           jump  == Min({zone.end, ImageLen})
<1>1. ImageLen \in Nat /\ off \in Nat /\ off < ImageLen
  BY LoaderAssumption
<1>2. end \in off + 1 .. ImageLen
  <2>1. ChunkAt(g, off) \in Nat \ {0}
    BY LoaderAssumption DEF ChunkAt
  <2>2. QED
    BY <1>1, <2>1, MinOfTwo
<1>3. /\ zones \in Seq(ZoneSet) /\ r \in Seq(ZoneSet) /\ Sorted(r)
      /\ \A i \in DOMAIN zones : zones[i].start <= zones[i].end
      /\ \A i \in DOMAIN r : i \in DOMAIN zones /\ zones[i] = r[i]
  BY ZonesType
<1>4. DOMAIN zones \subseteq Nat /\ DOMAIN r \subseteq Nat
      /\ \A i \in DOMAIN zones : zones[i].start \in Nat /\ zones[i].end \in Nat
  <2>1. DOMAIN zones = 1 .. Len(zones) /\ DOMAIN r = 1 .. Len(r)
    BY <1>3, LenProperties
  <2>2. ASSUME NEW i \in DOMAIN zones PROVE zones[i] \in ZoneSet
    BY <1>3, <2>1, ElementOfSeq
  <2>3. QED
    BY <2>1, <2>2 DEF ZoneSet
<1>5. \A rest : PlanFrom(g, rest, off) =
          IF hit = {} THEN <<Chunk(off, end)>> \o rest[end]
          ELSE IF off >= zone.start THEN rest[jump]
          ELSE <<Chunk(off, zone.start)>> \o rest[jump]
  BY <1>1 DEF PlanFrom
<1> HIDE DEF end, zones, r
<1>6. CASE hit = {}
  <2>1. \A i \in DOMAIN r : ~Touches(off, end, r[i])
    BY <1>3, <1>6
  <2>2. \A rest : PlanFrom(g, rest, off) = <<Chunk(off, end)>> \o rest[end]
    BY <1>5, <1>6
  <2>3. end \in off + 1 .. end
    BY <1>1, <1>2
  <2> HIDE DEF hit
  <2>4. QED
    BY <1>2, <2>1, <2>2, <2>3 DEF r
<1>7. CASE hit # {}
  <2>1. Min(hit) \in hit /\ \A k \in hit : Min(hit) <= k
    BY <1>4, <1>7, MinIsLeast
  <2> DEFINE h == Min(hit)
  <2>2. h \in DOMAIN zones /\ h \in Nat /\ Touches(off, end, zone)
    BY <1>4, <2>1
  <2>3. \A i \in DOMAIN zones : Touches(off, end, zones[i]) => h <= i
    BY <2>1
  <2>4. zone.start \in Nat /\ zone.end \in Nat /\ zone.start <= zone.end
        /\ end > zone.start /\ off < zone.end
    BY <1>3, <1>4, <2>2 DEF Touches
  <2>5. jump = IF zone.end <= ImageLen THEN zone.end ELSE ImageLen
    BY <1>1, <2>4, MinOfTwo
  <2> HIDE DEF hit, jump
  <2>6. jump \in off + 1 .. ImageLen /\ jump <= zone.end
    BY <1>1, <2>4, <2>5
  <2>7. CASE off >= zone.start
    <3>1. \A rest : PlanFrom(g, rest, off) = rest[jump]
      BY <1>5, <1>7, <2>7
    <3>2. \E i \in DOMAIN zones : zones[i].start <= off /\ jump <= zones[i].end
      BY <1>1, <2>2, <2>4, <2>6, <2>7
    <3>3. QED
      BY <2>6, <3>1, <3>2 DEF zones
  <2>8. CASE ~(off >= zone.start)
    <3>1. \A rest : PlanFrom(g, rest, off) = <<Chunk(off, zone.start)>> \o rest[jump]
      BY <1>5, <1>7, <2>8
    <3>2. zone.start \in off + 1 .. jump
      BY <1>1, <1>2, <2>4, <2>5, <2>8
    <3>3. ASSUME NEW i \in DOMAIN r PROVE ~Touches(off, zone.start, r[i])
      <4>1. i \in DOMAIN zones /\ zones[i] = r[i] /\ i \in Nat
            /\ r[i].start \in Nat /\ r[i].end \in Nat
        BY <1>3, <1>4
      <4>2. CASE ~Touches(off, end, zones[i])
        BY <1>1, <1>2, <2>4, <4>1, <4>2 DEF Touches
      <4>3. CASE i = h
        BY <2>4, <4>1, <4>3 DEF Touches
      <4>4. CASE h < i
        <5>1. h \in DOMAIN r
          <6>1. DOMAIN r = 1 .. Len(r) /\ Len(r) \in Nat /\ DOMAIN zones = 1 .. Len(zones)
            BY <1>3, LenProperties
          <6>2. QED
            BY <2>2, <4>1, <4>4, <6>1
        <5>2. r[h].end <= r[i].start /\ zones[h] = r[h]
          BY <1>3, <4>4, <5>1 DEF Sorted
        <5>3. QED
          BY <2>4, <4>1, <5>2 DEF Touches
      <4>5. QED
        BY <2>2, <2>3, <4>1, <4>2, <4>3, <4>4
    <3>4. zone.start # jump => \E i \in DOMAIN zones : zones[i].start = zone.start /\ jump <= zones[i].end
      BY <2>2, <2>6
    <3> HIDE DEF zone
    <3>5. QED
      BY <2>6, <3>1, <3>2, <3>3, <3>4 DEF zones, r
  <2>9. QED
    BY <2>7, <2>8
<1>8. QED
  BY <1>6, <1>7

(* What the walk does at an address depends on what it does further on.     *)
LEMMA PlanLooksAhead ==
    ASSUME NEW g \in Scenario, NEW off \in 0 .. ImageLen, NEW f, NEW h,
           \A j \in off + 1 .. ImageLen : f[j] = h[j]
    PROVE  PlanFrom(g, f, off) = PlanFrom(g, h, off)
<1>1. CASE off = ImageLen
  BY <1>1 DEF PlanFrom
<1>2. CASE off # ImageLen
  <2>1. PICK jump \in off + 1 .. ImageLen :
             \/ \A rest : PlanFrom(g, rest, off) = rest[jump]
             \/ \E hi \in off + 1 .. jump :
                  \A rest : PlanFrom(g, rest, off) = <<Chunk(off, hi)>> \o rest[jump]
    BY <1>2, PlanStep
  <2>2. f[jump] = h[jump]
    BY <2>1
  <2>3. QED
    BY <2>1, <2>2
<1>3. QED
  BY <1>1, <1>2

(* The recursion has a solution, so the upload has a plan.                  *)
LEMMA PlanExists ==
    ASSUME NEW g \in Scenario
    PROVE  \E f : f = [off \in 0 .. ImageLen |-> PlanFrom(g, f, off)]
<1> DEFINE E(k) == \E f : f = [off \in k .. ImageLen |-> PlanFrom(g, f, off)]
           T == {k \in 0 .. ImageLen : E(k)}
<1>1. ImageLen \in Nat
  BY LoaderAssumption
<1>2. E(ImageLen)
  <2> DEFINE f == [off \in ImageLen .. ImageLen |-> <<>>]
  <2>1. \A off \in ImageLen .. ImageLen : PlanFrom(g, f, off) = <<>>
    BY <1>1 DEF PlanFrom
  <2>2. f = [off \in ImageLen .. ImageLen |-> PlanFrom(g, f, off)]
    BY <2>1, Zenon
  <2> HIDE DEF f
  <2>3. QED
    BY <2>2
<1>3. ASSUME NEW k \in 0 .. ImageLen - 1, E(k + 1) PROVE E(k)
  <2>1. PICK f : f = [off \in k + 1 .. ImageLen |-> PlanFrom(g, f, off)]
    BY <1>3
  <2> DEFINE h == [off \in k .. ImageLen |-> IF off = k THEN PlanFrom(g, f, k) ELSE f[off]]
  <2>2. \A j \in k + 1 .. ImageLen : h[j] = f[j]
    BY <1>1
  <2>3. ASSUME NEW off \in k .. ImageLen PROVE PlanFrom(g, h, off) = PlanFrom(g, f, off)
    <3>1. off \in 0 .. ImageLen /\ \A j \in off + 1 .. ImageLen : h[j] = f[j]
      BY <1>1, <2>2
    <3> HIDE DEF h
    <3>2. QED
      BY <3>1, PlanLooksAhead
  <2>4. ASSUME NEW off \in k .. ImageLen PROVE h[off] = PlanFrom(g, h, off)
    <3>1. CASE off = k
      BY <2>3, <3>1
    <3>2. CASE off # k
      <4>1. off \in k + 1 .. ImageLen
        BY <1>1, <3>2
      <4>2. f[off] = PlanFrom(g, f, off)
        BY <2>1, <4>1
      <4>3. QED
        BY <2>2, <2>3, <4>1, <4>2
    <3>3. QED
      BY <3>1, <3>2
  <2>5. h = [off \in k .. ImageLen |-> h[off]]
    OBVIOUS
  <2> HIDE DEF h
  <2>6. h = [off \in k .. ImageLen |-> PlanFrom(g, h, off)]
    BY <2>4, <2>5
  <2>7. QED
    BY <2>6
<1> HIDE DEF E
<1>4. ASSUME NEW k \in 0 .. ImageLen, \A j \in k + 1 .. ImageLen : j \in T PROVE k \in T
  <2>1. CASE k = ImageLen
    BY <1>2, <2>1
  <2>2. CASE k # ImageLen
    <3>1. k \in 0 .. ImageLen - 1 /\ k + 1 \in k + 1 .. ImageLen
      BY <1>1, <2>2
    <3>2. QED
      BY <1>3, <1>4, <3>1
  <2>3. QED
    BY <2>1, <2>2
<1>5. E(0)
  <2>1. 0 .. ImageLen \subseteq T
    <3> HIDE DEF T
    <3>1. QED
      BY <1>1, <1>4, FromTheEnd
  <2>2. QED
    BY <1>1, <2>1
<1>6. QED
  BY <1>5 DEF E

(* The plan of an upload, and the plans of the rest of it.                  *)
LEMMA PlanIs ==
    ASSUME NEW g \in Scenario
    PROVE  \E plan : /\ PlanAdaptiveUpload(g) = plan[0]
                     /\ \A off \in 0 .. ImageLen : plan[off] = PlanFrom(g, plan, off)
<1> DEFINE plan == CHOOSE f : f = [off \in 0 .. ImageLen |-> PlanFrom(g, f, off)]
<1>1. plan = [off \in 0 .. ImageLen |-> PlanFrom(g, plan, off)]
  <2> DEFINE Q(f) == f = [off \in 0 .. ImageLen |-> PlanFrom(g, f, off)]
  <2>1. \E f : Q(f)
    BY PlanExists
  <2> HIDE DEF Q
  <2>2. Q(CHOOSE f : Q(f))
    BY <2>1, Zenon
  <2>3. QED
    BY <2>2 DEF Q
<1>2. PlanAdaptiveUpload(g) = plan[0]
  BY DEF PlanAdaptiveUpload
<1> HIDE DEF plan
<1>3. \A off \in 0 .. ImageLen : plan[off] = PlanFrom(g, plan, off)
  BY <1>1
<1>4. QED
  BY <1>2, <1>3

(* A write of the image that touches no zone of the layout.                 *)
ImageWrites(g) ==
    {s \in StepSet : /\ s.op = "block" /\ s.area = "image" /\ s.fail = "abort"
                     /\ \A i \in DOMAIN RegularZones(g) :
                           ~Touches(s.lo, s.hi, RegularZones(g)[i])}

(* Some write of the sequence p writes the unit u.                          *)
Writes(p, u) == \E i \in DOMAIN p : u \in p[i].lo .. p[i].hi - 1

(* The plan of an upload is made of writes that spare the zones of the      *)
(* layout, and leaves nothing out but the zones (and poisoned words).       *)
LEMMA PlanOfImage ==
    ASSUME NEW g \in Scenario
    PROVE  /\ PlanAdaptiveUpload(g) \in Seq(ImageWrites(g))
           /\ \A u \in 0 .. ImageLen - 1 :
                 u \in Covered(Zones(g)) \/ Writes(PlanAdaptiveUpload(g), u)
<1>1. ImageLen \in Nat
  BY LoaderAssumption
<1>2. PICK plan : /\ PlanAdaptiveUpload(g) = plan[0]
                  /\ \A off \in 0 .. ImageLen : plan[off] = PlanFrom(g, plan, off)
  BY PlanIs
<1> DEFINE Good(k) == /\ plan[k] \in Seq(ImageWrites(g))
                      /\ \A u \in k .. ImageLen - 1 :
                            u \in Covered(Zones(g)) \/ Writes(plan[k], u)
           T == {k \in 0 .. ImageLen : Good(k)}
<1>3. ASSUME NEW z \in DOMAIN Zones(g), NEW u \in Nat,
             Zones(g)[z].start <= u, u < Zones(g)[z].end
      PROVE  u \in Covered(Zones(g))
  <2>1. Zones(g) \in Seq(ZoneSet)
    BY ZonesType
  <2>2. Zones(g)[z] \in ZoneSet
    BY <2>1, ElementOfSeq, LenProperties
  <2>3. u \in Zones(g)[z].start .. Zones(g)[z].end - 1
    BY <1>3, <2>2 DEF ZoneSet
  <2>4. Zones(g)[z] \in Range(Zones(g))
    BY DEF Range
  <2>5. QED
    BY <2>3, <2>4 DEF Covered
<1>4. Good(ImageLen)
  <2>1. plan[ImageLen] = <<>>
    <3>1. plan[ImageLen] = PlanFrom(g, plan, ImageLen)
      BY <1>1, <1>2
    <3>2. QED
      BY <3>1 DEF PlanFrom
  <2>2. QED
    BY <1>1, <2>1
<1>5. ASSUME NEW k \in 0 .. ImageLen, k # ImageLen, \A j \in k + 1 .. ImageLen : Good(j)
      PROVE  Good(k)
  <2>1. PICK jump \in k + 1 .. ImageLen :
             \/ /\ \A rest : PlanFrom(g, rest, k) = rest[jump]
                /\ \E i \in DOMAIN Zones(g) : Zones(g)[i].start <= k /\ jump <= Zones(g)[i].end
             \/ \E hi \in k + 1 .. jump :
                  /\ \A rest : PlanFrom(g, rest, k) = <<Chunk(k, hi)>> \o rest[jump]
                  /\ \A i \in DOMAIN RegularZones(g) : ~Touches(k, hi, RegularZones(g)[i])
                  /\ hi # jump => \E i \in DOMAIN Zones(g) :
                                     Zones(g)[i].start = hi /\ jump <= Zones(g)[i].end
    BY <1>5, PlanStep
  <2>2. Good(jump) /\ plan[k] = PlanFrom(g, plan, k)
    BY <1>2, <1>5, <2>1
  <2> HIDE DEF Good
  <2>3. /\ Zones(g) \in Seq(ZoneSet)
        /\ \A i \in DOMAIN Zones(g) : Zones(g)[i].start \in Nat /\ Zones(g)[i].end \in Nat
    <3>1. Zones(g) \in Seq(ZoneSet)
      BY ZonesType
    <3>2. \A i \in DOMAIN Zones(g) : Zones(g)[i] \in ZoneSet
      BY <3>1, ElementOfSeq, LenProperties
    <3>3. QED
      BY <3>1, <3>2 DEF ZoneSet
  <2>4. CASE /\ \A rest : PlanFrom(g, rest, k) = rest[jump]
             /\ \E i \in DOMAIN Zones(g) : Zones(g)[i].start <= k /\ jump <= Zones(g)[i].end
    <3>1. PICK z \in DOMAIN Zones(g) : Zones(g)[z].start <= k /\ jump <= Zones(g)[z].end
      BY <2>4
    <3>2. plan[k] = plan[jump]
      BY <2>2, <2>4
    <3>3. ASSUME NEW u \in k .. ImageLen - 1
          PROVE  u \in Covered(Zones(g)) \/ Writes(plan[k], u)
      <4>1. CASE u < jump
        <5>1. u \in Nat /\ Zones(g)[z].start <= u /\ u < Zones(g)[z].end
          BY <1>1, <2>1, <2>3, <3>1, <4>1
        <5>2. QED
          BY <1>3, <5>1
      <4>2. CASE ~(u < jump)
        <5>1. u \in jump .. ImageLen - 1
          BY <1>1, <2>1, <4>2
        <5>2. QED
          BY <2>2, <3>2, <5>1 DEF Good
      <4>3. QED
        BY <4>1, <4>2
    <3>4. QED
      BY <2>2, <3>2, <3>3 DEF Good
  <2>5. ASSUME NEW hi \in k + 1 .. jump,
               /\ \A rest : PlanFrom(g, rest, k) = <<Chunk(k, hi)>> \o rest[jump]
               /\ \A i \in DOMAIN RegularZones(g) : ~Touches(k, hi, RegularZones(g)[i])
               /\ hi # jump => \E i \in DOMAIN Zones(g) :
                                     Zones(g)[i].start = hi /\ jump <= Zones(g)[i].end
        PROVE  Good(k)
    <3> DEFINE p == plan[jump]
               c == Chunk(k, hi)
    <3>1. plan[k] = <<c>> \o p
      BY <2>2, <2>5
    <3>2. c \in ImageWrites(g) /\ c.lo = k /\ c.hi = hi
      <4>2. k \in 0 .. ImageLen /\ hi \in 0 .. ImageLen
        BY <1>1, <2>1
      <4>3. /\ c \in StepSet /\ c.lo = k /\ c.hi = hi
            /\ c.op = "block" /\ c.area = "image" /\ c.fail = "abort"
        BY <4>2, ChunkType
      <4>4. \A i \in DOMAIN RegularZones(g) : ~Touches(c.lo, c.hi, RegularZones(g)[i])
        BY <2>5, <4>3
      <4>5. QED
        BY <4>3, <4>4 DEF ImageWrites
    <3>3. p \in Seq(ImageWrites(g))
      BY <2>2 DEF Good
    <3> HIDE DEF c, p
    <3>4. /\ plan[k] \in Seq(ImageWrites(g)) /\ Len(plan[k]) = 1 + Len(p)
          /\ Len(p) \in Nat
          /\ plan[k][1] = c /\ \A i \in 1 .. Len(p) : plan[k][i + 1] = p[i]
      BY <3>1, <3>2, <3>3
    <3>5. DOMAIN plan[k] = 1 .. 1 + Len(p) /\ DOMAIN p = 1 .. Len(p)
      BY <3>3, <3>4, LenProperties
    <3>6. ASSUME NEW u \in k .. ImageLen - 1
          PROVE  u \in Covered(Zones(g)) \/ Writes(plan[k], u)
      <4>1. CASE u < hi
        <5>1. u \in plan[k][1].lo .. plan[k][1].hi - 1 /\ 1 \in DOMAIN plan[k]
          BY <1>1, <2>1, <3>2, <3>4, <3>5, <4>1
        <5>2. QED
          BY <5>1 DEF Writes
      <4>2. CASE hi <= u /\ u < jump
        <5>1. PICK z \in DOMAIN Zones(g) : Zones(g)[z].start = hi /\ jump <= Zones(g)[z].end
          BY <1>1, <2>1, <2>5, <4>2
        <5>2. u \in Nat /\ Zones(g)[z].start <= u /\ u < Zones(g)[z].end
          BY <1>1, <2>1, <2>3, <4>2, <5>1
        <5>3. QED
          BY <1>3, <5>2
      <4>3. CASE jump <= u
        <5>1. u \in jump .. ImageLen - 1
          BY <1>1, <2>1, <4>3
        <5>2. u \in Covered(Zones(g)) \/ Writes(p, u)
          BY <2>2, <5>1 DEF Good, p
        <5>3. ASSUME Writes(p, u) PROVE Writes(plan[k], u)
          <6>1. PICK i \in 1 .. Len(p) : u \in p[i].lo .. p[i].hi - 1
            BY <3>5, <5>3 DEF Writes
          <6>2. i + 1 \in DOMAIN plan[k] /\ plan[k][i + 1] = p[i]
            BY <3>4, <3>5
          <6>3. QED
            BY <6>1, <6>2 DEF Writes
        <5>4. QED
          BY <5>2, <5>3
      <4>4. QED
        BY <1>1, <2>1, <4>1, <4>2, <4>3
    <3>7. QED
      BY <3>4, <3>6 DEF Good
  <2>6. QED
    BY <2>1, <2>4, <2>5
<1>6. 0 .. ImageLen \subseteq T
  <2> HIDE DEF Good
  <2>1. ASSUME NEW k \in 0 .. ImageLen, \A j \in k + 1 .. ImageLen : j \in T PROVE k \in T
    BY <1>4, <1>5, <2>1
  <2> HIDE DEF T
  <2>2. QED
    BY <1>1, <2>1, FromTheEnd
<1>7. Good(0)
  <2> HIDE DEF Good
  <2>1. 0 \in 0 .. ImageLen
    BY <1>1
  <2>2. QED
    BY <1>6, <2>1
<1>8. QED
  BY <1>2, <1>7

-----------------------------------------------------------------------------
(* The steps of the segments.                                               *)

LEMMA WriteType ==
    ASSUME NEW area \in Areas, NEW fail \in Outcomes
    PROVE  /\ Write(area, fail) \in StepSet /\ Write(area, fail).op = "write"
           /\ Write(area, fail).area = area /\ Write(area, fail).fail = fail
<1>1. 0 \in 0 .. ImageLen /\ "write" \in Kinds
  BY LoaderAssumption DEF Kinds
<1>2. QED
  BY <1>1, StepType DEF Write

LEMMA BlockType ==
    ASSUME NEW area \in Areas
    PROVE  /\ Block(area) \in StepSet /\ Block(area).op = "block"
           /\ Block(area).area = area /\ Block(area).fail = "abort"
<1>1. 0 \in 0 .. ImageLen /\ "block" \in Kinds /\ "abort" \in Outcomes
  BY LoaderAssumption DEF Kinds, Outcomes
<1>2. QED
  BY <1>1, StepType DEF Block

LEMMA ReadType ==
    ASSUME NEW area \in Areas, NEW fail \in Outcomes
    PROVE  /\ Step("read", area, 0, 0, fail) \in StepSet
           /\ Step("read", area, 0, 0, fail).op = "read"
           /\ Step("read", area, 0, 0, fail).area = area
           /\ Step("read", area, 0, 0, fail).fail = fail
<1>1. 0 \in 0 .. ImageLen /\ "read" \in Kinds
  BY LoaderAssumption DEF Kinds
<1>2. QED
  BY <1>1, StepType

(* The reads and writes of registers: no block, no start, no image.         *)
Registers ==
    {s \in StepSet : s.op \in {"read", "write"} /\ s.area \notin {"image", "start", "reboot"}}

(* The setup: the cache register of the older MCU is read first and written *)
(* second; no other step of a load writes it.                               *)
LEMMA SetupIs ==
    ASSUME NEW g \in Scenario
    PROVE  /\ SetupSteps(g) \in Seq({s \in Registers : s.fail \in {"abort", "go on"}})
           /\ FixesCache(g) => /\ Len(SetupSteps(g)) >= 2
                               /\ SetupSteps(g)[1].op = "read" /\ SetupSteps(g)[1].area = "cache"
                               /\ SetupSteps(g)[1].fail = "abort"
           /\ \A i \in 1 .. Len(SetupSteps(g)) :
                 SetupSteps(g)[i].op = "write" /\ SetupSteps(g)[i].area = "cache"
                    => i = 2 /\ FixesCache(g)
<1> DEFINE S == {s \in Registers : s.fail \in {"abort", "go on"}}
           rd == Step("read", "cache", 0, 0, "abort")
           wr == Write("cache", "abort")
           wd == Write("wdog", "go on")
           pm == Write("pmic", "go on")
           cl == Write("clock", "go on")
<1>1. rd \in S /\ rd.op = "read" /\ rd.area = "cache" /\ rd.fail = "abort"
  <2>1. "cache" \in Areas /\ "abort" \in Outcomes
    BY DEF Areas, Outcomes
  <2>2. rd \in StepSet /\ rd.op = "read" /\ rd.area = "cache" /\ rd.fail = "abort"
    BY <2>1, ReadType
  <2> HIDE DEF rd
  <2>3. QED
    BY <2>2 DEF Registers
<1>2. wr \in S /\ wr.op = "write"
  <2>1. "cache" \in Areas /\ "abort" \in Outcomes
    BY DEF Areas, Outcomes
  <2>2. wr \in StepSet /\ wr.op = "write" /\ wr.area = "cache" /\ wr.fail = "abort"
    BY <2>1, WriteType
  <2> HIDE DEF wr
  <2>3. QED
    BY <2>2 DEF Registers
<1>3. \A area \in {"wdog", "pmic", "clock"} :
         Write(area, "go on") \in S /\ Write(area, "go on").area # "cache"
  <2> TAKE area \in {"wdog", "pmic", "clock"}
  <2>1. area \in Areas /\ "go on" \in Outcomes
    BY DEF Areas, Outcomes
  <2> DEFINE w == Write(area, "go on")
  <2>2. w \in StepSet /\ w.op = "write" /\ w.area = area /\ w.fail = "go on"
    BY <2>1, WriteType
  <2> HIDE DEF w
  <2>3. w \in S /\ w.area # "cache"
    BY <2>2 DEF Registers
  <2>4. QED
    BY <2>3 DEF w
<1>4. wd \in S /\ pm \in S /\ cl \in S /\ wd.area # "cache" /\ pm.area # "cache" /\ cl.area # "cache"
  BY <1>3
<1> HIDE DEF S, rd, wr, wd, pm, cl
<1>5. /\ <<wd, pm>> \in Seq(S) /\ <<rd, wr>> \in Seq(S) /\ <<cl>> \in Seq(S)
      /\ Len(<<wd, pm>>) = 2 /\ Len(<<rd, wr>>) = 2 /\ Len(<<cl>>) = 1
      /\ <<wd, pm>>[1] = wd /\ <<wd, pm>>[2] = pm /\ <<rd, wr>>[1] = rd /\ <<rd, wr>>[2] = wr
      /\ <<cl>>[1] = cl
  BY <1>1, <1>2, <1>4
<1> SUFFICES /\ SetupSteps(g) \in Seq(S)
             /\ FixesCache(g) => /\ Len(SetupSteps(g)) >= 2
                                 /\ SetupSteps(g)[1].op = "read" /\ SetupSteps(g)[1].area = "cache"
                                 /\ SetupSteps(g)[1].fail = "abort"
             /\ \A i \in 1 .. Len(SetupSteps(g)) :
                   SetupSteps(g)[i].op = "write" /\ SetupSteps(g)[i].area = "cache"
                      => i = 2 /\ FixesCache(g)
  BY DEF S
<1>6. CASE g.mode = "vendor"
  <2>1. SetupSteps(g) = <<wd, pm>> \o <<cl>> /\ ~FixesCache(g)
    BY <1>6 DEF SetupSteps, FixesCache, wd, pm, cl
  <2>2. /\ SetupSteps(g) \in Seq(S) /\ Len(SetupSteps(g)) = 3
        /\ SetupSteps(g)[1] = wd /\ SetupSteps(g)[2] = pm /\ SetupSteps(g)[3] = cl
    BY <1>5, <2>1, ConcatProperties
  <2>3. QED
    BY <1>4, <2>1, <2>2
<1>7. CASE g.mode # "vendor" /\ FixesCache(g)
  <2>1. SetupSteps(g) = <<rd, wr>> \o <<wd, pm>>
    BY <1>7 DEF SetupSteps, wd, pm, rd, wr
  <2>2. /\ SetupSteps(g) \in Seq(S) /\ Len(SetupSteps(g)) = 4
        /\ SetupSteps(g)[1] = rd /\ SetupSteps(g)[2] = wr
        /\ SetupSteps(g)[3] = wd /\ SetupSteps(g)[4] = pm
    BY <1>5, <2>1, ConcatProperties
  <2>3. QED
    BY <1>1, <1>2, <1>4, <1>7, <2>2
<1>8. CASE g.mode # "vendor" /\ ~FixesCache(g)
  <2>1. SetupSteps(g) = <<wd, pm>>
    BY <1>8 DEF SetupSteps, wd, pm
  <2>2. /\ SetupSteps(g) \in Seq(S) /\ Len(SetupSteps(g)) = 2
        /\ SetupSteps(g)[1] = wd /\ SetupSteps(g)[2] = pm
    BY <1>5, <2>1
  <2>3. QED
    BY <1>4, <1>8, <2>2
<1>9. QED
  BY <1>6, <1>7, <1>8

(* The patch: it begins with a block, and holds the pairs of the tables.    *)
PatchWrites ==
    {s \in StepSet : /\ s.op \in {"block", "write"} /\ s.fail = "abort"
                     /\ s.area \notin {"cache", "image", "start", "reboot"}}
LEMMA PatchIs ==
    ASSUME NEW g \in Scenario
    PROVE  /\ PatchSteps(g) \in Seq(PatchWrites) /\ Len(PatchSteps(g)) >= 1
           /\ PatchSteps(g)[1].op = "block"
<1> DEFINE ad == Block("adid")
           pa == Block("patch")
           ex == Block("ext")
           t1 == Write("inf", "abort")
           t2 == Write("btmode", "abort")
           t3 == Write("pwron", "abort")
<1>1. \A area \in {"adid", "patch", "ext"} : Block(area) \in PatchWrites /\ Block(area).op = "block"
  <2> TAKE area \in {"adid", "patch", "ext"}
  <2>1. area \in Areas
    BY DEF Areas
  <2> DEFINE b == Block(area)
  <2>2. b \in StepSet /\ b.op = "block" /\ b.area = area /\ b.fail = "abort"
    BY <2>1, BlockType
  <2> HIDE DEF b
  <2>3. b \in PatchWrites
    BY <2>2 DEF PatchWrites
  <2>4. QED
    BY <2>2, <2>3 DEF b
<1>2. \A area \in {"inf", "btmode", "pwron"} : Write(area, "abort") \in PatchWrites
  <2> TAKE area \in {"inf", "btmode", "pwron"}
  <2>1. area \in Areas /\ "abort" \in Outcomes
    BY DEF Areas, Outcomes
  <2> DEFINE w == Write(area, "abort")
  <2>2. w \in StepSet /\ w.op = "write" /\ w.area = area /\ w.fail = "abort"
    BY <2>1, WriteType
  <2> HIDE DEF w
  <2>3. w \in PatchWrites
    BY <2>2 DEF PatchWrites
  <2>4. QED
    BY <2>3 DEF w
<1>3. /\ ad \in PatchWrites /\ pa \in PatchWrites /\ ex \in PatchWrites /\ ad.op = "block"
      /\ t1 \in PatchWrites /\ t2 \in PatchWrites /\ t3 \in PatchWrites
  BY <1>1, <1>2
<1> DEFINE blocks == IF g.files = "noExt" THEN <<ad, pa>> ELSE <<ad, pa, ex>>
           tables == <<t1, t2, t3>>
<1>4. PatchSteps(g) = blocks \o tables
  BY DEF PatchSteps, TableSteps
<1> HIDE DEF ad, pa, ex, t1, t2, t3
<1>5. blocks \in Seq(PatchWrites) /\ Len(blocks) >= 2 /\ blocks[1] = ad
  <2>1. CASE g.files = "noExt"
    BY <1>3, <2>1
  <2>2. CASE g.files # "noExt"
    BY <1>3, <2>2
  <2>3. QED
    BY <2>1, <2>2
<1>6. tables \in Seq(PatchWrites)
  BY <1>3
<1> HIDE DEF blocks, tables
<1>7. /\ PatchSteps(g) \in Seq(PatchWrites) /\ Len(PatchSteps(g)) >= 1
      /\ PatchSteps(g)[1] = ad
  BY <1>4, <1>5, <1>6, ConcatProperties
<1>8. QED
  BY <1>3, <1>7

(* The configuration: six steps, the first of which may pass over another.  *)
LEMMA ConfigIs ==
    /\ ConfigSteps \in Seq(Registers) /\ Len(ConfigSteps) = 6
    /\ \A i \in 1 .. 6 :
          /\ ConfigSteps[i].fail = "skip" => i = 1
          /\ ConfigSteps[i].fail \in {"skip", "leave", "go on"}
          /\ ConfigSteps[i].area # "cache"
<1> DEFINE w1 == Write("pmic", "skip")
           w2 == Write("magic", "leave")
           w3 == Write("pairs", "leave")
           r1 == ReadBack("pmic")
           r2 == ReadBack("magic")
           r3 == ReadBack("pairs")
           Fits(s) == s \in Registers /\ s.area # "cache"
<1>1. \A area \in {"pmic", "magic", "pairs"} :
         /\ Fits(ReadBack(area)) /\ ReadBack(area).fail = "go on"
         /\ Fits(Write(area, "leave")) /\ Write(area, "leave").fail = "leave"
         /\ Fits(Write(area, "skip")) /\ Write(area, "skip").fail = "skip"
  <2> TAKE area \in {"pmic", "magic", "pairs"}
  <2> DEFINE r == ReadBack(area)
             l == Write(area, "leave")
             k == Write(area, "skip")
  <2>1. area \in Areas /\ "go on" \in Outcomes /\ "leave" \in Outcomes /\ "skip" \in Outcomes
    BY DEF Areas, Outcomes
  <2>2. r \in StepSet /\ r.op = "read" /\ r.area = area /\ r.fail = "go on"
    BY <2>1, ReadType DEF ReadBack
  <2>3. /\ l \in StepSet /\ l.op = "write" /\ l.area = area /\ l.fail = "leave"
        /\ k \in StepSet /\ k.op = "write" /\ k.area = area /\ k.fail = "skip"
    BY <2>1, WriteType
  <2> HIDE DEF r, l, k
  <2>4. Fits(r) /\ Fits(l) /\ Fits(k)
    BY <2>2, <2>3 DEF Registers
  <2> HIDE DEF Fits
  <2>5. QED
    BY <2>2, <2>3, <2>4 DEF r, l, k
<1>2. /\ Fits(w1) /\ Fits(w2) /\ Fits(w3) /\ Fits(r1) /\ Fits(r2) /\ Fits(r3)
      /\ w1.fail = "skip" /\ w2.fail = "leave" /\ w3.fail = "leave"
      /\ r1.fail = "go on" /\ r2.fail = "go on" /\ r3.fail = "go on"
  <2> HIDE DEF Fits
  <2>1. QED
    BY <1>1
<1>3. ConfigSteps = <<w1, r1, w2, r2, w3, r3>>
  BY DEF ConfigSteps
<1> HIDE DEF w1, w2, w3, r1, r2, r3
<1>4. /\ Len(ConfigSteps) = 6 /\ ConfigSteps[1] = w1 /\ ConfigSteps[2] = r1 /\ ConfigSteps[3] = w2
      /\ ConfigSteps[4] = r2 /\ ConfigSteps[5] = w3 /\ ConfigSteps[6] = r3
  BY <1>3
<1>5. ConfigSteps \in Seq(Registers)
  <2>1. /\ w1 \in Registers /\ w2 \in Registers /\ w3 \in Registers
        /\ r1 \in Registers /\ r2 \in Registers /\ r3 \in Registers
    BY <1>2
  <2> HIDE DEF Fits
  <2>2. QED
    BY <1>3, <2>1
<1>6. ASSUME NEW i \in 1 .. 6
      PROVE  /\ ConfigSteps[i].fail = "skip" => i = 1
             /\ ConfigSteps[i].fail \in {"skip", "leave", "go on"}
             /\ ConfigSteps[i].area # "cache"
  <2>1. i = 1 \/ i = 2 \/ i = 3 \/ i = 4 \/ i = 5 \/ i = 6
    OBVIOUS
  <2>2. QED
    BY <1>2, <1>4, <2>1
<1>7. QED
  BY <1>4, <1>5, <1>6

LEMMA ProbeIs ==
    /\ Probe \in Seq(Registers) /\ Len(Probe) = 1
    /\ Probe[1].op = "read" /\ Probe[1].fail = "rung"
<1> DEFINE p == Step("read", "sysconf", 0, 0, "rung")
<1>1. "sysconf" \in Areas /\ "rung" \in Outcomes
  BY DEF Areas, Outcomes
<1>2. p \in StepSet /\ p.op = "read" /\ p.area = "sysconf" /\ p.fail = "rung"
  BY <1>1, ReadType
<1>3. Probe = <<p>>
  BY DEF Probe
<1> HIDE DEF p
<1>4. p \in Registers
  BY <1>2 DEF Registers
<1>5. QED
  BY <1>2, <1>3, <1>4

(* The steps of every segment.  Nothing but the image is written to the     *)
(* image, only the second step of the setup writes the cache register, none *)
(* of them starts anything, and what passes over a step has one to pass over.*)
LEMMA SegmentIs ==
    ASSUME NEW g \in Scenario, NEW seg \in Segments
    PROVE  /\ StepsOf(g, seg) \in Seq(StepSet)
           /\ \A i \in 1 .. Len(StepsOf(g, seg)) :
                 LET s == StepsOf(g, seg)[i]
                 IN  /\ s \in StepSet /\ s.area \notin {"start", "reboot"}
                     /\ s.fail = "skip" => i + 1 <= Len(StepsOf(g, seg))
                     /\ s.area = "image" => seg = "image" /\ s \in ImageWrites(g)
                     /\ s.op = "block" => seg \in {"patch", "image"}
                     /\ seg \in {"patch", "image"} => s.op # "read" /\ s.fail = "abort"
                     /\ s.fail = "leave" => seg = "config"
                     /\ s.fail = "rung" => seg = "probe"
                     /\ s.op = "write" /\ s.area = "cache"
                           => seg = "setup" /\ i = 2 /\ FixesCache(g)
<1> DEFINE Fits(S, i) ==
             /\ S[i] \in StepSet /\ S[i].area \notin {"start", "reboot"}
             /\ S[i].fail = "skip" => i + 1 <= Len(S)
             /\ S[i].area = "image" => seg = "image" /\ S[i] \in ImageWrites(g)
             /\ S[i].op = "block" => seg \in {"patch", "image"}
             /\ seg \in {"patch", "image"} => S[i].op # "read" /\ S[i].fail = "abort"
             /\ S[i].fail = "leave" => seg = "config"
             /\ S[i].fail = "rung" => seg = "probe"
             /\ S[i].op = "write" /\ S[i].area = "cache" => seg = "setup" /\ i = 2 /\ FixesCache(g)
<1> SUFFICES /\ StepsOf(g, seg) \in Seq(StepSet)
             /\ \A i \in 1 .. Len(StepsOf(g, seg)) : Fits(StepsOf(g, seg), i)
  OBVIOUS
<1>1. CASE seg = "probe"
  <2>1. StepsOf(g, seg) = Probe
    BY <1>1 DEF StepsOf
  <2>2. \A i \in 1 .. Len(Probe) : i = 1
    BY ProbeIs
  <2>5. Probe[1] \in Registers
    BY ProbeIs, ElementOfSeq
  <2>3. Probe \in Seq(StepSet)
    BY ProbeIs, SeqMonotonic DEF Registers
  <2>4. QED
    BY <1>1, <2>1, <2>2, <2>3, <2>5, ProbeIs DEF Registers
<1>2. CASE seg = "setup"
  <2>1. StepsOf(g, seg) = SetupSteps(g)
    BY <1>2 DEF StepsOf
  <2> DEFINE S == {s \in Registers : s.fail \in {"abort", "go on"}}
  <2>2. /\ SetupSteps(g) \in Seq(S)
        /\ \A i \in 1 .. Len(SetupSteps(g)) :
                 SetupSteps(g)[i].op = "write" /\ SetupSteps(g)[i].area = "cache"
                    => i = 2 /\ FixesCache(g)
    BY SetupIs
  <2> HIDE DEF S
  <2>3. \A i \in 1 .. Len(SetupSteps(g)) : SetupSteps(g)[i] \in S
    BY <2>2, ElementOfSeq
  <2>4. S \subseteq StepSet
    BY DEF S, Registers
  <2>5. SetupSteps(g) \in Seq(StepSet)
    BY <2>2, <2>4, SeqMonotonic
  <2>6. ASSUME NEW i \in 1 .. Len(SetupSteps(g)) PROVE Fits(SetupSteps(g), i)
    <3>1. SetupSteps(g)[i] \in Registers /\ SetupSteps(g)[i].fail \in {"abort", "go on"}
      BY <2>3 DEF S
    <3>2. QED
      BY <1>2, <2>2, <3>1 DEF Registers
  <2> HIDE DEF Fits
  <2>7. QED
    BY <2>1, <2>5, <2>6
<1>3. CASE seg = "patch"
  <2>1. StepsOf(g, seg) = PatchSteps(g)
    BY <1>3 DEF StepsOf
  <2>2. PatchSteps(g) \in Seq(PatchWrites)
    BY PatchIs
  <2>3. PatchWrites \subseteq StepSet
    BY DEF PatchWrites
  <2>4. PatchSteps(g) \in Seq(StepSet)
    BY <2>2, <2>3, SeqMonotonic
  <2>5. ASSUME NEW i \in 1 .. Len(PatchSteps(g)) PROVE Fits(PatchSteps(g), i)
    <3>1. PatchSteps(g)[i] \in PatchWrites
      BY <2>2, ElementOfSeq
    <3>2. QED
      BY <1>3, <3>1 DEF PatchWrites
  <2> HIDE DEF Fits
  <2>6. QED
    BY <2>1, <2>4, <2>5
<1>4. CASE seg = "image"
  <2>1. StepsOf(g, seg) = PlanAdaptiveUpload(g)
    BY <1>4 DEF StepsOf
  <2>2. PlanAdaptiveUpload(g) \in Seq(ImageWrites(g))
    BY PlanOfImage
  <2>3. ImageWrites(g) \subseteq StepSet
    BY DEF ImageWrites
  <2>4. PlanAdaptiveUpload(g) \in Seq(StepSet)
    BY <2>2, <2>3, SeqMonotonic
  <2>5. ASSUME NEW i \in 1 .. Len(PlanAdaptiveUpload(g)) PROVE Fits(PlanAdaptiveUpload(g), i)
    <3> DEFINE s == PlanAdaptiveUpload(g)[i]
    <3>1. s \in ImageWrites(g)
      BY <2>2, ElementOfSeq
    <3> HIDE DEF s
    <3>2. s \in StepSet /\ s.op = "block" /\ s.area = "image" /\ s.fail = "abort"
      BY <3>1 DEF ImageWrites
    <3>3. QED
      BY <1>4, <3>1, <3>2 DEF s
  <2> HIDE DEF Fits
  <2>6. QED
    BY <2>1, <2>4, <2>5
<1>5. CASE seg = "config"
  <2>1. StepsOf(g, seg) = ConfigSteps
    BY <1>5 DEF StepsOf
  <2>2. ConfigSteps \in Seq(StepSet)
    BY ConfigIs, SeqMonotonic DEF Registers
  <2>3. ASSUME NEW i \in 1 .. Len(ConfigSteps) PROVE Fits(ConfigSteps, i)
    <3> DEFINE s == ConfigSteps[i]
    <3>1. s \in Registers
      BY ConfigIs, ElementOfSeq
    <3>2. i \in 1 .. 6 /\ s.area # "cache" /\ (s.fail = "skip" => i = 1)
          /\ s.fail \in {"skip", "leave", "go on"}
      BY ConfigIs
    <3>3. s \in StepSet /\ s.op \in {"read", "write"} /\ s.area \notin {"image", "start", "reboot"}
      BY <3>1 DEF Registers
    <3>4. s.fail = "skip" => i + 1 <= Len(ConfigSteps)
      <4>1. Len(ConfigSteps) = 6
        BY ConfigIs
      <4>2. QED
        BY <3>2, <4>1
    <3> HIDE DEF s
    <3>5. QED
      BY <1>5, <3>2, <3>3, <3>4 DEF s
  <2> HIDE DEF Fits
  <2>4. QED
    BY <2>1, <2>2, <2>3
<1>6. QED
  BY <1>1, <1>2, <1>3, <1>4, <1>5 DEF Segments

-----------------------------------------------------------------------------
(* Type correctness.                                                        *)

WorldType ==
    given \in Scenarios /\ late \in 0 .. MaxLate /\ rival \in BOOLEAN /\ over \in BOOLEAN
ChipType ==
    /\ at \in {"storage", "bootrom", "op", "off"} /\ mood \in Moods
    /\ done \subseteq StepSet /\ cache \in {"found", "fixed", "spoilt"}
WireType == out \in Seq(Requests) /\ in \in Seq(Confirmations)
HostType ==
    /\ pc \in Segments \cup {"idle", "detect", "switch", "open", "calibrate",
                             "reboot", "reset", "ending", "boot", "done"}
    /\ rung \in 0 .. 4 /\ conv \in Convs /\ got \in Values
    /\ handle \in {"closed", "open", "claimed"}
    /\ result \in {"none"} \cup Results /\ (result = "none" <=> pc # "done")
StepsType ==
    /\ next \in Nat /\ (pc \in Segments => next <= Len(Steps))
    /\ await \in BOOLEAN /\ (await => InStep)
TypeInv == WorldType /\ ChipType /\ WireType /\ HostType /\ StepsType

LEMMA TypeInvIs == TypeInv <=> TypeOK
BY DEF TypeInv, WorldType, ChipType, WireType, HostType, StepsType, TypeOK

(* The scenario is one the assumption admits, and the step that is due one  *)
(* of its segment.                                                          *)
LEMMA ScenarioIs ==
    ASSUME given \in Scenarios
    PROVE  /\ given \in Scenario /\ given.likes \in Convs /\ given.mcu1 \in BOOLEAN
           /\ given.ending \in {"start", "reset", "reboot"}
           /\ given.at \in {"storage", "bootrom", "op", "off"} /\ given.mood \in Moods
           /\ given.rival \in BOOLEAN /\ given.stale \in BOOLEAN
<1>1. given \in Scenario
  BY LoaderAssumption
<1>2. QED
  BY <1>1 DEF Scenario

LEMMA StepsIs ==
    ASSUME WorldType, pc \in Segments
    PROVE  Steps \in Seq(StepSet) /\ Len(Steps) \in Nat
<1>1. Steps \in Seq(StepSet)
  BY ScenarioIs, SegmentIs DEF Steps, WorldType
<1>2. QED
  BY <1>1, LenProperties

LEMMA NowIs ==
    ASSUME TypeInv, InStep
    PROVE  /\ pc \in Segments /\ next + 1 \in 1 .. Len(Steps) /\ Len(Steps) \in Nat
           /\ Now \in StepSet /\ Now.area \notin {"start", "reboot"}
           /\ Now.op \in Kinds /\ Now.area \in Areas /\ Now.fail \in Outcomes
           /\ Now.fail = "skip" => next + 2 <= Len(Steps)
           /\ Now.area = "image" => pc = "image" /\ Now \in ImageWrites(given)
           /\ Now.op = "block" => pc \in {"patch", "image"}
           /\ pc \in {"patch", "image"} => Now.op # "read" /\ Now.fail = "abort"
           /\ Now.fail = "leave" => pc = "config"
           /\ Now.fail = "rung" => pc = "probe"
           /\ Now.op = "write" /\ Now.area = "cache" => pc = "setup" /\ next = 1 /\ FixesCache(given)
<1>1. pc \in Segments /\ next \in Nat /\ next < Len(Steps) /\ Len(Steps) \in Nat
  BY StepsIs DEF TypeInv, StepsType, InStep
<1>2. next + 1 \in 1 .. Len(Steps) /\ Steps = StepsOf(given, pc) /\ Now = Steps[next + 1]
  BY <1>1 DEF Steps, Now
<1>3. given \in Scenario
  BY ScenarioIs DEF TypeInv, WorldType
<1> DEFINE i == next + 1
           s == StepsOf(given, pc)[i]
<1>4. /\ s \in StepSet /\ s.area \notin {"start", "reboot"}
      /\ s.fail = "skip" => i + 1 <= Len(StepsOf(given, pc))
      /\ s.area = "image" => pc = "image" /\ s \in ImageWrites(given)
      /\ s.op = "block" => pc \in {"patch", "image"}
      /\ pc \in {"patch", "image"} => s.op # "read" /\ s.fail = "abort"
      /\ s.fail = "leave" => pc = "config"
      /\ s.fail = "rung" => pc = "probe"
      /\ s.op = "write" /\ s.area = "cache" => pc = "setup" /\ i = 2 /\ FixesCache(given)
  BY <1>1, <1>2, <1>3, SegmentIs
<1>5. Now = s
  BY <1>2
<1> HIDE DEF s
<1>6. s.op \in Kinds /\ s.area \in Areas /\ s.fail \in Outcomes
  BY <1>4 DEF StepSet
<1>7. QED
  BY <1>1, <1>2, <1>4, <1>5, <1>6

LEMMA InitType ==
    ASSUME Init PROVE TypeInv
<1>1. WorldType
  <2>1. given \in Scenarios /\ late = 0 /\ rival = given.rival /\ over = FALSE
    BY DEF Init
  <2>2. 0 \in 0 .. MaxLate
    BY LoaderAssumption
  <2>3. rival \in BOOLEAN
    BY <2>1, ScenarioIs
  <2>4. QED
    BY <2>1, <2>2, <2>3 DEF WorldType
<1>2. ChipType /\ HostType
  BY <1>1, ScenarioIs DEF Init, WorldType, ChipType, HostType, Convs, Values, Segments
<1>3. WireType
  <2>1. [op |-> "read", area |-> "pmic"] \in Confirmations
    BY DEF Confirmations, Kinds, Areas
  <2>2. QED
    BY <1>1, <2>1, ScenarioIs DEF Init, WorldType, WireType
<1>4. StepsType
  BY DEF Init, StepsType, Segments
<1>5. QED
  BY <1>1, <1>2, <1>3, <1>4 DEF TypeInv

(* The scenario of a load is given.                                         *)
LEMMA GivenKept ==
    ASSUME [Next]_vars PROVE given' = given
<1>1. CASE UNCHANGED vars
  BY <1>1 DEF vars, world
<1>2. CASE Ladder
  BY <1>2 DEF Ladder, ProbeAsIs, ClearHalts, PortReset, ChipReboot, ReopenRebooted, NotCalibrated, world
<1>3. CASE Sequence
  BY <1>3 DEF Sequence, Accept, LoadFirmwareBundle, StartImage, EndImage, ResetBeforeConfig,
              EndConfig, world
<1>4. CASE Ending
  BY <1>4 DEF Ending, EndReset, StartApp, AwaitOperational, AwaitReboot, world
<1>5. CASE KillDaemon \/ DetectAICStage \/ ModeSwitch \/ OpenBootROM \/ Request
  BY <1>5 DEF KillDaemon, DetectAICStage, ModeSwitch, OpenBootROM, Request, SendRequest,
              WaitForCfm, TimeOut, world
<1>6. CASE Execute \/ Unplug \/ Respawn \/ Expire
  BY <1>6 DEF Execute, Unplug, Respawn, Expire, world
<1>7. QED
  BY <1>1, <1>2, <1>3, <1>4, <1>5, <1>6 DEF Next, LoadFirmware

LEMMA WorldTypeKept ==
    ASSUME TypeInv, [Next]_vars PROVE WorldType'
<1> USE DEF TypeInv, WorldType
<1>1. CASE UNCHANGED world
  BY <1>1 DEF world
<1>2. ASSUME late < MaxLate PROVE late + 1 \in 0 .. MaxLate
  BY <1>2, LoaderAssumption
<1>3. CASE KillDaemon
  BY <1>3 DEF KillDaemon
<1>4. CASE TimeOut
  BY <1>2, <1>4 DEF TimeOut
<1>5. CASE Respawn
  BY <1>5 DEF Respawn
<1>6. CASE Expire
  BY <1>6 DEF Expire
<1>7. KillDaemon \/ TimeOut \/ Respawn \/ Expire \/ UNCHANGED world
  <2>1. CASE UNCHANGED vars
    BY <2>1 DEF vars
  <2>2. CASE Ladder
    BY <2>2 DEF Ladder, ProbeAsIs, ClearHalts, PortReset, ChipReboot, ReopenRebooted, NotCalibrated
  <2>3. CASE Sequence
    BY <2>3 DEF Sequence, Accept, LoadFirmwareBundle, StartImage, EndImage, ResetBeforeConfig, EndConfig
  <2>4. CASE Ending
    BY <2>4 DEF Ending, EndReset, StartApp, AwaitOperational, AwaitReboot
  <2>5. CASE DetectAICStage \/ ModeSwitch \/ OpenBootROM \/ SendRequest \/ WaitForCfm
    BY <2>5 DEF DetectAICStage, ModeSwitch, OpenBootROM, SendRequest, WaitForCfm
  <2>6. CASE Execute \/ Unplug
    BY <2>6 DEF Execute, Unplug
  <2>7. QED
    BY <2>1, <2>2, <2>3, <2>4, <2>5, <2>6 DEF Next, LoadFirmware, Request
<1>8. QED
  BY <1>1, <1>3, <1>4, <1>5, <1>6, <1>7

(* Who changes what of the chip.                                            *)
LEMMA ChipKept ==
    ASSUME [Next]_vars
    PROVE  ModeSwitch \/ ClearHalts \/ PortReset \/ ChipReboot \/ AwaitReboot
           \/ Execute \/ Unplug \/ UNCHANGED chip
<1>1. CASE UNCHANGED vars
  BY <1>1 DEF vars
<1>2. CASE ProbeAsIs \/ ReopenRebooted \/ NotCalibrated
  BY <1>2 DEF ProbeAsIs, ReopenRebooted, NotCalibrated
<1>3. CASE Sequence
  BY <1>3 DEF Sequence, Accept, LoadFirmwareBundle, StartImage, EndImage, ResetBeforeConfig, EndConfig
<1>4. CASE EndReset \/ StartApp \/ AwaitOperational
  BY <1>4 DEF EndReset, StartApp, AwaitOperational
<1>5. CASE KillDaemon \/ DetectAICStage \/ OpenBootROM \/ SendRequest \/ WaitForCfm \/ TimeOut
  BY <1>5 DEF KillDaemon, DetectAICStage, OpenBootROM, SendRequest, WaitForCfm, TimeOut
<1>6. CASE Respawn \/ Expire
  BY <1>6 DEF Respawn, Expire
<1>7. QED
  BY <1>1, <1>2, <1>3, <1>4, <1>5, <1>6 DEF Next, LoadFirmware, Ladder, Request, Ending

(* A request on its way to the chip.                                        *)
LEMMA HeadIs ==
    ASSUME NEW S, NEW q \in Seq(S), q # <<>>
    PROVE  /\ Head(q) \in S /\ Tail(q) \in Seq(S) /\ Head(q) = q[1]
           /\ Len(q) \in Nat \ {0} /\ Len(Tail(q)) = Len(q) - 1
           /\ \A i \in 1 .. Len(q) - 1 : Tail(q)[i] = q[i + 1]
BY HeadTailProperties, LenProperties, ElementOfSeq, EmptySeq

LEMMA ChipTypeKept ==
    ASSUME TypeInv, [Next]_vars PROVE ChipType'
<1> USE DEF ChipType
<1>1. ChipType
  BY DEF TypeInv
<1>2. CASE UNCHANGED chip
  BY <1>1, <1>2 DEF chip
<1>3. CASE ModeSwitch
  BY <1>1, <1>3 DEF ModeSwitch
<1>4. CASE ClearHalts
  BY <1>1, <1>4 DEF ClearHalts, Moods
<1>5. CASE PortReset
  BY <1>1, <1>5 DEF PortReset, Moods
<1>6. CASE ChipReboot
  BY <1>1, <1>6 DEF ChipReboot
<1>7. CASE AwaitReboot
  BY <1>1, <1>7 DEF AwaitReboot
<1>8. CASE Unplug
  BY <1>1, <1>8 DEF Unplug, Moods
<1>9. CASE Execute
  <2>1. Head(out) \in Requests
    BY <1>9, HeadIs DEF Execute, TypeInv, WireType
  <2>2. Head(out).step \in StepSet
    BY <2>1 DEF Requests
  <2>3. done' \subseteq StepSet /\ cache' \in {"found", "fixed", "spoilt"}
    BY <1>1, <1>9, <2>2 DEF Execute
  <2>4. at' \in {"storage", "bootrom", "op", "off"} /\ mood' \in Moods
    BY <1>1, <1>9 DEF Execute, Moods
  <2>5. QED
    BY <2>3, <2>4
<1>10. QED
  BY <1>2, <1>3, <1>4, <1>5, <1>6, <1>7, <1>8, <1>9, ChipKept

(* Who changes what is under way: the requests, and the confirmations.      *)
LEMMA OutKept ==
    ASSUME [Next]_vars
    PROVE  PortReset \/ ChipReboot \/ SendRequest \/ ResetBeforeConfig \/ EndReset
           \/ StartApp \/ Execute \/ Unplug \/ UNCHANGED out
<1>1. CASE UNCHANGED vars
  BY <1>1 DEF vars, wire
<1>2. CASE ProbeAsIs \/ ClearHalts \/ ReopenRebooted \/ NotCalibrated
  BY <1>2 DEF ProbeAsIs, ClearHalts, ReopenRebooted, NotCalibrated, wire
<1>3. CASE Accept \/ LoadFirmwareBundle \/ StartImage \/ EndImage \/ EndConfig
  BY <1>3 DEF Accept, LoadFirmwareBundle, StartImage, EndImage, EndConfig, wire
<1>4. CASE AwaitOperational \/ AwaitReboot
  BY <1>4 DEF AwaitOperational, AwaitReboot, wire
<1>5. CASE KillDaemon \/ DetectAICStage \/ ModeSwitch \/ OpenBootROM \/ WaitForCfm \/ TimeOut
  BY <1>5 DEF KillDaemon, DetectAICStage, ModeSwitch, OpenBootROM, WaitForCfm, TimeOut, wire
<1>6. CASE Respawn \/ Expire
  BY <1>6 DEF Respawn, Expire, wire
<1>7. QED
  BY <1>1, <1>2, <1>3, <1>4, <1>5, <1>6
     DEF Next, LoadFirmware, Ladder, Request, Sequence, Ending

LEMMA InKept ==
    ASSUME [Next]_vars
    PROVE  \/ in' = <<>>
           \/ UNCHANGED in
           \/ WaitForCfm
           \/ Execute
<1>1. CASE UNCHANGED vars
  BY <1>1 DEF vars, wire
<1>2. CASE Ladder
  BY <1>2 DEF Ladder, ProbeAsIs, ClearHalts, PortReset, ChipReboot, ReopenRebooted, NotCalibrated,
              ProbeWith, OpenFails, wire
<1>3. CASE Sequence
  BY <1>3 DEF Sequence, Accept, LoadFirmwareBundle, StartImage, EndImage, ResetBeforeConfig,
              EndConfig, wire
<1>4. CASE Ending
  BY <1>4 DEF Ending, EndReset, StartApp, AwaitOperational, AwaitReboot, wire
<1>5. CASE KillDaemon \/ DetectAICStage \/ ModeSwitch \/ OpenBootROM \/ SendRequest \/ TimeOut
  BY <1>5 DEF KillDaemon, DetectAICStage, ModeSwitch, OpenBootROM, OpenFails, SendRequest, TimeOut, wire
<1>6. CASE Unplug \/ Respawn \/ Expire
  BY <1>6 DEF Unplug, Respawn, Expire, wire
<1>7. QED
  BY <1>1, <1>2, <1>3, <1>4, <1>5, <1>6 DEF Next, LoadFirmware, Request

LEMMA WireTypeKept ==
    ASSUME TypeInv, [Next]_vars PROVE WireType'
<1>1. WireType /\ got \in Values /\ conv \in Convs /\ WorldType
  BY DEF TypeInv, HostType
<1>2. out' \in Seq(Requests)
  <2>1. CASE PortReset \/ ChipReboot \/ ResetBeforeConfig \/ EndReset \/ Unplug
    <3>1. out' = <<>>
      BY <2>1 DEF PortReset, ChipReboot, ResetBeforeConfig, EndReset, Unplug
    <3>2. QED
      BY <3>1
  <2>2. CASE SendRequest
    <3> DEFINE r == [step |-> Now, conv |-> conv, val |-> got]
    <3>1. out' = Append(out, r) \/ UNCHANGED out
      BY <2>2 DEF SendRequest
    <3>2. r \in Requests
      BY <1>1, <2>2, NowIs DEF SendRequest, Requests
    <3> HIDE DEF r
    <3>3. QED
      BY <1>1, <3>1, <3>2, AppendProperties DEF WireType
  <2>3. CASE StartApp
    <3> DEFINE w == Write(given.ending, "abort")
               r == [step |-> w, conv |-> conv, val |-> got]
    <3>1. out' = Append(out, r) \/ UNCHANGED out
      BY <2>3 DEF StartApp
    <3>2. w \in StepSet
      <4>1. given.ending \in Areas /\ "abort" \in Outcomes
        BY <2>3 DEF StartApp, Areas, Outcomes
      <4>2. QED
        BY <4>1, WriteType
    <3> HIDE DEF w
    <3>3. r \in Requests
      BY <1>1, <3>2 DEF Requests
    <3> HIDE DEF r
    <3>4. QED
      BY <1>1, <3>1, <3>3, AppendProperties DEF WireType
  <2>4. CASE Execute
    BY <1>1, <2>4, HeadIs DEF Execute, WireType
  <2>5. CASE UNCHANGED out
    BY <1>1, <2>5 DEF WireType
  <2>6. QED
    BY <2>1, <2>2, <2>3, <2>4, <2>5, OutKept
<1>3. in' \in Seq(Confirmations)
  <2>1. CASE in' = <<>>
    BY <2>1
  <2>2. CASE UNCHANGED in
    BY <1>1, <2>2 DEF WireType
  <2>3. CASE WaitForCfm
    BY <1>1, <2>3, HeadIs DEF WaitForCfm, WireType
  <2>4. CASE Execute
    <3> DEFINE s == Head(out).step
               c == [op |-> s.op, area |-> s.area]
    <3>1. in' = in \/ in' = Append(in, c)
      BY <2>4 DEF Execute
    <3>2. Head(out) \in Requests
      BY <1>1, <2>4, HeadIs DEF Execute, WireType
    <3>3. s \in StepSet
      BY <3>2 DEF Requests
    <3> HIDE DEF s
    <3>4. s.op \in Kinds /\ s.area \in Areas
      BY <3>3 DEF StepSet
    <3>5. c \in Confirmations
      BY <3>4 DEF Confirmations
    <3> HIDE DEF c
    <3>6. QED
      BY <1>1, <3>1, <3>5, AppendProperties DEF WireType
  <2>5. QED
    BY <2>1, <2>2, <2>3, <2>4, InKept
<1>4. QED
  BY <1>2, <1>3 DEF WireType

LEMMA HostTypeKept ==
    ASSUME TypeInv, [Next]_vars PROVE HostType'
<1> DEFINE Places == Segments \cup {"idle", "detect", "switch", "open", "calibrate",
                                    "reboot", "reset", "ending", "boot", "done"}
<1>1. HostType /\ StepsType
  BY DEF TypeInv
<1>2. CASE UNCHANGED <<pc, rung, conv, got, handle, result>>
  BY <1>1, <1>2 DEF HostType
<1> USE DEF HostType, Return, Goes, Segments, Results
<1>3. CASE KillDaemon
  BY <1>1, <1>3 DEF KillDaemon
<1>4. CASE DetectAICStage
  BY <1>1, <1>4 DEF DetectAICStage
<1>5. CASE ModeSwitch
  BY <1>1, <1>5 DEF ModeSwitch
<1>6. CASE OpenBootROM
  BY <1>1, <1>6 DEF OpenBootROM, OpenFails
<1>7. CASE Ladder
  BY <1>1, <1>7 DEF Ladder, ProbeAsIs, ClearHalts, PortReset, ChipReboot, ReopenRebooted,
                    NotCalibrated, ProbeWith, OpenFails, Convs
<1>8. ASSUME InStep, Failed
      PROVE  /\ pc' \in Places /\ result' \in {"none"} \cup Results
             /\ result' = "none" <=> pc' # "done"
  BY <1>1, <1>8 DEF Failed, InStep
<1>9. CASE SendRequest
  BY <1>1, <1>8, <1>9 DEF SendRequest
<1>10. CASE TimeOut
  BY <1>1, <1>8, <1>10 DEF TimeOut, StepsType
<1>11. CASE WaitForCfm
  <2>1. Head(in) \in Confirmations
    BY <1>11, HeadIs DEF WaitForCfm, TypeInv, WireType
  <2>2. Head(in).area \in Values
    BY <2>1 DEF Confirmations, Values
  <2>3. QED
    BY <1>1, <1>11, <2>2 DEF WaitForCfm
<1>12. CASE Accept \/ LoadFirmwareBundle \/ StartImage
  BY <1>1, <1>12 DEF Accept, LoadFirmwareBundle, StartImage, Finished
<1>13. CASE EndImage \/ ResetBeforeConfig \/ EndConfig
  BY <1>1, <1>13 DEF EndImage, ResetBeforeConfig, EndConfig, Finished, Convs
<1>14. CASE Ending
  BY <1>1, <1>14 DEF Ending, EndReset, StartApp, AwaitOperational, AwaitReboot, Convs
<1>15. CASE Execute \/ Unplug \/ Respawn \/ Expire \/ UNCHANGED vars
  BY <1>2, <1>15 DEF Execute, Unplug, Respawn, Expire, vars, host
<1>16. QED
  BY <1>3, <1>4, <1>5, <1>6, <1>7, <1>9, <1>10, <1>11, <1>12, <1>13, <1>14, <1>15
     DEF Next, LoadFirmware, Request, Sequence

LEMMA StepsTypeKept ==
    ASSUME TypeInv, [Next]_vars PROVE StepsType'
<1>1. StepsType /\ given' = given /\ given' \in Scenario
  <2>1. given \in Scenario
    BY ScenarioIs DEF TypeInv, WorldType
  <2>2. given' = given
    BY GivenKept
  <2>3. QED
    BY <2>1, <2>2 DEF TypeInv
<1>2. await => pc \in Segments
  BY <1>1 DEF StepsType, InStep
(* Between the segments, at the start of one, and within one.               *)
<1>3. ASSUME pc' \notin Segments, await' = FALSE, next' \in Nat PROVE StepsType'
  BY <1>3 DEF StepsType
<1>4. ASSUME next' = 0, await' = FALSE PROVE StepsType'
  <2>1. ASSUME pc' \in Segments PROVE 0 <= Len(Steps)'
    <3>1. Steps' = StepsOf(given', pc')
      BY DEF Steps
    <3>2. StepsOf(given', pc') \in Seq(StepSet)
      BY <1>1, <2>1, SegmentIs
    <3> HIDE DEF Steps
    <3>3. Steps' \in Seq(StepSet)
      BY <3>1, <3>2
    <3>4. QED
      BY <3>3, LenProperties
  <2>2. QED
    BY <1>4, <2>1 DEF StepsType
<1>5. ASSUME pc' = pc, next' = next, await' \in BOOLEAN, await' => await PROVE StepsType'
  <2>1. Steps' = Steps /\ InStep' = InStep
    BY <1>1, <1>5 DEF Steps, InStep
  <2>2. QED
    BY <1>1, <1>5, <2>1 DEF StepsType
<1>6. ASSUME pc' = pc, await' = FALSE, next' \in Nat, next' <= Len(Steps) PROVE StepsType'
  <2>1. Steps' = Steps
    BY <1>1, <1>6 DEF Steps
  <2>2. QED
    BY <1>6, <2>1 DEF StepsType
<1>7. ASSUME InStep, Failed, await' = FALSE PROVE StepsType'
  <2>1. /\ pc \in Segments /\ next \in Nat /\ Now.fail \in Outcomes /\ Len(Steps) \in Nat
        /\ next + 1 <= Len(Steps) /\ (Now.fail = "skip" => next + 2 <= Len(Steps))
    BY <1>1, <1>7, NowIs DEF StepsType
  <2>2. CASE Now.fail = "abort"
    BY <1>3, <1>7, <2>1, <2>2 DEF Failed, Return, Segments
  <2>3. CASE Now.fail = "rung"
    BY <1>4, <1>7, <2>3 DEF Failed, Goes
  <2>4. CASE Now.fail = "leave"
    BY <1>4, <1>7, <2>4 DEF Failed, Goes
  <2>6. CASE Now.fail = "go on"
    <3>1. pc' = pc /\ next' = next + 1
      BY <1>7, <2>6 DEF Failed
    <3>2. next' \in Nat /\ next' <= Len(Steps)
      BY <2>1, <3>1
    <3>3. QED
      BY <1>6, <1>7, <3>1, <3>2
  <2>7. CASE Now.fail = "skip"
    <3>1. pc' = pc /\ next' = next + 2
      BY <1>7, <2>7 DEF Failed
    <3>2. next' \in Nat /\ next' <= Len(Steps)
      BY <2>1, <2>7, <3>1
    <3>3. QED
      BY <1>6, <1>7, <3>1, <3>2
  <2>8. QED
    BY <2>1, <2>2, <2>3, <2>4, <2>6, <2>7 DEF Outcomes
<1>8. CASE KillDaemon
  BY <1>1, <1>2, <1>3, <1>4, <1>8 DEF KillDaemon, Goes, Return, Segments, StepsType
<1>9. CASE DetectAICStage
  BY <1>1, <1>2, <1>3, <1>4, <1>9 DEF DetectAICStage, Goes, Return, Segments, StepsType
<1>10. CASE ModeSwitch
  <2>1. next' \in Nat /\ await' = FALSE
    BY <1>1, <1>2, <1>10 DEF ModeSwitch, Goes, Return, Segments, StepsType
  <2>2. pc' \notin Segments
    BY <1>10 DEF ModeSwitch, Goes, Return, Segments
  <2>3. QED
    BY <1>3, <2>1, <2>2
<1>11. CASE OpenBootROM
  BY <1>1, <1>2, <1>3, <1>4, <1>11 DEF OpenBootROM, OpenFails, Goes, Return, Segments, StepsType
<1>12. CASE Ladder
  <2>1. pc \notin Segments /\ await' = await
    BY <1>12 DEF Ladder, ProbeAsIs, ClearHalts, PortReset, ChipReboot, ReopenRebooted,
                 NotCalibrated, Segments
  <2>2. next' = 0 \/ (next' = next /\ pc' = "done")
    BY <1>12 DEF Ladder, ProbeAsIs, ClearHalts, PortReset, ChipReboot, ReopenRebooted,
                 NotCalibrated, ProbeWith, OpenFails, Goes, Return
  <2>3. await' = FALSE /\ next \in Nat /\ "done" \notin Segments
    BY <1>1, <1>2, <2>1 DEF StepsType, Segments
  <2>4. QED
    BY <1>3, <1>4, <2>2, <2>3
<1>13. CASE SendRequest
  <2>1. CASE Failed /\ UNCHANGED await
    <3>1. await = FALSE /\ InStep
      BY <1>1, <1>13 DEF StepsType, SendRequest
    <3>2. QED
      BY <1>7, <2>1, <3>1
  <2>2. CASE await' = TRUE /\ UNCHANGED <<pc, next>>
    <3>1. Steps' = Steps /\ InStep' = InStep /\ InStep
      BY <1>1, <1>13, <2>2 DEF Steps, InStep, SendRequest
    <3>2. QED
      BY <1>1, <2>2, <3>1 DEF StepsType
  <2>3. QED
    BY <1>13, <2>1, <2>2 DEF SendRequest
<1>14. CASE WaitForCfm
  <2>1. CASE UNCHANGED <<await, next>>
    BY <1>1, <1>5, <1>14, <2>1 DEF WaitForCfm, StepsType
  <2>2. CASE await' = FALSE /\ next' = next + 1
    <3>1. InStep /\ next \in Nat /\ pc' = pc
      BY <1>1, <1>14 DEF StepsType, WaitForCfm
    <3>2. next + 1 \in 1 .. Len(Steps) /\ Len(Steps) \in Nat
      BY <3>1, NowIs
    <3>3. next' \in Nat /\ next' <= Len(Steps)
      BY <2>2, <3>1, <3>2
    <3>4. QED
      BY <1>6, <2>2, <3>1, <3>3
  <2>3. QED
    BY <1>14, <2>1, <2>2 DEF WaitForCfm
<1>15. CASE TimeOut
  BY <1>1, <1>7, <1>15 DEF TimeOut, StepsType
<1>16. CASE Sequence
  <2>1. await' = FALSE
    BY <1>1, <1>2, <1>16 DEF Sequence, Accept, LoadFirmwareBundle, StartImage, EndImage,
                             ResetBeforeConfig, EndConfig, Finished, Segments, StepsType
  <2>2. next' = 0 \/ (next' = next /\ pc' = "done")
    BY <1>16 DEF Sequence, Accept, LoadFirmwareBundle, StartImage, EndImage, ResetBeforeConfig,
                 EndConfig, Goes, Return
  <2>3. next \in Nat /\ "done" \notin Segments
    BY <1>1 DEF StepsType, Segments
  <2>4. QED
    BY <1>3, <1>4, <2>1, <2>2, <2>3
<1>17. CASE Ending
  <2>1. pc \notin Segments /\ await' = await
    BY <1>17 DEF Ending, EndReset, StartApp, AwaitOperational, AwaitReboot, Segments
  <2>2. next' = 0 \/ (next' = next /\ pc' = "done")
    BY <1>17 DEF Ending, EndReset, StartApp, AwaitOperational, AwaitReboot, Goes, Return
  <2>3. await' = FALSE /\ next \in Nat /\ "done" \notin Segments
    BY <1>1, <1>2, <2>1 DEF StepsType, Segments
  <2>4. QED
    BY <1>3, <1>4, <2>2, <2>3
<1>18. CASE UNCHANGED host
  BY <1>1, <1>5, <1>18 DEF host, StepsType
<1>19. CASE Execute \/ Unplug \/ Respawn \/ Expire \/ UNCHANGED vars
  BY <1>18, <1>19 DEF Execute, Unplug, Respawn, Expire, vars
<1>20. QED
  BY <1>8, <1>9, <1>10, <1>11, <1>12, <1>13, <1>14, <1>15, <1>16, <1>17, <1>19
     DEF Next, LoadFirmware, Request

LEMMA TypeKept ==
    ASSUME TypeInv, [Next]_vars PROVE TypeInv'
BY WorldTypeKept, ChipTypeKept, WireTypeKept, HostTypeKept, StepsTypeKept DEF TypeInv

(* Every state has its types: a wait stands for a step of its segment, the  *)
(* steps passed over are steps there are, and the load has a result exactly *)
(* when it is done.                                                         *)
THEOREM TypeCorrect == Spec => []TypeOK
<1>1. Spec => []TypeInv
  BY InitType, TypeKept, PTL DEF Spec
<1>2. QED
  BY <1>1, TypeInvIs, PTL

-----------------------------------------------------------------------------
(* No write of the image touches a zone of the layout.                      *)

(* Where a request that is under way comes from.                            *)
Sent == [step |-> Now, conv |-> conv, val |-> got]
StartSent == [step |-> Write(given.ending, "abort"), conv |-> conv, val |-> got]
LEMMA OutIs ==
    ASSUME TypeInv, [Next]_vars, NEW i \in 1 .. Len(out')
    PROVE  \/ \E j \in 1 .. Len(out) : out'[i] = out[j]
           \/ SendRequest /\ InStep /\ out' = Append(out, Sent) /\ out'[i] = Sent
           \/ StartApp /\ pc = "ending" /\ out'[i] = StartSent
<1>1. out \in Seq(Requests) /\ Len(out) \in Nat
  BY LenProperties DEF TypeInv, WireType
<1>2. CASE PortReset \/ ChipReboot \/ ResetBeforeConfig \/ EndReset \/ Unplug
  <2>1. out' = <<>>
    BY <1>2 DEF PortReset, ChipReboot, ResetBeforeConfig, EndReset, Unplug
  <2>2. QED
    BY <2>1
<1>3. CASE UNCHANGED out
  BY <1>3
<1>4. ASSUME NEW r, out' = Append(out, r)
      PROVE  out'[i] = r \/ \E j \in 1 .. Len(out) : out'[i] = out[j]
  <2>1. Len(out') = Len(out) + 1 /\ out'[Len(out) + 1] = r
        /\ \A j \in 1 .. Len(out) : out'[j] = out[j]
    BY <1>1, <1>4
  <2>2. i = Len(out) + 1 \/ i \in 1 .. Len(out)
    BY <1>1, <2>1
  <2>3. QED
    BY <2>1, <2>2
<1>5. CASE SendRequest
  <2>1. out' = Append(out, Sent) \/ UNCHANGED out
    BY <1>5 DEF SendRequest, Sent
  <2>2. InStep
    BY <1>5 DEF SendRequest
  <2> HIDE DEF Sent
  <2>3. QED
    BY <1>3, <1>4, <1>5, <2>1, <2>2
<1>6. CASE StartApp
  <2>1. out' = Append(out, StartSent) \/ UNCHANGED out
    BY <1>6 DEF StartApp, StartSent
  <2>2. pc = "ending"
    BY <1>6 DEF StartApp
  <2>3. QED
    BY <1>3, <1>4, <1>6, <2>1, <2>2
<1>7. CASE Execute
  <2>1. out' = Tail(out) /\ out # <<>>
    BY <1>7 DEF Execute
  <2>2. Len(out') = Len(out) - 1 /\ \A j \in 1 .. Len(out) - 1 : out'[j] = out[j + 1]
    BY <1>1, <2>1, HeadIs
  <2>3. i \in 1 .. Len(out) - 1 /\ i + 1 \in 1 .. Len(out)
    BY <1>1, <2>2
  <2>4. QED
    BY <2>2, <2>3
<1>8. QED
  BY <1>2, <1>3, <1>5, <1>6, <1>7, OutKept

(* The chip executes what is under way, and nothing else.                   *)
LEMMA DoneIs ==
    ASSUME TypeInv, [Next]_vars
    PROVE  \/ done' = done
           \/ /\ Execute /\ 1 \in 1 .. Len(out) /\ out[1].conv = given.likes
              /\ done' = done \cup {out[1].step}
<1>1. CASE Execute
  <2>1. Head(out) = out[1] /\ Len(out) \in Nat \ {0}
    BY <1>1, HeadIs DEF Execute, TypeInv, WireType
  <2>2. CASE Head(out).conv # given.likes
    BY <1>1, <2>2 DEF Execute
  <2>3. CASE Head(out).conv = given.likes
    BY <1>1, <2>1, <2>3 DEF Execute
  <2>4. QED
    BY <2>2, <2>3
<1>2. CASE ModeSwitch \/ ClearHalts \/ PortReset \/ ChipReboot \/ AwaitReboot \/ Unplug
  BY <1>2 DEF ModeSwitch, ClearHalts, PortReset, ChipReboot, AwaitReboot, Unplug
<1>3. CASE UNCHANGED chip
  BY <1>3 DEF chip
<1>4. QED
  BY <1>1, <1>2, <1>3, ChipKept

(* A write of the image, under way or executed, is one of the plan.         *)
Planned(s) == s.area = "image" => s \in ImageWrites(given)
ImagePlanned ==
    (\A i \in 1 .. Len(out) : Planned(out[i].step)) /\ (\A s \in done : Planned(s))

LEMMA ImagePlannedKept ==
    ASSUME TypeInv, ImagePlanned, [Next]_vars PROVE ImagePlanned'
<1>1. given' = given
  BY GivenKept
<1>2. ASSUME NEW s PROVE Planned(s)' = Planned(s)
  BY <1>1 DEF Planned, ImageWrites, RegularZones
<1>3. ASSUME NEW i \in 1 .. Len(out') PROVE Planned(out'[i].step)
  <2>1. CASE \E j \in 1 .. Len(out) : out'[i] = out[j]
    BY <2>1 DEF ImagePlanned
  <2>2. CASE InStep /\ out'[i] = Sent
    <3>1. out'[i].step = Now
      BY <2>2 DEF Sent
    <3>2. Now.area = "image" => Now \in ImageWrites(given)
      BY <2>2, NowIs
    <3>3. QED
      BY <3>1, <3>2 DEF Planned
  <2>3. CASE StartApp /\ out'[i] = StartSent
    <3>1. out'[i].step = Write(given.ending, "abort")
      BY <2>3 DEF StartSent
    <3>2. given.ending \in Areas /\ "abort" \in Outcomes /\ given.ending # "image"
      BY <2>3 DEF StartApp, Areas, Outcomes
    <3>3. Write(given.ending, "abort").area # "image"
      BY <3>2, WriteType
    <3>4. QED
      BY <3>1, <3>3 DEF Planned
  <2>4. QED
    BY <2>1, <2>2, <2>3, OutIs
<1>4. ASSUME NEW s \in done' PROVE Planned(s)
  BY DoneIs DEF ImagePlanned
<1>5. QED
  BY <1>2, <1>3, <1>4 DEF ImagePlanned

(* In each of Modes ($AIC_HYBRID is not one), no write of the main image    *)
(* touches a zone the mode has chosen, with any answers late                *)
(* (PlanAdaptiveUpload, uploadFirmware's zones).                            *)
THEOREM ZonesAlwaysSpared == Spec => []ZonesSpared
<1>1. Init => ImagePlanned
  BY DEF Init, ImagePlanned
<1>2. TypeInv /\ ImagePlanned => ZonesSpared
  <2> SUFFICES ASSUME TypeInv, ImagePlanned, NEW u \in Touched, u \in Covered(RegularZones(given))
               PROVE  FALSE
    BY DEF ZonesSpared
  <2>1. PICK s \in done : s.area = "image" /\ u \in s.lo .. s.hi - 1
    BY DEF Touched
  <2>2. PICK z \in Range(RegularZones(given)) : u \in z.start .. z.end - 1
    BY DEF Covered
  <2>3. PICK i \in DOMAIN RegularZones(given) : z = RegularZones(given)[i]
    BY DEF Range
  <2>4. s \in ImageWrites(given)
    BY <2>1 DEF ImagePlanned, Planned
  <2>5. ~Touches(s.lo, s.hi, z) /\ s \in StepSet
    BY <2>3, <2>4 DEF ImageWrites
  <2>6. s.lo \in Nat /\ s.hi \in Nat
    <3>1. s.lo \in 0 .. ImageLen /\ s.hi \in 0 .. ImageLen
      BY <2>5 DEF StepSet
    <3>2. QED
      BY <3>1, LoaderAssumption
  <2>7. z \in ZoneSet
    <3>1. given \in Scenario
      BY ScenarioIs DEF TypeInv, WorldType
    <3>2. RegularZones(given) \in Seq(ZoneSet)
      BY <3>1, ZonesType
    <3>3. QED
      BY <2>3, <3>2, ElementOfSeq, LenProperties
  <2>8. z.start \in Nat /\ z.end \in Nat
    BY <2>7 DEF ZoneSet
  <2>9. QED
    BY <2>1, <2>2, <2>5, <2>6, <2>8 DEF Touches
<1>3. Spec => [](TypeInv /\ ImagePlanned)
  BY <1>1, InitType, TypeKept, ImagePlannedKept, PTL DEF Spec
<1>4. QED
  BY <1>2, <1>3, PTL

-----------------------------------------------------------------------------
(* The load implements Boot.                                                *)

(* The places of a load before the first request that fills the memory.     *)
Early == {"idle", "detect", "switch", "open", "calibrate", "reboot", "probe", "setup"}

(* What the loader holds for confirmed has been executed: the requests and  *)
(* confirmations of a segment are not mixed up with those of another.       *)
Confirmed ==
    /\ pc = "patch" => \A i \in 1 .. next : PatchSteps(given)[i] \in done
    /\ pc = "image" => /\ Range(PatchSteps(given)) \subseteq done
                       /\ \A i \in 1 .. next : PlanAdaptiveUpload(given)[i] \in done
    /\ pc \in {"reset", "config", "ending", "boot"} => Whole

(* Until the first block is confirmed, requests of the setup that were      *)
(* given up may still be under way, but before it, and none of a block.     *)
FirstBlock ==
    pc \in Early \/ (pc = "patch" /\ next = 0) =>
        /\ \A i \in 1 .. Len(out) : out[i].step.op = "block" =>
               pc = "patch" /\ await /\ i = Len(out) /\ out[i].step = Now
        /\ \A i \in 1 .. Len(in) : in[i].op = "block" =>
               pc = "patch" /\ await /\ i = Len(in) /\ out = <<>> /\ Now \in done

(* From then on only the request that is due is under way, or its answer.   *)
OneByOne ==
    pc = "image" \/ (pc = "patch" /\ next > 0) =>
        \/ out = <<>> /\ in = <<>>
        \/ await /\ in = <<>> /\ Len(out) = 1 /\ out[1].step = Now
        \/ await /\ out = <<>> /\ Len(in) = 1 /\ Now \in done

(* A start is only asked for when the image is whole.                       *)
StartsWhole == \A i \in 1 .. Len(out) : out[i].step.area = "start" => Whole

LoadInv == Confirmed /\ FirstBlock /\ OneByOne /\ StartsWhole

(* What was executed stays executed.                                        *)
LEMMA Monotone ==
    ASSUME TypeInv, [Next]_vars
    PROVE  done \subseteq done' /\ (Whole => Whole') /\ Payload \subseteq Payload'
<1>1. done \subseteq done' /\ given' = given
  BY DoneIs, GivenKept
<1>2. Touched \subseteq Touched'
  BY <1>1 DEF Touched
<1>3. PatchSteps(given)' = PatchSteps(given) /\ Covered(Zones(given))' = Covered(Zones(given))
  BY <1>1 DEF PatchSteps, Covered, Zones, RegularZones
<1>4. Whole => Whole'
  BY <1>1, <1>2, <1>3 DEF Whole
<1>5. Payload \subseteq Payload'
  BY <1>1 DEF Payload
<1>6. QED
  BY <1>1, <1>4, <1>5

(* Where the places of a load are reached from.                             *)
Late == {"reset", "config", "ending", "boot"}
LEMMA WhereFrom ==
    ASSUME TypeInv, [Next]_vars
    PROVE  /\ pc' \in Early => pc \in Early
           /\ pc' = "patch" => pc = "patch" \/ LoadFirmwareBundle
           /\ pc' = "image" => pc = "image" \/ StartImage
           /\ pc' \in Late => pc \in Late \/ EndImage
<1> DEFINE Goal == /\ pc' \in Early => pc \in Early
                   /\ pc' = "patch" => pc = "patch" \/ LoadFirmwareBundle
                   /\ pc' = "image" => pc = "image" \/ StartImage
                   /\ pc' \in Late => pc \in Late \/ EndImage
<1>1. CASE UNCHANGED pc
  BY <1>1
<1>2. CASE pc' = "done"
  BY <1>2 DEF Early, Late
<1>3. ASSUME InStep, Failed PROVE Goal
  <2>1. /\ Now.fail = "leave" => pc = "config"
        /\ Now.fail = "rung" => pc = "probe"
    BY <1>3, NowIs
  <2>2. QED
    BY <1>3, <2>1 DEF Failed, Return, Goes, Early, Late
<1>4. CASE Ladder
  BY <1>4 DEF Ladder, ProbeAsIs, ClearHalts, PortReset, ChipReboot, ReopenRebooted, NotCalibrated,
              ProbeWith, OpenFails, Goes, Return, Early, Late
<1>5. CASE KillDaemon \/ DetectAICStage \/ ModeSwitch \/ OpenBootROM
  BY <1>5 DEF KillDaemon, DetectAICStage, ModeSwitch, OpenBootROM, OpenFails, Goes, Return, Early, Late
<1>6. CASE Accept \/ ResetBeforeConfig \/ EndConfig
  BY <1>6 DEF Accept, ResetBeforeConfig, EndConfig, Finished, Goes, Early, Late
<1>7. CASE LoadFirmwareBundle
  BY <1>7 DEF LoadFirmwareBundle, Finished, Goes, Return, Early, Late
<1>8. CASE StartImage
  BY <1>8 DEF StartImage, Goes, Return, Early, Late
<1>9. CASE EndImage
  BY <1>9 DEF EndImage, Goes, Early, Late
<1>10. CASE Ending
  BY <1>10 DEF Ending, EndReset, StartApp, AwaitOperational, AwaitReboot, Goes, Return, Early, Late
<1>11. CASE SendRequest
  BY <1>1, <1>3, <1>11 DEF SendRequest
<1>12. CASE TimeOut
  BY <1>3, <1>12 DEF TimeOut, TypeInv, StepsType
<1>13. CASE WaitForCfm \/ Execute \/ Unplug \/ Respawn \/ Expire \/ UNCHANGED vars
  BY <1>1, <1>13 DEF WaitForCfm, Execute, Unplug, Respawn, Expire, host, vars
<1>14. QED
  BY <1>4, <1>5, <1>6, <1>7, <1>8, <1>9, <1>10, <1>11, <1>12, <1>13
     DEF Next, LoadFirmware, Request, Sequence

(* What may happen while the patch, or the image, is uploaded.              *)
Uploading == pc \in {"patch", "image"}
LEMMA WhileUploading ==
    ASSUME TypeInv, [Next]_vars, Uploading, pc' = pc
    PROVE  \/ /\ out' = Append(out, Sent) /\ ~await /\ await' /\ InStep
              /\ UNCHANGED <<next, in, done>>
           \/ WaitForCfm
           \/ Execute
           \/ out' = <<>> /\ in' = <<>> /\ UNCHANGED <<next, await, done>>
           \/ UNCHANGED <<next, await, out, in, done>>
<1>1. ASSUME InStep, Failed PROVE FALSE
  <2>1. Now.fail = "abort"
    BY <1>1, NowIs DEF Uploading
  <2>2. pc' = "done"
    BY <1>1, <2>1 DEF Failed, Return
  <2>3. QED
    BY <2>2 DEF Uploading
<1>2. CASE SendRequest
  BY <1>1, <1>2 DEF SendRequest, Sent, chip
<1>3. CASE TimeOut
  BY <1>1, <1>3 DEF TimeOut, TypeInv, StepsType
<1>4. CASE WaitForCfm \/ Execute
  BY <1>4
<1>5. CASE Unplug
  BY <1>5 DEF Unplug, host
<1>6. CASE Respawn \/ Expire \/ UNCHANGED vars
  BY <1>6 DEF Respawn, Expire, vars, host, chip, wire
<1>7. ~KillDaemon /\ ~DetectAICStage /\ ~ModeSwitch /\ ~OpenBootROM
  BY DEF KillDaemon, DetectAICStage, ModeSwitch, OpenBootROM, Uploading
<1>8. ~Ladder
  BY DEF Ladder, ProbeAsIs, ClearHalts, PortReset, ChipReboot, ReopenRebooted, NotCalibrated, Uploading
<1>9. ~Ending
  BY DEF Ending, EndReset, StartApp, AwaitOperational, AwaitReboot, Uploading
<1>10. ~Sequence
  BY DEF Sequence, Accept, LoadFirmwareBundle, StartImage, EndImage, ResetBeforeConfig, EndConfig,
         Finished, Goes, Return, Uploading
<1>11. QED
  BY <1>2, <1>3, <1>4, <1>5, <1>6, <1>7, <1>8, <1>9, <1>10 DEF Next, LoadFirmware, Request

(* The step that is due changes only with its place.                        *)
LEMMA NowKept ==
    ASSUME [Next]_vars, pc' = pc, next' = next PROVE Now' = Now
BY GivenKept DEF Now, Steps

(* An upload holds a step for confirmed when it has been executed.          *)
LEMMA ConfirmedNow ==
    ASSUME TypeInv, LoadInv, Uploading, WaitForCfm, Head(in).op = Now.op
    PROVE  Now \in done /\ out = <<>> /\ in' = <<>>
<1>1. /\ InStep /\ in # <<>> /\ in \in Seq(Confirmations) /\ in' = Tail(in)
  BY DEF WaitForCfm, TypeInv, StepsType, WireType
<1>2. Head(in) = in[1] /\ Len(in) \in Nat \ {0} /\ Tail(in) \in Seq(Confirmations)
      /\ Len(Tail(in)) = Len(in) - 1
  BY <1>1, HeadIs
<1>3. Len(in) = 1 => in' = <<>>
  BY <1>1, <1>2, EmptySeq
<1>4. next \in Nat
  BY DEF TypeInv, StepsType
<1>5. CASE pc = "patch" /\ next = 0
  <2>1. Now = PatchSteps(given)[1]
    BY <1>5 DEF Now, Steps, StepsOf
  <2>2. given \in Scenario
    BY ScenarioIs DEF TypeInv, WorldType
  <2>3. Now.op = "block"
    BY <2>1, <2>2, PatchIs
  <2>4. 1 \in 1 .. Len(in) /\ in[1].op = "block"
    BY <1>2, <2>3
  <2>5. 1 = Len(in) /\ out = <<>> /\ Now \in done
    BY <1>5, <2>4 DEF LoadInv, FirstBlock
  <2>6. QED
    BY <1>3, <2>5
<1>6. CASE pc = "image" \/ (pc = "patch" /\ next > 0)
  <2>1. out = <<>> /\ Len(in) = 1 /\ Now \in done
    BY <1>1, <1>6 DEF LoadInv, OneByOne
  <2>2. QED
    BY <1>3, <2>1
<1>7. QED
  BY <1>4, <1>5, <1>6 DEF Uploading

(* Where a confirmation that is under way comes from.                       *)
LEMMA InIs ==
    ASSUME TypeInv, [Next]_vars, NEW i \in 1 .. Len(in')
    PROVE  \/ \E j \in 1 .. Len(in) : in'[i] = in[j]
           \/ Execute /\ 1 \in 1 .. Len(out) /\ in'[i].op = out[1].step.op
<1>1. in \in Seq(Confirmations) /\ Len(in) \in Nat
  BY LenProperties DEF TypeInv, WireType
<1>2. CASE in' = <<>>
  BY <1>2
<1>3. CASE UNCHANGED in
  BY <1>3
<1>4. CASE WaitForCfm
  <2>1. in' = Tail(in) /\ in # <<>>
    BY <1>4 DEF WaitForCfm
  <2>2. Len(in') = Len(in) - 1 /\ \A j \in 1 .. Len(in) - 1 : in'[j] = in[j + 1]
    BY <1>1, <2>1, HeadIs
  <2>3. i \in 1 .. Len(in) - 1 /\ i + 1 \in 1 .. Len(in)
    BY <1>1, <2>2
  <2>4. QED
    BY <2>2, <2>3
<1>5. CASE Execute
  <2> DEFINE c == [op |-> Head(out).step.op, area |-> Head(out).step.area]
  <2>1. in' = in \/ in' = Append(in, c)
    BY <1>5 DEF Execute
  <2>2. Head(out) = out[1] /\ Len(out) \in Nat \ {0}
    BY <1>5, HeadIs DEF Execute, TypeInv, WireType
  <2>3. c.op = out[1].step.op
    BY <2>2
  <2> HIDE DEF c
  <2>4. CASE in' = Append(in, c)
    <3>1. Len(in') = Len(in) + 1 /\ in'[Len(in) + 1] = c
          /\ \A j \in 1 .. Len(in) : in'[j] = in[j]
      BY <1>1, <2>4
    <3>2. i = Len(in) + 1 \/ i \in 1 .. Len(in)
      BY <1>1, <3>1
    <3>3. QED
      BY <1>5, <2>2, <2>3, <3>1, <3>2
  <2>5. QED
    BY <1>3, <2>1, <2>4
<1>6. QED
  BY <1>2, <1>3, <1>4, <1>5, InKept

(* A whole plan that was executed leaves the image whole.                   *)
LEMMA PlanMakesWhole ==
    ASSUME WorldType, Range(PatchSteps(given)) \subseteq done,
           \A i \in 1 .. Len(PlanAdaptiveUpload(given)) : PlanAdaptiveUpload(given)[i] \in done
    PROVE  Whole
<1> DEFINE plan == PlanAdaptiveUpload(given)
<1>1. given \in Scenario
  BY ScenarioIs DEF WorldType
<1>2. /\ plan \in Seq(ImageWrites(given)) /\ DOMAIN plan = 1 .. Len(plan)
      /\ \A u \in 0 .. ImageLen - 1 : u \in Covered(Zones(given)) \/ Writes(plan, u)
  BY <1>1, PlanOfImage, LenProperties
<1> HIDE DEF plan
<1>3. ASSUME NEW u \in 0 .. ImageLen - 1, u \notin Covered(Zones(given)) PROVE u \in Touched
  <2>1. PICK i \in DOMAIN plan : u \in plan[i].lo .. plan[i].hi - 1
    BY <1>2, <1>3 DEF Writes
  <2>2. plan[i] \in done
    BY <1>2 DEF plan
  <2>3. plan[i] \in ImageWrites(given)
    BY <1>2, ElementOfSeq
  <2>4. plan[i].area = "image"
    BY <2>3 DEF ImageWrites
  <2>5. QED
    BY <2>1, <2>2, <2>4 DEF Touched
<1>4. QED
  BY <1>3 DEF Whole

LEMMA ConfirmedKept ==
    ASSUME TypeInv, LoadInv, [Next]_vars PROVE Confirmed'
<1>1. /\ Confirmed /\ done \subseteq done' /\ (Whole => Whole') /\ given' = given
      /\ given \in Scenario /\ next \in Nat
  BY Monotone, GivenKept, ScenarioIs DEF LoadInv, TypeInv, WorldType, StepsType
<1>2. PatchSteps(given)' = PatchSteps(given)
      /\ PlanAdaptiveUpload(given)' = PlanAdaptiveUpload(given)
  BY <1>1
(* Within a segment, a step is confirmed that was executed.                 *)
<1>3. ASSUME Uploading, pc' = pc
      PROVE  next' = next \/ (next' = next + 1 /\ InStep /\ Now \in done)
  <2>1. CASE WaitForCfm
    <3>1. CASE Head(in).op = Now.op
      BY <1>3, <2>1, <3>1, ConfirmedNow DEF WaitForCfm, TypeInv, StepsType
    <3>2. CASE Head(in).op # Now.op
      BY <2>1, <3>2 DEF WaitForCfm
    <3>3. QED
      BY <3>1, <3>2
  <2>2. CASE Execute
    BY <2>2 DEF Execute, host
  <2>3. QED
    BY <1>3, <2>1, <2>2, WhileUploading
<1>4. Steps = StepsOf(given, pc) /\ Now = Steps[next + 1]
  BY DEF Steps, Now
<1>5. ASSUME pc' = "patch", NEW i \in 1 .. next' PROVE PatchSteps(given)[i] \in done'
  <2>1. CASE LoadFirmwareBundle
    <3>1. next' = 0
      BY <1>5, <2>1 DEF LoadFirmwareBundle, Goes, Return
    <3>2. QED
      BY <1>5, <3>1
  <2>2. CASE pc = "patch"
    <3>1. \A j \in 1 .. next : PatchSteps(given)[j] \in done
      BY <1>1, <2>2 DEF Confirmed
    <3>2. Uploading /\ Steps = PatchSteps(given)
      BY <1>4, <2>2 DEF Uploading, StepsOf
    <3>3. next' = next \/ (next' = next + 1 /\ PatchSteps(given)[next + 1] \in done)
      BY <1>3, <1>4, <1>5, <2>2, <3>2
    <3>4. i \in 1 .. next \/ (i = next + 1 /\ PatchSteps(given)[next + 1] \in done)
      BY <1>1, <1>5, <3>3
    <3>5. QED
      BY <1>1, <3>1, <3>4
  <2>3. QED
    BY <1>5, <2>1, <2>2, WhereFrom
<1>6. ASSUME pc' = "image" PROVE Range(PatchSteps(given)) \subseteq done'
  <2>1. CASE pc = "image"
    BY <1>1, <2>1 DEF Confirmed
  <2>2. CASE StartImage
    <3>1. pc = "patch" /\ next >= Len(Steps) /\ Steps = PatchSteps(given)
      BY <1>4, <2>2 DEF StartImage, Finished, StepsOf
    <3>2. PatchSteps(given) \in Seq(PatchWrites)
      BY <1>1, PatchIs
    <3>3. DOMAIN PatchSteps(given) = 1 .. Len(PatchSteps(given)) /\ Len(PatchSteps(given)) \in Nat
      BY <3>2, LenProperties
    <3>4. \A j \in 1 .. next : PatchSteps(given)[j] \in done
      BY <1>1, <3>1 DEF Confirmed
    <3>5. \A j \in DOMAIN PatchSteps(given) : PatchSteps(given)[j] \in done
      BY <1>1, <3>1, <3>3, <3>4
    <3>6. QED
      BY <1>1, <3>5 DEF Range
  <2>3. QED
    BY <1>6, <2>1, <2>2, WhereFrom
<1>7. ASSUME pc' = "image", NEW i \in 1 .. next' PROVE PlanAdaptiveUpload(given)[i] \in done'
  <2>1. CASE StartImage
    <3>1. next' = 0
      BY <1>7, <2>1 DEF StartImage, Goes, Return
    <3>2. QED
      BY <1>7, <3>1
  <2>2. CASE pc = "image"
    <3>1. \A j \in 1 .. next : PlanAdaptiveUpload(given)[j] \in done
      BY <1>1, <2>2 DEF Confirmed
    <3>2. Uploading /\ Steps = PlanAdaptiveUpload(given)
      BY <1>4, <2>2 DEF Uploading, StepsOf
    <3>3. next' = next \/ (next' = next + 1 /\ PlanAdaptiveUpload(given)[next + 1] \in done)
      BY <1>3, <1>4, <1>7, <2>2, <3>2
    <3>4. i \in 1 .. next \/ (i = next + 1 /\ PlanAdaptiveUpload(given)[next + 1] \in done)
      BY <1>1, <1>7, <3>3
    <3>5. QED
      BY <1>1, <3>1, <3>4
  <2>3. QED
    BY <1>7, <2>1, <2>2, WhereFrom
<1>8. ASSUME pc' \in Late PROVE Whole'
  <2>1. CASE pc \in Late
    BY <1>1, <2>1 DEF Confirmed, Late
  <2>2. CASE EndImage
    <3>1. pc = "image" /\ next >= Len(Steps) /\ Steps = PlanAdaptiveUpload(given)
      BY <1>4, <2>2 DEF EndImage, Finished, StepsOf
    <3>2. Len(Steps) \in Nat
      BY <3>1, StepsIs DEF TypeInv, Segments
    <3>3. \A j \in 1 .. Len(PlanAdaptiveUpload(given)) : PlanAdaptiveUpload(given)[j] \in done
      BY <1>1, <3>1, <3>2 DEF Confirmed
    <3>4. Range(PatchSteps(given)) \subseteq done
      BY <1>1, <3>1 DEF Confirmed
    <3>5. QED
      BY <1>1, <3>3, <3>4, PlanMakesWhole DEF TypeInv
  <2>3. QED
    BY <1>8, <2>1, <2>2, WhereFrom
<1>9. QED
  BY <1>2, <1>5, <1>6, <1>7, <1>8 DEF Confirmed, Late

LEMMA FirstBlockKept ==
    ASSUME TypeInv, LoadInv, [Next]_vars,
           pc' \in Early \/ (pc' = "patch" /\ next' = 0)
    PROVE  /\ \A i \in 1 .. Len(out') : out'[i].step.op = "block" =>
                  pc' = "patch" /\ await' /\ i = Len(out') /\ out'[i].step = Now'
           /\ \A i \in 1 .. Len(in') : in'[i].op = "block" =>
                  pc' = "patch" /\ await' /\ i = Len(in') /\ out' = <<>> /\ Now' \in done'
<1>1. /\ FirstBlock /\ next \in Nat /\ (pc = "patch" => pc \notin Early)
      /\ out \in Seq(Requests) /\ Len(out) \in Nat /\ in \in Seq(Confirmations) /\ Len(in) \in Nat
  BY LenProperties DEF LoadInv, TypeInv, StepsType, WireType, Early
(* Before the patch no block is under way.                                  *)
<1>2. ASSUME pc \in Early
      PROVE  /\ \A i \in 1 .. Len(out') : out'[i].step.op # "block"
             /\ \A i \in 1 .. Len(in') : in'[i].op # "block"
  <2>1. /\ \A i \in 1 .. Len(out) : out[i].step.op # "block"
        /\ \A i \in 1 .. Len(in) : in[i].op # "block"
    BY <1>1, <1>2 DEF FirstBlock, Early
  <2>2. ASSUME NEW i \in 1 .. Len(out') PROVE out'[i].step.op # "block"
    <3>1. CASE InStep /\ out'[i] = Sent
      <4>1. out'[i].step = Now
        BY <3>1 DEF Sent
      <4>2. Now.op # "block"
        BY <1>2, <3>1, NowIs DEF Early
      <4>3. QED
        BY <4>1, <4>2
    <3>2. QED
      BY <1>2, <2>1, <3>1, OutIs DEF Early
  <2>3. ASSUME NEW i \in 1 .. Len(in') PROVE in'[i].op # "block"
    BY <2>1, InIs
  <2>4. QED
    BY <2>2, <2>3
<1>3. CASE pc \in Early
  BY <1>2, <1>3
<1>4. CASE pc \notin Early
  <2>1. pc = "patch" /\ pc' = "patch" /\ next' = 0
    BY <1>4, WhereFrom DEF LoadFirmwareBundle, Finished, Early
  <2>2. Uploading /\ pc' = pc
    BY <2>1 DEF Uploading
  <2>3. ASSUME NEW i \in 1 .. Len(out), out[i].step.op = "block", next = 0
        PROVE  await /\ i = Len(out) /\ out[i].step = Now
    BY <1>1, <2>1, <2>3 DEF FirstBlock
  <2>4. ASSUME NEW i \in 1 .. Len(in), in[i].op = "block", next = 0
        PROVE  await /\ i = Len(in) /\ out = <<>> /\ Now \in done
    BY <1>1, <2>1, <2>4 DEF FirstBlock
  <2>5. ASSUME next' = next PROVE next = 0 /\ Now' = Now
    BY <2>1, <2>2, <2>5, NowKept
  <2>6. CASE out' = Append(out, Sent) /\ ~await /\ await' /\ UNCHANGED <<next, in, done>>
    <3>1. Len(out') = Len(out) + 1 /\ out'[Len(out) + 1] = Sent
          /\ \A j \in 1 .. Len(out) : out'[j] = out[j]
      BY <1>1, <2>6
    <3>2. Sent.step = Now
      BY DEF Sent
    <3>3. ASSUME NEW i \in 1 .. Len(out'), out'[i].step.op = "block"
          PROVE  i = Len(out') /\ out'[i].step = Now'
      <4>1. i \in 1 .. Len(out) \/ i = Len(out) + 1
        BY <1>1, <3>1
      <4>2. QED
        BY <2>3, <2>5, <2>6, <3>1, <3>2, <3>3, <4>1
    <3>4. \A i \in 1 .. Len(in') : in'[i].op # "block"
      BY <2>4, <2>5, <2>6
    <3>5. QED
      BY <2>1, <2>6, <3>3, <3>4
  <2>7. CASE WaitForCfm
    <3>1. /\ in' = Tail(in) /\ in # <<>> /\ UNCHANGED <<out, done>>
          /\ next' = next + 1 \/ UNCHANGED <<await, next>>
      BY <2>7 DEF WaitForCfm, chip
    <3>2. UNCHANGED <<await, next>>
      BY <1>1, <2>1, <3>1
    <3>3. Len(in') = Len(in) - 1 /\ \A j \in 1 .. Len(in) - 1 : in'[j] = in[j + 1]
      BY <1>1, <3>1, HeadIs
    <3>4. ASSUME NEW i \in 1 .. Len(in'), in'[i].op = "block"
          PROVE  await /\ i = Len(in') /\ out = <<>> /\ Now \in done
      <4>1. i + 1 \in 1 .. Len(in) /\ in[i + 1].op = "block"
        BY <1>1, <3>3, <3>4
      <4>2. QED
        BY <1>1, <2>4, <2>5, <3>2, <3>3, <4>1
    <3>5. QED
      BY <2>1, <2>3, <2>5, <3>1, <3>2, <3>4
  <2>8. CASE Execute
    <3>1. out' = Tail(out) /\ out # <<>> /\ UNCHANGED <<next, await>>
      BY <2>8 DEF Execute, host
    <3>2. /\ Len(out') = Len(out) - 1 /\ Head(out) = out[1] /\ Tail(out) \in Seq(Requests)
          /\ \A j \in 1 .. Len(out) - 1 : out'[j] = out[j + 1]
      BY <1>1, <3>1, HeadIs
    <3>3. ASSUME NEW i \in 1 .. Len(out'), out'[i].step.op = "block"
          PROVE  await' /\ i = Len(out') /\ out'[i].step = Now'
      <4>1. i + 1 \in 1 .. Len(out) /\ out[i + 1].step.op = "block" /\ out'[i] = out[i + 1]
        BY <1>1, <3>2, <3>3
      <4>2. await /\ i + 1 = Len(out) /\ out[i + 1].step = Now
        BY <2>3, <2>5, <3>1, <4>1
      <4>3. i = Len(out')
        BY <1>1, <3>2, <4>2
      <4>4. QED
        BY <2>5, <3>1, <4>1, <4>2, <4>3
    <3>4. \A j \in 1 .. Len(in) : in[j].op # "block"
      BY <2>4, <2>5, <3>1
    <3> DEFINE r == Head(out)
               c == [op |-> r.step.op, area |-> r.step.area]
    <3>5. CASE r.conv # given.likes
      <4>1. in' = in
        BY <2>8, <3>5 DEF Execute
      <4>2. QED
        BY <2>1, <3>3, <3>4, <4>1
    <3>6. CASE r.conv = given.likes
      <4>1. in' \in {in, Append(in, c)} /\ done' = done \cup {r.step}
        BY <2>8, <3>6 DEF Execute
      <4>2. c.op = r.step.op
        OBVIOUS
      <4> HIDE DEF c
      <4>3. ASSUME NEW i \in 1 .. Len(in'), in'[i].op = "block"
            PROVE  await' /\ i = Len(in') /\ out' = <<>> /\ Now' \in done'
        <5>1. in' = Append(in, c)
          BY <3>4, <4>1, <4>3
        <5>2. Len(in') = Len(in) + 1 /\ in'[Len(in) + 1] = c
              /\ \A j \in 1 .. Len(in) : in'[j] = in[j]
          BY <1>1, <5>1
        <5>3. i = Len(in')
          BY <1>1, <3>4, <4>3, <5>2
        <5>4. 1 \in 1 .. Len(out) /\ out[1].step.op = "block"
          <6>1. r.step.op = "block"
            BY <4>2, <4>3, <5>2, <5>3
          <6>2. Len(out) \in Nat \ {0}
            BY <1>1, <3>1, HeadIs
          <6>3. QED
            BY <3>2, <6>1, <6>2
        <5>5. await /\ 1 = Len(out) /\ out[1].step = Now
          BY <2>3, <2>5, <3>1, <5>4
        <5>6. out' = <<>>
          BY <3>1, <3>2, <5>5, EmptySeq
        <5>7. QED
          BY <2>5, <3>1, <3>2, <4>1, <5>3, <5>5, <5>6
      <4>4. QED
        BY <2>1, <3>3, <4>3
    <3>7. QED
      BY <3>5, <3>6
  <2>9. CASE out' = <<>> /\ in' = <<>>
    BY <2>9
  <2>10. CASE UNCHANGED <<next, await, out, in, done>>
    BY <2>1, <2>3, <2>4, <2>5, <2>10
  <2>11. QED
    BY <2>2, <2>6, <2>7, <2>8, <2>9, <2>10, WhileUploading
<1>5. QED
  BY <1>3, <1>4

LEMMA OneByOneKept ==
    ASSUME TypeInv, LoadInv, [Next]_vars,
           pc' = "image" \/ (pc' = "patch" /\ next' > 0)
    PROVE  \/ out' = <<>> /\ in' = <<>>
           \/ await' /\ in' = <<>> /\ Len(out') = 1 /\ out'[1].step = Now'
           \/ await' /\ out' = <<>> /\ Len(in') = 1 /\ Now' \in done'
<1>1. /\ OneByOne /\ next \in Nat
      /\ out \in Seq(Requests) /\ Len(out) \in Nat /\ in \in Seq(Confirmations) /\ Len(in) \in Nat
  BY LenProperties DEF LoadInv, TypeInv, StepsType, WireType
<1>2. CASE pc' # pc
  <2>1. StartImage
    <3>1. LoadFirmwareBundle => next' = 0 \/ pc' = "done"
      BY DEF LoadFirmwareBundle, Goes, Return
    <3>2. QED
      BY <1>2, <3>1, WhereFrom
  <2>2. pc = "patch" /\ ~await /\ next >= Len(Steps) /\ UNCHANGED wire
    BY <2>1 DEF StartImage, Finished
  <2>3. Steps = PatchSteps(given) /\ given \in Scenario
    BY <2>2, ScenarioIs DEF Steps, StepsOf, TypeInv, WorldType
  <2>4. Len(PatchSteps(given)) >= 1 /\ Len(PatchSteps(given)) \in Nat
    BY <2>3, PatchIs, LenProperties
  <2>5. next > 0
    BY <1>1, <2>2, <2>3, <2>4
  <2>6. out = <<>> /\ in = <<>>
    BY <1>1, <2>2, <2>5 DEF OneByOne
  <2>7. QED
    BY <2>2, <2>6 DEF wire
<1>3. CASE pc' = pc
  <2>1. Uploading
    BY <1>3 DEF Uploading
  <2>2. ASSUME pc = "image" \/ next > 0
        PROVE  \/ out = <<>> /\ in = <<>>
               \/ await /\ in = <<>> /\ Len(out) = 1 /\ out[1].step = Now
               \/ await /\ out = <<>> /\ Len(in) = 1 /\ Now \in done
    BY <1>1, <2>1, <2>2 DEF OneByOne, Uploading
  <2>3. ASSUME next' = next PROVE (pc = "image" \/ next > 0) /\ Now' = Now
    BY <1>3, <2>3, NowKept
  <2>4. CASE out' = Append(out, Sent) /\ ~await /\ await' /\ UNCHANGED <<next, in, done>>
    <3>1. out = <<>> /\ in = <<>>
      BY <2>2, <2>3, <2>4
    <3>2. Len(out') = 1 /\ out'[1] = Sent
      BY <1>1, <2>4, <3>1
    <3>3. Sent.step = Now
      BY DEF Sent
    <3>4. QED
      BY <2>3, <2>4, <3>1, <3>2, <3>3
  <2>5. CASE WaitForCfm
    <3>1. UNCHANGED <<out, done>> /\ in' = Tail(in) /\ in # <<>>
      BY <2>5 DEF WaitForCfm, chip
    <3>2. CASE Head(in).op = Now.op
      BY <2>1, <2>5, <3>1, <3>2, ConfirmedNow
    <3>3. CASE Head(in).op # Now.op
      <4>1. UNCHANGED next
        BY <2>5, <3>3 DEF WaitForCfm
      <4>2. out = <<>> /\ Len(in) = 1
        BY <2>2, <2>3, <3>1, <4>1
      <4>3. Tail(in) \in Seq(Confirmations) /\ Len(Tail(in)) = 0
        BY <1>1, <3>1, <4>2, HeadIs
      <4>4. in' = <<>>
        BY <3>1, <4>3, EmptySeq
      <4>5. QED
        BY <3>1, <4>2, <4>4
    <3>4. QED
      BY <3>2, <3>3
  <2>6. CASE Execute
    <3>1. out' = Tail(out) /\ out # <<>> /\ UNCHANGED <<next, await>>
      BY <2>6 DEF Execute, host
    <3>2. await /\ in = <<>> /\ Len(out) = 1 /\ out[1].step = Now
      BY <2>2, <2>3, <3>1
    <3>3. Head(out) = out[1] /\ Tail(out) \in Seq(Requests) /\ Len(Tail(out)) = 0
      BY <1>1, <3>1, <3>2, HeadIs
    <3>4. out' = <<>>
      BY <3>1, <3>3, EmptySeq
    <3> DEFINE c == [op |-> Head(out).step.op, area |-> Head(out).step.area]
    <3>5. in' = in \/ (in' = Append(in, c) /\ done' = done \cup {Head(out).step})
      <4>1. CASE Head(out).conv # given.likes
        BY <2>6, <4>1 DEF Execute
      <4>2. CASE Head(out).conv = given.likes
        BY <2>6, <4>2 DEF Execute
      <4>3. QED
        BY <4>1, <4>2
    <3> HIDE DEF c
    <3>6. CASE in' = in
      BY <3>2, <3>4, <3>6
    <3>7. CASE in' = Append(in, c) /\ done' = done \cup {Head(out).step}
      <4>1. Len(in') = 1
        BY <3>2, <3>7
      <4>2. QED
        BY <2>3, <3>1, <3>2, <3>3, <3>4, <3>7, <4>1
    <3>8. QED
      BY <3>5, <3>6, <3>7
  <2>7. CASE out' = <<>> /\ in' = <<>>
    BY <2>7
  <2>8. CASE UNCHANGED <<next, await, out, in, done>>
    BY <2>2, <2>3, <2>8
  <2>9. QED
    BY <1>3, <2>1, <2>4, <2>5, <2>6, <2>7, <2>8, WhileUploading
<1>4. QED
  BY <1>2, <1>3

LEMMA StartsWholeKept ==
    ASSUME TypeInv, LoadInv, [Next]_vars PROVE StartsWhole'
<1> SUFFICES ASSUME NEW i \in 1 .. Len(out'), out'[i].step.area = "start" PROVE Whole'
  BY DEF StartsWhole
<1>1. Whole => Whole'
  BY Monotone
<1>2. CASE \E j \in 1 .. Len(out) : out'[i] = out[j]
  BY <1>1, <1>2 DEF LoadInv, StartsWhole
<1>3. CASE InStep /\ out'[i] = Sent
  <2>1. out'[i].step = Now
    BY <1>3 DEF Sent
  <2>2. QED
    BY <1>3, <2>1, NowIs
<1>4. CASE pc = "ending"
  BY <1>1, <1>4 DEF LoadInv, Confirmed
<1>5. QED
  BY <1>2, <1>3, <1>4, OutIs

LEMMA LoadInvKept ==
    ASSUME TypeInv, LoadInv, [Next]_vars PROVE LoadInv'
<1>1. FirstBlock'
  BY FirstBlockKept DEF FirstBlock, Early
<1>2. OneByOne'
  BY OneByOneKept DEF OneByOne
<1>3. QED
  BY <1>1, <1>2, ConfirmedKept, StartsWholeKept DEF LoadInv

LEMMA LoadInvInit ==
    ASSUME Init PROVE LoadInv
<1>1. pc = "idle" /\ out = <<>> /\ in \in {<<>>, <<[op |-> "read", area |-> "pmic"]>>}
  BY DEF Init
<1>2. Confirmed /\ OneByOne
  BY <1>1 DEF Confirmed, OneByOne
<1>3. StartsWhole
  BY <1>1 DEF StartsWhole
<1>4. FirstBlock
  BY <1>1 DEF FirstBlock
<1>5. QED
  BY <1>2, <1>3, <1>4 DEF LoadInv

(* The step that runs an image, and the steps that report.                  *)
LEMMA RunsWhole ==
    ASSUME TypeInv, LoadInv, [Next]_vars, (at' = "op") # (at = "op")
    PROVE  at' = "op" /\ Whole /\ Whole' /\ result' = result
<1>1. CASE Execute
  <2>1. out # <<>> /\ Head(out) = out[1] /\ Len(out) \in Nat \ {0} /\ result' = result
    BY <1>1, HeadIs DEF Execute, TypeInv, WireType, host
  <2>2. CASE Head(out).step.area = "start"
    <3>1. Whole
      BY <2>1, <2>2 DEF LoadInv, StartsWhole
    <3>2. at = "bootrom"
      BY <1>1 DEF Execute
    <3>3. QED
      BY <2>1, <3>1, <3>2, Monotone
  <2>3. CASE Head(out).step.area # "start"
    BY <1>1, <2>3 DEF Execute
  <2>4. QED
    BY <2>2, <2>3
<1>2. CASE ModeSwitch \/ ClearHalts \/ PortReset \/ ChipReboot \/ AwaitReboot \/ Unplug
  BY <1>2 DEF ModeSwitch, ClearHalts, PortReset, ChipReboot, AwaitReboot, Unplug
<1>3. CASE UNCHANGED chip
  BY <1>3 DEF chip
<1>4. QED
  BY <1>1, <1>2, <1>3, ChipKept

LEMMA ReportsOnce ==
    ASSUME TypeInv, [Next]_vars, result' # result
    PROVE  /\ result = "none" /\ result' \in Results
           /\ result' = "operational" => at = "op"
           /\ ~Execute
<1>1. result' # "none" => result' \in Results
  BY HostTypeKept DEF HostType
<1>2. ~Execute /\ ~Unplug /\ ~Respawn /\ ~Expire /\ ~UNCHANGED vars /\ ~WaitForCfm
  BY DEF Execute, Unplug, Respawn, Expire, WaitForCfm, vars, host
<1>3. ASSUME pc # "done", result' # "none", result' = "operational" => at = "op"
      PROVE  result = "none" /\ result' \in Results /\ (result' = "operational" => at = "op")
  BY <1>1, <1>3 DEF TypeInv, HostType
<1>4. ASSUME InStep, Failed PROVE pc # "done" /\ result' = "error"
  <2>1. pc # "done"
    BY <1>4 DEF InStep, Segments
  <2>2. QED
    BY <1>4, <2>1 DEF Failed, Return, Goes
<1>5. CASE KillDaemon \/ DetectAICStage \/ ModeSwitch \/ OpenBootROM
  BY <1>2, <1>3, <1>5 DEF KillDaemon, DetectAICStage, ModeSwitch, OpenBootROM, OpenFails, Goes, Return
<1>6. CASE Ladder
  BY <1>2, <1>3, <1>6 DEF Ladder, ProbeAsIs, ClearHalts, PortReset, ChipReboot, ReopenRebooted,
              NotCalibrated, ProbeWith, OpenFails, Goes, Return
<1>7. CASE SendRequest
  BY <1>2, <1>3, <1>4, <1>7 DEF SendRequest
<1>8. CASE TimeOut
  BY <1>2, <1>3, <1>4, <1>8 DEF TimeOut, TypeInv, StepsType
<1>9. CASE Sequence
  BY <1>2, <1>3, <1>9 DEF Sequence, Accept, LoadFirmwareBundle, StartImage, EndImage,
              ResetBeforeConfig, EndConfig, Finished, Goes, Return
<1>10. CASE Ending
  BY <1>2, <1>3, <1>10 DEF Ending, EndReset, StartApp, AwaitOperational, AwaitReboot, Goes, Return
<1>11. QED
  BY <1>2, <1>5, <1>6, <1>7, <1>8, <1>9, <1>10 DEF Next, LoadFirmware, Request

(* Only a start that the chip executes changes what runs, and the chip's    *)
(* memory changes only before that.                                         *)
LEMMA FillsBefore ==
    ASSUME TypeInv, [Next]_vars, done' # done
    PROVE  at # "op" /\ result' = result
<1>1. Execute
  BY DoneIs
<1>2. QED
  BY <1>1 DEF Execute, host

(* The load of a firmware implements Boot: START_APP is executed only on a  *)
(* whole image, and the load reports once, success only while the firmware  *)
(* shows itself (LoadFirmware, uploadFirmware).                             *)
THEOREM Refinement == Spec => ImplementsBoot
<1> DEFINE mem == IF Whole THEN "whole" ELSE IF Payload = {} THEN "blank" ELSE "partial"
<1>1. Init => Promise!Init
  <2> SUFFICES ASSUME Init PROVE Promise!Init
    OBVIOUS
  <2>1. done = {} /\ result = "none" /\ given \in Scenario
    BY ScenarioIs DEF Init
  <2>2. PatchSteps(given) \in Seq(PatchWrites) /\ Len(PatchSteps(given)) >= 1
        /\ Len(PatchSteps(given)) \in Nat
    BY <2>1, PatchIs, LenProperties
  <2>3. 1 \in DOMAIN PatchSteps(given)
    BY <2>2, LenProperties
  <2>4. ~Whole
    BY <2>1, <2>3 DEF Whole, Range
  <2>5. Payload = {}
    BY <2>1 DEF Payload
  <2>6. QED
    BY <2>1, <2>4, <2>5 DEF Promise!Init
<1>2. TypeInv /\ LoadInv /\ [Next]_vars => [Promise!Next]_Promise!vars
  <2> SUFFICES ASSUME TypeInv, LoadInv, [Next]_vars PROVE [Promise!Next]_Promise!vars
    OBVIOUS
  <2>1. /\ Whole => Whole'
        /\ Payload \subseteq Payload'
        /\ Payload' # Payload => done' # done
        /\ Whole' # Whole => done' # done
    <3>1. given' = given
      BY GivenKept
    <3>2. done' = done => Payload' = Payload /\ Whole' = Whole
      BY <3>1 DEF Payload, Whole, Touched, PatchSteps, Covered, Zones, RegularZones
    <3>3. QED
      BY <3>2, Monotone
  <2>2. mem' = IF Whole' THEN "whole" ELSE IF Payload' = {} THEN "blank" ELSE "partial"
    OBVIOUS
  <2>3. CASE (at' = "op") # (at = "op")
    <3>1. mem = "whole" /\ mem' = "whole" /\ at' = "op" /\ result' = result
      BY <2>3, RunsWhole
    <3> HIDE DEF mem
    <3>2. Promise!Run
      BY <3>1 DEF Promise!Run, mem
    <3>3. QED
      BY <3>2 DEF Promise!Next
  <2>4. CASE (at' = "op") = (at = "op") /\ result' # result
    <3>1. /\ result = "none" /\ result' \in Results
          /\ result' = "operational" => at = "op"
      BY <2>4, ReportsOnce
    <3>2. mem' = mem
      <4>1. done' = done
        BY <2>4, FillsBefore
      <4>2. Whole' = Whole /\ Payload' = Payload
        BY <2>1, <4>1
      <4>3. QED
        BY <2>2, <4>2
    <3> HIDE DEF mem
    <3>3. Promise!Report
      BY <2>4, <3>1, <3>2 DEF Promise!Report, Results, mem
    <3>4. QED
      BY <3>3 DEF Promise!Next
  <2>5. CASE (at' = "op") = (at = "op") /\ result' = result /\ mem' # mem
    <3>1. at # "op"
      <4>1. Whole' # Whole \/ Payload' # Payload
        BY <2>2, <2>5
      <4>2. QED
        BY <2>1, <4>1, FillsBefore
    <3>2. mem # "whole" /\ mem' \in {"partial", "whole"}
      <4>1. CASE Whole
        BY <2>1, <2>2, <2>5, <4>1
      <4>2. CASE ~Whole /\ Payload' = {}
        <5>1. Payload \subseteq Payload' /\ Payload' = {}
          BY <2>1, <4>2
        <5>2. Payload = {}
          BY <5>1
        <5>3. QED
          BY <2>2, <2>5, <4>2, <5>2
      <4>3. CASE ~Whole /\ Payload' # {}
        BY <2>2, <4>3
      <4>4. QED
        BY <4>1, <4>2, <4>3
    <3> HIDE DEF mem
    <3>3. Promise!Fill
      BY <2>5, <3>1, <3>2 DEF Promise!Fill, mem
    <3>4. QED
      BY <3>3 DEF Promise!Next
  <2>6. CASE (at' = "op") = (at = "op") /\ result' = result /\ mem' = mem
    BY <2>6 DEF Promise!vars
  <2>7. QED
    BY <2>3, <2>4, <2>5, <2>6
<1>3. QED
  BY <1>1, <1>2, InitType, TypeKept, LoadInvInit, LoadInvKept, PTL
     DEF Spec, ImplementsBoot, Promise!Spec

-----------------------------------------------------------------------------
(* As long as no answer was late, answers are those of their requests.      *)

(* A halted pipe is only met by the first probe, which does not get past it. *)
Halted ==
    mood = "halted" /\ rung > 0 =>
        rung = 1 /\ pc \in {"probe", "calibrate", "done"} /\ (pc = "probe" => next = 0)

(* Nothing is sent before the first probe, nor left of a chip's reboot.     *)
NotSent ==
    /\ rung = 0 => pc \in {"idle", "detect", "switch", "open", "calibrate", "done"} /\ out = <<>>
    /\ pc \in {"idle", "detect", "open"} => rung = 0
    /\ pc \in {"switch", "reboot"} => out = <<>>

(* All that is under way has the convention of the loader.                  *)
SameConv ==
    /\ rung <= 2 => conv = "linux"
    /\ pc # "done" => \A i \in 1 .. Len(out) : out[i].conv = conv

(* Nothing is started before the end of the load.                           *)
NoStarts ==
    pc \notin {"boot", "done"} => \A i \in 1 .. Len(out) : out[i].step.area \notin Started

(* The chip would execute and confirm what is under way.                    *)
Executes == at = "bootrom" /\ conv = given.likes /\ mood \in {"well", "halted"}

(* What is under way: nothing; requests that are never executed; the one    *)
(* that is due; its answer; or, behind a halted pipe, what the clearing of  *)
(* the pipe and the drain behind it will do away with.                      *)
Settled ==
    late = 0 /\ rung > 0 /\ pc \notin {"boot", "done"} =>
        \/ out = <<>> /\ in = <<>>
        \/ ~Executes /\ in = <<>>
        \/ await /\ mood # "halted" /\ in = <<>> /\ Len(out) = 1 /\ out[1].step = Now
        \/ /\ await /\ mood # "halted" /\ Executes /\ out = <<>> /\ Len(in) = 1
           /\ in[1].op = Now.op /\ in[1].area = Now.area
        \/ mood = "halted" /\ (await \/ ~Executes \/ out = <<>>)

(* The cache register is written with its own value.                        *)
CacheKept ==
    late = 0 =>
        /\ pc = "setup" /\ next = 1 /\ FixesCache(given) => got = "cache"
        /\ \A i \in 1 .. Len(out) : out[i].step.op = "write" /\ out[i].step.area = "cache" =>
               out[i].val = "cache"
        /\ cache # "spoilt"

MatchInv == Halted /\ NotSent /\ SameConv /\ NoStarts /\ Settled /\ CacheKept

LEMMA HaltedKept ==
    ASSUME TypeInv, Halted, [Next]_vars PROVE Halted'
<1> USE DEF Halted
<1>1. CASE UNCHANGED <<mood, rung, pc, next>>
  BY <1>1
<1>2. ASSUME InStep, Failed, UNCHANGED <<mood, rung>> PROVE Halted'
  <2>1. ASSUME pc = "probe" PROVE Now.fail = "rung"
    <3>1. Steps = Probe /\ next \in Nat /\ Len(Probe) = 1
      BY <2>1, ProbeIs DEF Steps, StepsOf, TypeInv, StepsType
    <3>2. next < Len(Steps)
      BY <1>2 DEF InStep
    <3>3. next = 0
      BY <3>1, <3>2
    <3>4. QED
      BY <3>1, <3>3, ProbeIs DEF Now
  <2>2. QED
    BY <1>2, <2>1 DEF Failed, Return, Goes, InStep, Segments
<1>3. CASE KillDaemon \/ DetectAICStage \/ ModeSwitch \/ OpenBootROM
  BY <1>3 DEF KillDaemon, DetectAICStage, ModeSwitch, OpenBootROM, OpenFails, Goes, Return, chip
<1>4. CASE Ladder
  BY <1>4 DEF Ladder, ProbeAsIs, ClearHalts, PortReset, ChipReboot, ReopenRebooted, NotCalibrated,
              ProbeWith, OpenFails, Goes, Return, chip
<1>5. CASE SendRequest
  BY <1>1, <1>2, <1>5 DEF SendRequest, chip
<1>6. CASE WaitForCfm
  BY <1>6 DEF WaitForCfm, chip
<1>7. CASE TimeOut
  BY <1>2, <1>7 DEF TimeOut, TypeInv, StepsType, chip
<1>8. CASE Accept
  <2>1. pc = "probe" /\ next >= Len(Probe)
    BY <1>8 DEF Accept, Finished, Steps, StepsOf
  <2>2. next # 0
    BY <2>1, ProbeIs
  <2>3. QED
    BY <1>8, <2>1, <2>2 DEF Accept, chip
<1>9. CASE LoadFirmwareBundle \/ StartImage \/ EndImage \/ ResetBeforeConfig \/ EndConfig
  BY <1>9 DEF LoadFirmwareBundle, StartImage, EndImage, ResetBeforeConfig, EndConfig, Finished,
              Goes, Return, chip
<1>10. CASE Ending
  BY <1>10 DEF Ending, EndReset, StartApp, AwaitOperational, AwaitReboot, Goes, Return, chip
<1>11. CASE Execute
  BY <1>11 DEF Execute, host
<1>12. CASE Unplug
  BY <1>12 DEF Unplug, host
<1>13. CASE Respawn \/ Expire \/ UNCHANGED vars
  BY <1>1, <1>13 DEF Respawn, Expire, vars, host, chip
<1>14. QED
  BY <1>3, <1>4, <1>5, <1>6, <1>7, <1>8, <1>9, <1>10, <1>11, <1>12, <1>13
     DEF Next, LoadFirmware, Request, Sequence

LEMMA NotSentKept ==
    ASSUME TypeInv, NotSent, [Next]_vars PROVE NotSent'
<1> USE DEF NotSent
<1>1. CASE UNCHANGED <<rung, pc, out>>
  BY <1>1
<1>2. ASSUME InStep, Failed, UNCHANGED <<rung, out>> PROVE NotSent'
  BY <1>2 DEF Failed, Return, Goes, InStep, Segments
<1>3. CASE KillDaemon \/ DetectAICStage \/ ModeSwitch \/ OpenBootROM
  BY <1>3 DEF KillDaemon, DetectAICStage, ModeSwitch, OpenBootROM, OpenFails, Goes, Return, wire
<1>4. CASE Ladder
  <2>1. rung \in Nat
    BY DEF TypeInv, HostType
  <2>2. QED
    BY <1>4, <2>1 DEF Ladder, ProbeAsIs, ClearHalts, PortReset, ChipReboot, ReopenRebooted,
              NotCalibrated, ProbeWith, OpenFails, Goes, Return, wire
<1>5. CASE SendRequest
  BY <1>2, <1>5 DEF SendRequest, InStep, Segments
<1>6. CASE WaitForCfm
  BY <1>1, <1>6 DEF WaitForCfm
<1>7. CASE TimeOut
  BY <1>2, <1>7 DEF TimeOut, TypeInv, StepsType, wire
<1>8. CASE Sequence
  BY <1>8 DEF Sequence, Accept, LoadFirmwareBundle, StartImage, EndImage, ResetBeforeConfig,
              EndConfig, Finished, Goes, Return, wire
<1>9. CASE Ending
  BY <1>9 DEF Ending, EndReset, StartApp, AwaitOperational, AwaitReboot, Goes, Return, wire
<1>10. CASE Execute
  BY <1>10 DEF Execute, host
<1>11. CASE Unplug
  BY <1>11 DEF Unplug, host
<1>12. CASE Respawn \/ Expire \/ UNCHANGED vars
  BY <1>1, <1>12 DEF Respawn, Expire, vars, host, wire
<1>13. QED
  BY <1>3, <1>4, <1>5, <1>6, <1>7, <1>8, <1>9, <1>10, <1>11, <1>12
     DEF Next, LoadFirmware, Request

(* The convention changes where nothing is under way, or at the end.        *)
LEMMA ConvKept ==
    ASSUME TypeInv, NotSent, SameConv, [Next]_vars
    PROVE  /\ rung' <= 2 => conv' = "linux"
           /\ conv' = conv \/ pc' = "done" \/ out' = <<>>
<1>1. rung \in 0 .. 4 /\ (rung <= 2 => conv = "linux")
  BY DEF TypeInv, HostType, SameConv
<1>2. CASE UNCHANGED <<rung, conv>>
  BY <1>1, <1>2
<1>3. CASE ProbeAsIs
  BY <1>1, <1>3 DEF ProbeAsIs, ProbeWith
<1>4. CASE ClearHalts
  BY <1>1, <1>4 DEF ClearHalts
<1>5. CASE PortReset
  BY <1>1, <1>5 DEF PortReset, OpenFails, Return
<1>6. CASE ChipReboot
  BY <1>1, <1>6 DEF ChipReboot
<1>7. CASE ReopenRebooted
  BY <1>1, <1>7 DEF ReopenRebooted, OpenFails, NotSent
<1>8. CASE ResetBeforeConfig
  BY <1>1, <1>8 DEF ResetBeforeConfig
<1>9. CASE EndReset \/ AwaitReboot
  BY <1>1, <1>9 DEF EndReset, AwaitReboot, Return
<1>10. CASE KillDaemon \/ DetectAICStage \/ ModeSwitch \/ OpenBootROM \/ NotCalibrated
  BY <1>2, <1>10 DEF KillDaemon, DetectAICStage, ModeSwitch, OpenBootROM, OpenFails, NotCalibrated
<1>11. CASE Request
  BY <1>2, <1>11 DEF Request, SendRequest, WaitForCfm, TimeOut
<1>12. CASE Accept \/ LoadFirmwareBundle \/ StartImage \/ EndImage \/ EndConfig
  BY <1>2, <1>12 DEF Accept, LoadFirmwareBundle, StartImage, EndImage, EndConfig
<1>13. CASE StartApp \/ AwaitOperational
  BY <1>2, <1>13 DEF StartApp, AwaitOperational
<1>14. CASE Execute \/ Unplug \/ Respawn \/ Expire \/ UNCHANGED vars
  BY <1>2, <1>14 DEF Execute, Unplug, Respawn, Expire, vars, host
<1>15. QED
  BY <1>3, <1>4, <1>5, <1>6, <1>7, <1>8, <1>9, <1>10, <1>11, <1>12, <1>13, <1>14
     DEF Next, LoadFirmware, Ladder, Sequence, Ending

(* A load that is done, or waits for its start, stays there.                *)
LEMMA DoneStays ==
    ASSUME TypeInv, [Next]_vars
    PROVE  /\ pc = "done" => pc' = "done"
           /\ pc = "boot" => pc' \in {"boot", "done"}
           /\ pc' = "boot" => pc = "boot" \/ StartApp
<1> DEFINE Goal == /\ pc = "done" => pc' = "done"
                   /\ pc = "boot" => pc' \in {"boot", "done"}
                   /\ pc' = "boot" => pc = "boot" \/ StartApp
<1>1. CASE UNCHANGED pc
  BY <1>1
<1>2. ASSUME InStep, Failed PROVE Goal
  BY <1>2 DEF Failed, Return, Goes, InStep, Segments
<1>3. CASE KillDaemon \/ DetectAICStage \/ ModeSwitch \/ OpenBootROM
  BY <1>3 DEF KillDaemon, DetectAICStage, ModeSwitch, OpenBootROM, OpenFails, Goes, Return
<1>4. CASE Ladder
  BY <1>4 DEF Ladder, ProbeAsIs, ClearHalts, PortReset, ChipReboot, ReopenRebooted, NotCalibrated,
              ProbeWith, OpenFails, Goes, Return
<1>5. CASE SendRequest
  BY <1>1, <1>2, <1>5 DEF SendRequest
<1>6. CASE TimeOut
  BY <1>2, <1>6 DEF TimeOut, TypeInv, StepsType
<1>7. CASE Sequence
  BY <1>7 DEF Sequence, Accept, LoadFirmwareBundle, StartImage, EndImage, ResetBeforeConfig,
              EndConfig, Finished, Goes, Return
<1>8. CASE Ending
  BY <1>8 DEF Ending, EndReset, StartApp, AwaitOperational, AwaitReboot, Goes, Return
<1>9. CASE WaitForCfm \/ Execute \/ Unplug \/ Respawn \/ Expire \/ UNCHANGED vars
  BY <1>1, <1>9 DEF WaitForCfm, Execute, Unplug, Respawn, Expire, vars, host
<1>10. QED
  BY <1>3, <1>4, <1>5, <1>6, <1>7, <1>8, <1>9 DEF Next, LoadFirmware, Request

LEMMA SameConvKept ==
    ASSUME TypeInv, NotSent, SameConv, [Next]_vars PROVE SameConv'
<1>1. ASSUME pc' # "done", NEW i \in 1 .. Len(out') PROVE out'[i].conv = conv'
  <2>1. out' # <<>> /\ conv' = conv
    <3>1. out' # <<>>
      OBVIOUS
    <3>2. QED
      BY <1>1, <3>1, ConvKept
  <2>2. pc # "done"
    BY <1>1, DoneStays
  <2>3. CASE \E j \in 1 .. Len(out) : out'[i] = out[j]
    BY <2>1, <2>2, <2>3 DEF SameConv
  <2>4. CASE out'[i] = Sent \/ out'[i] = StartSent
    BY <2>1, <2>4 DEF Sent, StartSent
  <2>5. QED
    BY <2>3, <2>4, OutIs
<1>2. QED
  BY <1>1, ConvKept DEF SameConv

LEMMA NoStartsKept ==
    ASSUME TypeInv, NoStarts, [Next]_vars PROVE NoStarts'
<1> SUFFICES ASSUME pc' \notin {"boot", "done"}, NEW i \in 1 .. Len(out')
             PROVE  out'[i].step.area \notin Started
  BY DEF NoStarts
<1>1. pc \notin {"boot", "done"}
  BY DoneStays
<1>2. CASE \E j \in 1 .. Len(out) : out'[i] = out[j]
  BY <1>1, <1>2 DEF NoStarts
<1>3. CASE InStep /\ out'[i] = Sent
  <2>1. out'[i].step = Now
    BY <1>3 DEF Sent
  <2>2. QED
    BY <1>3, <2>1, NowIs DEF Started
<1>4. CASE StartApp
  <2>1. out' = out
    BY <1>4 DEF StartApp, Goes, Return
  <2>2. QED
    BY <1>1, <2>1 DEF NoStarts
<1>5. QED
  BY <1>2, <1>3, <1>4, OutIs

LEMMA LateGrows ==
    ASSUME TypeInv, [Next]_vars, late' = 0
    PROVE  late = 0
<1>1. late \in Nat
  BY LoaderAssumption DEF TypeInv, WorldType
<1>2. CASE UNCHANGED world
  BY <1>2 DEF world
<1>3. CASE KillDaemon \/ Respawn \/ Expire
  BY <1>3 DEF KillDaemon, Respawn, Expire
<1>4. CASE TimeOut
  BY <1>1, <1>4 DEF TimeOut
<1>5. CASE Ladder
  BY <1>2, <1>5 DEF Ladder, ProbeAsIs, ClearHalts, PortReset, ChipReboot, ReopenRebooted, NotCalibrated
<1>6. CASE Sequence
  BY <1>2, <1>6 DEF Sequence, Accept, LoadFirmwareBundle, StartImage, EndImage, ResetBeforeConfig, EndConfig
<1>7. CASE Ending
  BY <1>2, <1>7 DEF Ending, EndReset, StartApp, AwaitOperational, AwaitReboot
<1>8. CASE DetectAICStage \/ ModeSwitch \/ OpenBootROM \/ SendRequest \/ WaitForCfm
  BY <1>2, <1>8 DEF DetectAICStage, ModeSwitch, OpenBootROM, SendRequest, WaitForCfm
<1>9. CASE Execute \/ Unplug
  BY <1>2, <1>9 DEF Execute, Unplug
<1>10. CASE UNCHANGED vars
  BY <1>2, <1>10 DEF vars
<1>11. QED
  BY <1>3, <1>4, <1>5, <1>6, <1>7, <1>8, <1>9, <1>10 DEF Next, LoadFirmware, Request

(* What the wire is when the loader does not wait.                          *)
Idle == \/ out = <<>> /\ in = <<>>
        \/ ~Executes /\ in = <<>>
        \/ mood = "halted" /\ (~Executes \/ out = <<>>)

(* Everything but the wire and the chip: the steps that only touch the loader. *)
LEMMA IdleKept ==
    ASSUME TypeInv, [Next]_vars, Idle, in' = <<>> \/ in' = in, out' = out,
           UNCHANGED <<conv, mood, at>>
    PROVE  Settled'
<1>1. Executes' = Executes
  BY GivenKept DEF Executes
<1>2. Idle'
  BY <1>1 DEF Idle
<1>3. QED
  BY <1>2 DEF Settled, Idle

LEMMA SettledKept ==
    ASSUME TypeInv, MatchInv, [Next]_vars PROVE Settled'
<1> SUFFICES ASSUME late' = 0, rung' > 0, pc' \notin {"boot", "done"} PROVE Settled'
  BY DEF Settled
<1>1. /\ late = 0 /\ pc \notin {"boot", "done"} /\ given' = given
      /\ Halted /\ NotSent /\ SameConv /\ NoStarts /\ Settled
      /\ rung \in Nat /\ await \in BOOLEAN
      /\ out \in Seq(Requests) /\ Len(out) \in Nat /\ in \in Seq(Confirmations) /\ Len(in) \in Nat
  BY LateGrows, DoneStays, GivenKept, LenProperties
     DEF MatchInv, TypeInv, HostType, StepsType, WireType
<1>2. rung > 0 =>
        \/ out = <<>> /\ in = <<>>
        \/ ~Executes /\ in = <<>>
        \/ await /\ mood # "halted" /\ in = <<>> /\ Len(out) = 1 /\ out[1].step = Now
        \/ /\ await /\ mood # "halted" /\ Executes /\ out = <<>> /\ Len(in) = 1
           /\ in[1].op = Now.op /\ in[1].area = Now.area
        \/ mood = "halted" /\ (await \/ ~Executes \/ out = <<>>)
  BY <1>1 DEF Settled
<1>3. rung > 0 /\ ~await => Idle
  BY <1>2 DEF Idle
<1>4. pc \notin Segments => ~await
  BY DEF TypeInv, StepsType, InStep
<1>5. CASE out' = <<>> /\ in' = <<>>
  BY <1>5 DEF Settled
<1>6. CASE UNCHANGED <<late, rung, pc, next, await, conv, mood, at, out, in>>
  <2>1. Now' = Now
    BY <1>6, NowKept
  <2>2. Executes' = Executes
    BY <1>1, <1>6 DEF Executes
  <2>3. QED
    BY <1>1, <1>6, <2>1, <2>2 DEF Settled
<1>7. CASE KillDaemon \/ DetectAICStage \/ OpenBootROM
  BY <1>1, <1>7 DEF KillDaemon, DetectAICStage, OpenBootROM, OpenFails, NotSent
<1>8. CASE ModeSwitch
  <2>1. pc = "switch" /\ rung > 0 /\ UNCHANGED wire
    BY <1>8 DEF ModeSwitch
  <2>2. out = <<>> /\ mood # "halted" /\ "switch" \notin Segments
    BY <1>1, <2>1 DEF NotSent, Halted, Segments
  <2>3. in = <<>>
    BY <1>2, <1>4, <2>1, <2>2
  <2>4. QED
    BY <1>5, <2>1, <2>2, <2>3 DEF wire
<1>9. CASE ProbeAsIs
  <2>1. out = <<>> /\ UNCHANGED <<out, mood>> /\ (mood = "halted" \/ in' = <<>>)
    BY <1>1, <1>9 DEF ProbeAsIs, ProbeWith, NotSent, chip
  <2>2. QED
    BY <1>5, <2>1 DEF Settled
<1>10. CASE ClearHalts
  <2>1. /\ pc = "calibrate" /\ rung = 1 /\ conv' = conv /\ in' = <<>>
        /\ UNCHANGED <<out, at>> /\ mood' = IF mood = "halted" THEN "well" ELSE mood
    BY <1>1, <1>10 DEF ClearHalts, SameConv
  <2>2. Idle
    BY <1>3, <1>4, <2>1 DEF Segments
  <2>3. ~Executes => ~Executes'
    BY <1>1, <2>1 DEF Executes
  <2>4. out = <<>> \/ ~Executes
    BY <2>2 DEF Idle
  <2>5. QED
    BY <1>5, <2>1, <2>3, <2>4 DEF Settled
<1>11. CASE PortReset
  BY <1>5, <1>11 DEF PortReset, OpenFails, Return
<1>12. CASE ChipReboot
  BY <1>5, <1>12 DEF ChipReboot
<1>13. CASE ReopenRebooted
  BY <1>1, <1>5, <1>13 DEF ReopenRebooted, OpenFails, Return, NotSent
<1>14. CASE NotCalibrated
  BY <1>14 DEF NotCalibrated, Return
<1>15. CASE SendRequest
  <2>1. ~await /\ rung > 0 /\ UNCHANGED <<rung, conv, mood, at, in, late>> /\ InStep
    BY <1>1, <1>15 DEF SendRequest, chip, world
  <2>2. Idle
    BY <1>3, <2>1
  <2>3. CASE UNCHANGED out
    BY <2>1, <2>2, <2>3, IdleKept
  <2>4. CASE out' = Append(out, Sent) /\ await' = TRUE /\ UNCHANGED <<pc, next>>
    <3>1. Executes' = Executes /\ Now' = Now
      BY <1>1, <2>1, <2>4, NowKept DEF Executes
    <3>2. CASE mood = "halted"
      BY <2>1, <2>4, <3>2 DEF Settled
    <3>3. CASE mood # "halted" /\ out = <<>> /\ in = <<>>
      <4>1. Len(out') = 1 /\ out'[1] = Sent
        BY <1>1, <2>4, <3>3
      <4>2. Sent.step = Now
        BY DEF Sent
      <4>3. QED
        BY <2>1, <2>4, <3>1, <3>3, <4>1, <4>2 DEF Settled
    <3>4. CASE mood # "halted" /\ ~Executes /\ in = <<>>
      BY <2>1, <3>1, <3>4 DEF Settled
    <3>5. QED
      BY <2>2, <3>2, <3>3, <3>4 DEF Idle
  <2>5. QED
    BY <1>15, <2>3, <2>4 DEF SendRequest, Sent
<1>16. CASE WaitForCfm
  <2>1. rung > 0 /\ in # <<>> /\ mood # "halted" /\ in' = Tail(in) /\ out' = out
    BY <1>1, <1>16 DEF WaitForCfm
  <2>2. out = <<>> /\ Len(in) = 1
    BY <1>2, <2>1
  <2>3. Tail(in) \in Seq(Confirmations) /\ Len(Tail(in)) = 0
    BY <1>1, <2>1, <2>2, HeadIs
  <2>4. in' = <<>>
    BY <2>1, <2>3, EmptySeq
  <2>5. QED
    BY <1>5, <2>1, <2>2, <2>4
<1>17. CASE TimeOut
  <2>1. /\ ~Answers /\ rung > 0 /\ UNCHANGED <<rung, conv, mood, at, out, in>>
    BY <1>1, <1>17 DEF TimeOut, chip, wire
  <2>2. Executes => mood = "halted" /\ out = <<>>
    BY <2>1 DEF Answers, Executes
  <2>3. Idle
    BY <1>2, <2>1, <2>2 DEF Idle
  <2>4. QED
    BY <2>1, <2>3, IdleKept
<1>18. CASE Accept \/ LoadFirmwareBundle \/ StartImage \/ EndImage \/ EndConfig
  <2>1. /\ ~await /\ rung > 0 /\ UNCHANGED <<rung, conv, mood, at, out>>
        /\ in' = in \/ in' = <<>>
    BY <1>1, <1>18 DEF Accept, LoadFirmwareBundle, StartImage, EndImage, EndConfig, Finished, chip, wire
  <2>2. QED
    BY <1>3, <2>1, IdleKept
<1>19. CASE ResetBeforeConfig
  <2>1. pc = "reset" /\ rung > 0 /\ out' = <<>> /\ (in' = in \/ in' = <<>>)
    BY <1>19 DEF ResetBeforeConfig
  <2>2. mood # "halted" /\ ~await
    BY <1>1, <1>4, <2>1 DEF Halted, Segments
  <2>3. in = <<>>
    BY <1>2, <2>1, <2>2
  <2>4. QED
    BY <1>5, <2>1, <2>3
<1>20. CASE Ending
  BY <1>20 DEF Ending, EndReset, StartApp, AwaitOperational, AwaitReboot, Goes, Return
<1>21. CASE Unplug
  BY <1>5, <1>21 DEF Unplug
<1>22. CASE Execute
  <2> DEFINE r == Head(out)
             c == [op |-> r.step.op, area |-> r.step.area]
  <2>1. /\ out # <<>> /\ at = "bootrom" /\ mood \in {"well", "halted"} /\ out' = Tail(out)
        /\ UNCHANGED <<pc, rung, next, await, conv>> /\ rung > 0
    BY <1>22 DEF Execute, host
  <2>2. r = out[1] /\ Len(out) \in Nat \ {0} /\ Tail(out) \in Seq(Requests)
        /\ Len(Tail(out)) = Len(out) - 1
    BY <1>1, <2>1, HeadIs
  <2>3. r.conv = conv /\ r.step.area \notin Started
    <3>1. 1 \in 1 .. Len(out)
      BY <2>2
    <3>2. QED
      BY <1>1, <2>2, <3>1 DEF SameConv, NoStarts
  <2>4. UNCHANGED <<at, mood>> /\ Now' = Now
    <3>1. UNCHANGED <<at, mood>>
      BY <1>22, <2>3 DEF Execute, Started
    <3>2. QED
      BY <2>1, <3>1, NowKept
  <2>5. Executes' = Executes
    BY <1>1, <2>1, <2>4 DEF Executes
  <2>6. CASE conv # given.likes
    <3>1. in' = in /\ ~Executes
      BY <1>22, <2>3, <2>6 DEF Execute, Executes
    <3>2. in = <<>> \/ mood = "halted"
      BY <1>2, <2>1, <3>1
    <3>3. QED
      BY <2>4, <2>5, <3>1, <3>2 DEF Settled
  <2>7. CASE conv = given.likes
    <3>1. Executes
      BY <2>1, <2>7 DEF Executes
    <3>2. in' = Append(in, c)
      BY <1>22, <2>3, <2>7 DEF Execute
    <3>3. c.op = r.step.op /\ c.area = r.step.area
      OBVIOUS
    <3> HIDE DEF c
    <3>4. CASE mood = "halted"
      <4>1. await
        BY <1>2, <2>1, <3>1, <3>4
      <4>2. QED
        BY <2>1, <2>4, <3>4, <4>1 DEF Settled
    <3>5. CASE mood # "halted"
      <4>1. await /\ in = <<>> /\ Len(out) = 1 /\ out[1].step = Now
        BY <1>2, <2>1, <3>1, <3>5
      <4>2. out' = <<>>
        BY <2>1, <2>2, <4>1, EmptySeq
      <4>3. Len(in') = 1 /\ in'[1] = c
        BY <3>2, <4>1
      <4>4. in'[1].op = Now'.op /\ in'[1].area = Now'.area
        BY <2>2, <2>4, <3>3, <4>1, <4>3
      <4>5. await' /\ mood' # "halted" /\ Executes'
        BY <2>1, <2>4, <2>5, <3>1, <3>5, <4>1
      <4>6. QED
        BY <4>2, <4>3, <4>4, <4>5 DEF Settled
    <3>6. QED
      BY <3>4, <3>5
  <2>8. QED
    BY <2>6, <2>7
<1>23. CASE Respawn \/ Expire \/ UNCHANGED vars
  BY <1>6, <1>23 DEF Respawn, Expire, vars, host, chip, wire, world
<1>24. QED
  BY <1>7, <1>8, <1>9, <1>10, <1>11, <1>12, <1>13, <1>14, <1>15, <1>16, <1>17, <1>18, <1>19, <1>20,
     <1>21, <1>22, <1>23 DEF Next, LoadFirmware, Ladder, Request, Sequence

(* As long as no answer was late, the one that a wait takes is its own.     *)
LEMMA OwnAnswer ==
    ASSUME TypeInv, NotSent, Settled, late = 0, WaitForCfm
    PROVE  Head(in).op = Now.op /\ Head(in).area = Now.area
<1>1. /\ await /\ in # <<>> /\ mood # "halted" /\ in \in Seq(Confirmations)
      /\ InStep /\ rung \in Nat
  BY DEF WaitForCfm, TypeInv, StepsType, WireType, HostType
<1>2. rung > 0 /\ pc \notin {"boot", "done"}
  BY <1>1 DEF NotSent, InStep, Segments
<1>3. in[1].op = Now.op /\ in[1].area = Now.area
  BY <1>1, <1>2 DEF Settled
<1>4. QED
  BY <1>1, <1>3, HeadIs

LEMMA GotKept ==
    ASSUME [Next]_vars, ~WaitForCfm PROVE got' = got
<1>1. CASE UNCHANGED vars
  BY <1>1 DEF vars, host
<1>2. CASE Ladder
  BY <1>2 DEF Ladder, ProbeAsIs, ClearHalts, PortReset, ChipReboot, ReopenRebooted, NotCalibrated
<1>3. CASE Sequence
  BY <1>3 DEF Sequence, Accept, LoadFirmwareBundle, StartImage, EndImage, ResetBeforeConfig, EndConfig
<1>4. CASE Ending
  BY <1>4 DEF Ending, EndReset, StartApp, AwaitOperational, AwaitReboot
<1>5. CASE KillDaemon \/ DetectAICStage \/ ModeSwitch \/ OpenBootROM \/ SendRequest \/ TimeOut
  BY <1>5 DEF KillDaemon, DetectAICStage, ModeSwitch, OpenBootROM, SendRequest, TimeOut
<1>6. CASE Execute \/ Unplug \/ Respawn \/ Expire
  BY <1>6 DEF Execute, Unplug, Respawn, Expire, host
<1>7. QED
  BY <1>1, <1>2, <1>3, <1>4, <1>5, <1>6 DEF Next, LoadFirmware, Request

(* The first step of the setup of an older MCU, the read of the register,   *)
(* is passed only by its answer.                                            *)
LEMMA CacheRead ==
    ASSUME TypeInv, NotSent, Settled, late = 0, [Next]_vars,
           pc = "setup" /\ next = 1 /\ FixesCache(given) => got = "cache",
           pc' = "setup", next' = 1, FixesCache(given)
    PROVE  got' = "cache"
<1>1. next \in Nat
  BY DEF TypeInv, StepsType
<1>2. CASE UNCHANGED <<pc, next, got>>
  BY <1>2
<1>3. ASSUME pc = "setup", next = 0
      PROVE  Now.op = "read" /\ Now.area = "cache" /\ Now.fail = "abort"
  <2>1. given \in Scenario
    BY ScenarioIs DEF TypeInv, WorldType
  <2>2. Steps = SetupSteps(given)
    BY <1>3 DEF Steps, StepsOf
  <2>3. /\ SetupSteps(given)[1].op = "read" /\ SetupSteps(given)[1].area = "cache"
        /\ SetupSteps(given)[1].fail = "abort"
    BY <2>1, SetupIs
  <2>4. Now = SetupSteps(given)[1]
    BY <1>3, <2>2 DEF Now
  <2>5. QED
    BY <2>3, <2>4
<1>4. ASSUME InStep, Failed PROVE FALSE
  <2>1. pc = "setup"
    BY <1>4 DEF Failed, Return, Goes
  <2>2. Now.fail # "skip"
    <3>1. given \in Scenario /\ Steps = SetupSteps(given) /\ next + 1 \in 1 .. Len(Steps)
      BY <1>4, <2>1, ScenarioIs, NowIs DEF Steps, StepsOf, TypeInv, WorldType
    <3>2. SetupSteps(given)[next + 1] \in {s \in Registers : s.fail \in {"abort", "go on"}}
      BY <3>1, SetupIs, ElementOfSeq
    <3>3. QED
      BY <3>1, <3>2 DEF Now
  <2>3. Now.fail = "go on"
    BY <1>4, <2>1, <2>2 DEF Failed, Return, Goes
  <2>4. next' = next + 1
    BY <1>4, <2>1, <2>2, <2>3 DEF Failed, Return, Goes
  <2>5. next = 0
    BY <1>1, <2>4
  <2>6. QED
    BY <1>3, <2>1, <2>3, <2>5
<1>5. CASE SendRequest
  BY <1>2, <1>4, <1>5 DEF SendRequest
<1>6. CASE TimeOut
  BY <1>4, <1>6 DEF TimeOut, TypeInv, StepsType
<1>7. CASE WaitForCfm
  <2>1. pc = "setup"
    BY <1>7 DEF WaitForCfm
  <2>2. Head(in).op = Now.op /\ Head(in).area = Now.area
    BY <1>7, OwnAnswer
  <2>3. next' = next + 1 /\ got' = IF Now.op = "read" THEN Head(in).area ELSE got
    BY <1>7, <2>2 DEF WaitForCfm
  <2>4. next = 0
    BY <1>1, <2>3
  <2>5. QED
    BY <1>3, <2>1, <2>2, <2>3, <2>4
<1>8. CASE KillDaemon \/ DetectAICStage \/ ModeSwitch \/ OpenBootROM
  BY <1>8 DEF KillDaemon, DetectAICStage, ModeSwitch, OpenBootROM, OpenFails, Goes, Return
<1>9. CASE Ladder
  BY <1>9 DEF Ladder, ProbeAsIs, ClearHalts, PortReset, ChipReboot, ReopenRebooted, NotCalibrated,
              ProbeWith, OpenFails, Goes, Return
<1>10. CASE Sequence
  BY <1>10 DEF Sequence, Accept, LoadFirmwareBundle, StartImage, EndImage, ResetBeforeConfig,
              EndConfig, Finished, Goes, Return
<1>11. CASE Ending
  BY <1>11 DEF Ending, EndReset, StartApp, AwaitOperational, AwaitReboot, Goes, Return
<1>12. CASE Execute \/ Unplug \/ Respawn \/ Expire \/ UNCHANGED vars
  BY <1>2, <1>12 DEF Execute, Unplug, Respawn, Expire, vars, host
<1>13. QED
  BY <1>5, <1>6, <1>7, <1>8, <1>9, <1>10, <1>11, <1>12 DEF Next, LoadFirmware, Request

(* The chip writes the register, and nothing else does.                     *)
LEMMA CacheIs ==
    ASSUME [Next]_vars PROVE Execute \/ cache' = cache
<1>1. CASE UNCHANGED vars
  BY <1>1 DEF vars, chip
<1>2. CASE Ladder
  BY <1>2 DEF Ladder, ProbeAsIs, ClearHalts, PortReset, ChipReboot, ReopenRebooted, NotCalibrated, chip
<1>3. CASE Sequence
  BY <1>3 DEF Sequence, Accept, LoadFirmwareBundle, StartImage, EndImage, ResetBeforeConfig,
              EndConfig, chip
<1>4. CASE Ending
  BY <1>4 DEF Ending, EndReset, StartApp, AwaitOperational, AwaitReboot, chip
<1>5. CASE KillDaemon \/ DetectAICStage \/ ModeSwitch \/ OpenBootROM \/ Request
  BY <1>5 DEF KillDaemon, DetectAICStage, ModeSwitch, OpenBootROM, Request, SendRequest,
              WaitForCfm, TimeOut, chip
<1>6. CASE Unplug \/ Respawn \/ Expire
  BY <1>6 DEF Unplug, Respawn, Expire, chip
<1>7. QED
  BY <1>1, <1>2, <1>3, <1>4, <1>5, <1>6 DEF Next, LoadFirmware

LEMMA CacheKeptKept ==
    ASSUME TypeInv, MatchInv, [Next]_vars PROVE CacheKept'
<1> SUFFICES ASSUME late' = 0
             PROVE  /\ pc' = "setup" /\ next' = 1 /\ FixesCache(given') => got' = "cache"
                    /\ \A i \in 1 .. Len(out') :
                          out'[i].step.op = "write" /\ out'[i].step.area = "cache" =>
                              out'[i].val = "cache"
                    /\ cache' # "spoilt"
  BY DEF CacheKept
<1>1. late = 0 /\ given' = given /\ NotSent /\ Settled /\ CacheKept
  BY LateGrows, GivenKept DEF MatchInv
<1>2. pc' = "setup" /\ next' = 1 /\ FixesCache(given') => got' = "cache"
  BY <1>1, CacheRead DEF CacheKept
<1>3. ASSUME NEW i \in 1 .. Len(out'), out'[i].step.op = "write", out'[i].step.area = "cache"
      PROVE  out'[i].val = "cache"
  <2>1. CASE \E j \in 1 .. Len(out) : out'[i] = out[j]
    BY <1>1, <1>3, <2>1 DEF CacheKept
  <2>2. CASE InStep /\ out'[i] = Sent
    <3>1. out'[i].step = Now /\ out'[i].val = got
      BY <2>2 DEF Sent
    <3>2. pc = "setup" /\ next = 1 /\ FixesCache(given)
      BY <1>3, <2>2, <3>1, NowIs
    <3>3. QED
      BY <1>1, <3>1, <3>2 DEF CacheKept
  <2>3. CASE out'[i] = StartSent
    <3>1. out'[i].step.area = given.ending /\ given.ending \in {"start", "reset", "reboot"}
      BY <2>3, ScenarioIs DEF StartSent, Write, Step, TypeInv, WorldType
    <3>2. QED
      BY <1>3, <3>1
  <2>4. QED
    BY <2>1, <2>2, <2>3, OutIs
<1>4. cache' # "spoilt"
  <2>1. CASE Execute
    <3>1. out \in Seq(Requests) /\ out # <<>>
      BY <2>1 DEF Execute, TypeInv, WireType
    <3>2. Head(out) = out[1] /\ 1 \in 1 .. Len(out)
      BY <3>1, HeadIs
    <3>3. Head(out).step.op = "write" /\ Head(out).step.area = "cache" => Head(out).val = "cache"
      BY <1>1, <3>2 DEF CacheKept
    <3>4. QED
      BY <1>1, <2>1, <3>3 DEF CacheKept, Execute
  <2>2. CASE cache' = cache
    BY <1>1, <2>2 DEF CacheKept
  <2>3. QED
    BY <2>1, <2>2, CacheIs
<1>5. QED
  BY <1>2, <1>3, <1>4

LEMMA MatchInvInit == ASSUME Init, TypeInv PROVE MatchInv
<1>1. rung = 0 /\ pc = "idle" /\ out = <<>> /\ conv = "linux" /\ cache = "found" /\ Len(out) = 0
  BY DEF Init
<1>2. QED
  BY <1>1 DEF MatchInv, Halted, NotSent, SameConv, NoStarts, Settled, CacheKept

LEMMA MatchInvKept == ASSUME TypeInv, MatchInv, [Next]_vars PROVE MatchInv'
<1>1. Halted' /\ NotSent' /\ SameConv' /\ NoStarts'
  BY HaltedKept, NotSentKept, SameConvKept, NoStartsKept DEF MatchInv
<1>2. Settled' /\ CacheKept'
  BY SettledKept, CacheKeptKept
<1>3. QED
  BY <1>1, <1>2 DEF MatchInv

(* As long as no request of an answering chip has expired, what a read      *)
(* returns is what was asked for, and the cache register is written with    *)
(* its own value, whatever an earlier session or an earlier rung has left   *)
(* on the wire (waitForCfm matches only ids; the drains do the rest).       *)
THEOREM AnswersAlwaysMatch == Spec => AnswersMatch
<1> DEFINE Match == late = 0 => /\ got' # got => got' = Now.area
                                /\ cache' # "spoilt"
<1>1. TypeInv /\ MatchInv /\ TypeInv' /\ MatchInv' /\ [Next]_vars => [Match]_vars
  <2> SUFFICES ASSUME TypeInv, MatchInv, MatchInv', [Next]_vars, late = 0
               PROVE  /\ got' # got => got' = Now.area
                      /\ cache' # "spoilt"
    OBVIOUS
  <2>1. ASSUME got' # got PROVE got' = Now.area
    <3>1. WaitForCfm
      BY <2>1, GotKept
    <3>2. Head(in).op = Now.op /\ Head(in).area = Now.area
      BY <3>1, OwnAnswer DEF MatchInv
    <3>3. QED
      BY <2>1, <3>1, <3>2 DEF WaitForCfm
  <2>2. cache' # "spoilt"
    <3>1. CASE Execute
      BY <3>1 DEF Execute, world, MatchInv, CacheKept
    <3>2. CASE cache' = cache
      BY <3>2 DEF MatchInv, CacheKept
    <3>3. QED
      BY <3>1, <3>2, CacheIs
  <2>3. QED
    BY <2>1, <2>2
<1>2. Spec => []TypeInv
  BY InitType, TypeKept, PTL DEF Spec
<1>3. TypeInv /\ MatchInv /\ [Next]_vars => MatchInv'
  BY MatchInvKept
<1>4. Init => TypeInv /\ MatchInv
  BY InitType, MatchInvInit
<1>5. Spec => []MatchInv
  BY <1>2, <1>3, <1>4, PTL DEF Spec
<1>6. QED
  BY <1>1, <1>2, <1>5, PTL DEF Spec, AnswersMatch, Match
=============================================================================
