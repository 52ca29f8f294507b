------------------------ MODULE ContainerModels_proofs ------------------------
(***************************************************************************)
(* Proofs about the models of a container.                                 *)
(*                                                                         *)
(* Placing: a reference is followed because aliases lead from its place to *)
(* where the model is now, through places of its trail only, each of which *)
(* the model left later than the one before (Leads): so resolve, which     *)
(* gives up after MaxHops aliases, cannot go in circles.                   *)
(* Listing: outermost directories are never within each other, so every    *)
(* file is in one row; a fingerprint names files and sizes, so a reference *)
(* that resolves stands for the files it was taken for.                    *)
(***************************************************************************)
EXTENDS ContainerModels, FiniteSetTheorems, SequenceTheorems, WellFoundedInduction, TLAPS

---------------------------------------------------------------------------
(* Induction over the naturals, as the least counterexample.               *)

Less == {ss \in Nat \X Nat : ss[1] < ss[2]}

\* The order of the naturals as a set of pairs.
LEMMA LessIsWellFounded == IsWellFoundedOn(Less, Nat)
BY NatLessThanWellFounded DEF OpToRel, Less

\* Every set of naturals that is not empty has a least member.
LEMMA Least ==
    ASSUME NEW T \in SUBSET Nat, T # {}
    PROVE  \E n \in T : \A m \in T : n <= m
<1>1. PICK n \in T : \A m \in T : <<m, n>> \notin Less
  BY LessIsWellFounded, WFMin
<1>2. \A m \in T : ~(m < n)
  BY <1>1 DEF Less
<1> QED BY <1>2

---------------------------------------------------------------------------
(* Resolving a reference                                                   *)

Hop(q) == IF weights[q] # NoModel \/ aliases[q] = NoPlace THEN q ELSE aliases[q]

\* The places that resolve looks at, one after the other.
Visits(s, n, at) == at = [hops \in 0 .. n |-> IF hops = 0 THEN s ELSE Hop(at[hops - 1])]

\* resolve can look at as many places as it likes: by induction.
LEMMA VisitsExist ==
    ASSUME NEW s
    PROVE  \A n \in Nat : \E at : Visits(s, n, at)
<1> DEFINE Bad == {n \in Nat : ~\E at : Visits(s, n, at)}
<1> SUFFICES ASSUME Bad # {} PROVE FALSE
  OBVIOUS
<1>1. \E n \in Bad : \A m \in Bad : n <= m
  <2> Bad \in SUBSET Nat
    OBVIOUS
  <2> HIDE DEF Bad
  <2> QED BY Least
<1>2. PICK n \in Bad : \A m \in Bad : n <= m
  BY <1>1
<1>3. n # 0
  <2> DEFINE g == [hops \in 0 .. 0 |-> s]
  <2>1. Visits(s, 0, g)
    BY DEF Visits
  <2> QED BY <2>1, <1>2
<1>4. n \in Nat /\ n - 1 \in Nat
  BY <1>2, <1>3
<1>5. n - 1 \notin Bad
  BY <1>2, <1>4
<1>6. PICK f : Visits(s, n - 1, f)
  BY <1>4, <1>5
<1> DEFINE g == [hops \in 0 .. n |-> IF hops = 0 THEN s ELSE Hop(f[hops - 1])]
<1>7. \A h \in 0 .. n : h # 0 => h - 1 \in 0 .. (n - 1) /\ h - 1 \in 0 .. n
  BY <1>4
<1>8. \A h \in 0 .. (n - 1) : g[h] = f[h]
  BY <1>6, <1>4 DEF Visits
<1>9. Visits(s, n, g)
  BY <1>7, <1>8 DEF Visits
<1> QED BY <1>9, <1>2

\* resolve returns the last place it looks at.
LEMMA ResolveVisits ==
    ASSUME NEW s
    PROVE  \E at : Visits(s, MaxHops, at) /\ Resolve(s) = at[MaxHops]
<1>1. PICK f : Visits(s, MaxHops, f)
  BY VisitsExist, PlacementAssumption
<1> DEFINE at == CHOOSE at : Visits(s, MaxHops, at)
<1>2. Visits(s, MaxHops, at)
  BY <1>1
<1>3. Resolve(s) = at[MaxHops]
  BY Zenon DEF Visits, Resolve, Hop
<1> QED BY <1>2, <1>3

---------------------------------------------------------------------------
(* From place s the aliases lead to c: a set of places with s and c that   *)
(* the aliases do not leave before c, each nearer to c than the one        *)
(* before.  The rank of a place is when the model was there last.          *)

Leads(s, c, C, rank) ==
    /\ C \in SUBSET trail /\ s \in C /\ c \in C
    /\ rank \in [Places -> Nat]
    /\ \A q \in C : rank[q] <= rank[c]
    /\ \A q \in C \ {c} : aliases[q] \in C /\ rank[q] < rank[aliases[q]]
Lead(c) == \E C, rank : Leads(reference.place, c, C, rank)

\* Nothing is at the other places, so resolve comes to c.
LEMMA VisitsStay ==
    ASSUME NEW s, NEW c, NEW C, NEW rank, NEW at, NEW n \in Nat,
           trail \in SUBSET Places, NoModel # weights[c],
           Leads(s, c, C, rank), Visits(s, n, at),
           \A q \in C \ {c} : weights[q] = NoModel
    PROVE  /\ \A h \in 0 .. n : at[h] \in C
           /\ at \in [0 .. n -> C]
           /\ \A h \in 0 .. n : h # 0 => at[h] = Hop(at[h - 1])
           /\ \A q \in C : Hop(q) = IF q = c THEN c ELSE aliases[q]
<1>1. \A q \in C : Hop(q) = IF q = c THEN c ELSE aliases[q]
  BY PlacementAssumption DEF Hop, Leads
<1>2. /\ at[0] = s /\ s \in C
      /\ \A h \in 0 .. n : h # 0 => at[h] = Hop(at[h - 1]) /\ h - 1 \in 0 .. n
      /\ DOMAIN at = 0 .. n
  BY DEF Visits, Leads
<1>3. \A q \in C : Hop(q) \in C
  BY <1>1 DEF Leads
<1> DEFINE Bad == {h \in 0 .. n : at[h] \notin C}
<1>4. Bad = {}
  <2> SUFFICES ASSUME Bad # {} PROVE FALSE
    OBVIOUS
  <2>1. \E h \in Bad : \A m \in Bad : h <= m
    <3> Bad \in SUBSET Nat
      OBVIOUS
    <3> HIDE DEF Bad
    <3> QED BY Least
  <2>2. PICK h \in Bad : \A m \in Bad : h <= m
    BY <2>1
  <2>3. h # 0 /\ h - 1 \in 0 .. n /\ h \in 0 .. n
    BY <2>2, <1>2
  <2>4. h - 1 \notin Bad
    BY <2>2, <2>3
  <2> QED BY <2>2, <2>3, <2>4, <1>2, <1>3
<1>5. at = [h \in 0 .. n |-> at[h]]
  BY DEF Visits
<1> QED BY <1>1, <1>2, <1>4, <1>5

\* The ranks grow with every hop, so that after as many hops as the trail
\* has places resolve is at c.
LEMMA VisitsArrive ==
    ASSUME NEW s, NEW c, NEW C, NEW rank, NEW at, NEW n \in Nat,
           trail \in SUBSET Places, NoModel # weights[c],
           Leads(s, c, C, rank), Visits(s, n, at),
           \A q \in C \ {c} : weights[q] = NoModel,
           IsFiniteSet(trail), Cardinality(trail) <= n + 1
    PROVE  at[n] = c
<1>1. /\ \A h \in 0 .. n : at[h] \in C
      /\ at \in [0 .. n -> C]
      /\ \A h \in 0 .. n : h # 0 => at[h] = Hop(at[h - 1])
      /\ \A q \in C : Hop(q) = IF q = c THEN c ELSE aliases[q]
  BY VisitsStay
<1>2. \A h \in 0 .. n : h # 0 => h - 1 \in 0 .. n
  OBVIOUS
\* Once there it stays.
<1>3. \A i \in 0 .. n : at[i] = c => at[n] = c
  <2> SUFFICES ASSUME NEW i \in 0 .. n, at[i] = c PROVE at[n] = c
    OBVIOUS
  <2> DEFINE Bad == {h \in i .. n : at[h] # c}
  <2> SUFFICES ASSUME Bad # {} PROVE FALSE
    OBVIOUS
  <2>1. \E h \in Bad : \A m \in Bad : h <= m
    <3> Bad \in SUBSET Nat
      OBVIOUS
    <3> HIDE DEF Bad
    <3> QED BY Least
  <2>2. PICK h \in Bad : \A m \in Bad : h <= m
    BY <2>1
  <2>3. h # i /\ h \in i .. n /\ h - 1 \in i .. n /\ h - 1 \in 0 .. n /\ h # 0 /\ h \in 0 .. n
    BY <2>2
  <2>4. at[h - 1] = c
    BY <2>2, <2>3
  <2> QED BY <2>2, <2>3, <2>4, <1>1
<1> SUFFICES ASSUME \A h \in 0 .. n : at[h] # c PROVE FALSE
  BY <1>3
\* Before, no place is visited twice, and there are too few of them.
<1>4. \A h \in 0 .. n : h # 0 => rank[at[h - 1]] < rank[at[h]]
  <2> SUFFICES ASSUME NEW h \in 0 .. n, h # 0 PROVE rank[at[h - 1]] < rank[at[h]]
    OBVIOUS
  <2>1. at[h - 1] \in C \ {c} /\ at[h] = aliases[at[h - 1]]
    BY <1>1, <1>2
  <2> QED BY <2>1 DEF Leads
<1>5. \A h \in 0 .. n : rank[at[h]] \in Nat
  BY <1>1 DEF Leads
<1>6. \A i, j \in 0 .. n : i < j => rank[at[i]] < rank[at[j]]
  <2> SUFFICES ASSUME NEW i \in 0 .. n
               PROVE  \A j \in 0 .. n : i < j => rank[at[i]] < rank[at[j]]
    OBVIOUS
  <2> DEFINE Bad == {j \in 0 .. n : i < j /\ ~(rank[at[i]] < rank[at[j]])}
  <2> SUFFICES ASSUME Bad # {} PROVE FALSE
    OBVIOUS
  <2>1. \E h \in Bad : \A m \in Bad : h <= m
    <3> Bad \in SUBSET Nat
      OBVIOUS
    <3> HIDE DEF Bad
    <3> QED BY Least
  <2>2. PICK h \in Bad : \A m \in Bad : h <= m
    BY <2>1
  <2>3. h \in 0 .. n /\ i < h /\ h # 0 /\ h - 1 \in 0 .. n
    BY <2>2
  <2>4. h - 1 \notin Bad
    BY <2>2, <2>3
  <2>5. i = h - 1 \/ rank[at[i]] < rank[at[h - 1]]
    BY <2>3, <2>4
  <2>6. rank[at[h - 1]] < rank[at[h]]
    BY <2>3, <1>4
  <2>7. rank[at[i]] < rank[at[h]]
    BY <2>5, <2>6, <2>3, <1>5
  <2> QED BY <2>2, <2>7
<1>7. \A i, j \in 0 .. n : at[i] = at[j] => i = j
  <2> SUFFICES ASSUME NEW i \in 0 .. n, NEW j \in 0 .. n, at[i] = at[j], i # j PROVE FALSE
    OBVIOUS
  <2>1. i < j \/ j < i
    OBVIOUS
  <2> QED BY <2>1, <1>6, <1>5
<1> DEFINE Rest == trail \ {c}
<1>8. at \in [0 .. n -> Rest]
  BY <1>1 DEF Leads
<1>9. at \in Injection(0 .. n, Rest)
  BY <1>7, <1>8 DEF Injection, IsInjective
<1>10. IsFiniteSet(Rest) /\ Cardinality(Rest) = Cardinality(trail) - 1
  BY FS_RemoveElement DEF Leads
<1>11. Cardinality(0 .. n) <= Cardinality(Rest)
  BY <1>9, <1>10, FS_Injection
<1>12. Cardinality(0 .. n) = n + 1
  <2>1. 0 \in Int /\ n \in Int /\ ~(0 > n)
    OBVIOUS
  <2>2. Cardinality(0 .. n) = IF 0 > n THEN 0 ELSE n - 0 + 1
    BY <2>1, FS_Interval
  <2> QED BY <2>1, <2>2
<1>13. Cardinality(trail) \in Nat
  BY FS_CardinalityType
<1> QED BY <1>10, <1>11, <1>12, <1>13

---------------------------------------------------------------------------
(* The invariant of the placers                                            *)

Working(p) == ~At(p, "idle")
Planned(p) == ~At(p, "idle") /\ ~At(p, "plan")
\* The model has moved, its companion not yet.
Halfway(p) == At(p, "companion") \/ At(p, "undo")

\* A placer works under the lock, on two different places.
PlacersInv ==
    \A p \in Placers :
        /\ Working(p) => lock = p
        /\ Planned(p) => /\ placer[p].source \in Places
                         /\ placer[p].destination \in Places
                         /\ placer[p].source # placer[p].destination

\* Only the placer at work writes the journal; a model that it has not moved
\* is where it was found.
JournalInv ==
    \A p \in Placers :
        /\ At(p, "journal") => aliases = placer[p].saved
        /\ Planned(p) /\ ~At(p, "journal") => aliases = JournalOf(p)
        /\ Planned(p) /\ ~Halfway(p) => weights[placer[p].source] # NoModel
        /\ Halfway(p) => weights[placer[p].destination] # NoModel

\* No model is at two places.
Unique ==
    \A s, t \in Places : weights[s] # NoModel /\ weights[s] = weights[t] => s = t

\* A companion is with its model, or the placer that holds the lock has
\* taken the model away from it and knows where.
CompanionsInv ==
    ~torn =>
        /\ \A s \in Places : companion[s] # NoModel =>
              \/ weights[s] = companion[s]
              \/ \E p \in Placers : Halfway(p) /\ s = placer[p].source
        /\ \A p \in Placers : Halfway(p) =>
              /\ companion[placer[p].source] = weights[placer[p].destination]
              /\ companion[placer[p].destination] = NoModel

\* The model of the reference is at a place of its trail to which the aliases
\* lead; while it is halfway they also lead to where it may be taken back.
TrailInv ==
    /\ IsFiniteSet(trail)
    /\ reference = NoReference => trail = {} /\ retaken = "no"
    /\ reference # NoReference => /\ reference.model \in Models
                                  /\ \E c \in Places : weights[c] = reference.model
    /\ reference # NoReference /\ retaken = "no" =>
          /\ \A s \in trail : weights[s] \in {NoModel, reference.model}
          /\ \E c \in trail : weights[c] = reference.model /\ Lead(c)
          /\ \A p \in Placers :
                Halfway(p) /\ weights[placer[p].destination] = reference.model
                    => Lead(placer[p].source)

PlacementInv ==
    TypeOK /\ PlacersInv /\ JournalInv /\ Unique /\ CompanionsInv /\ TrailInv

\* Initially no placer works and there are no aliases.
LEMMA PlacementInit == Init => PlacementInv
<1> SUFFICES ASSUME Init PROVE PlacementInv
  OBVIOUS
<1>1. TypeOK
  <2>1. NoAliases \in [Places -> Places \cup {NoPlace}]
    BY DEF NoAliases
  <2>2. Idle \in Placer
    BY <2>1 DEF Idle, Placer
  <2>3. placer \in [Placers -> Placer]
    BY <2>2 DEF Init
  <2>4. reference \in Reference
    BY DEF Init, Reference, NoReference
  <2>5. 0 \in 0 .. MaxCrashes
    BY PlacementAssumption
  <2> QED BY <2>1, <2>3, <2>4, <2>5 DEF Init, TypeOK
<1>2. PlacersInv /\ JournalInv /\ Unique /\ CompanionsInv
  BY DEF Init, PlacersInv, JournalInv, Unique, CompanionsInv, Working, Planned, Halfway,
         At, Idle
<1>3. TrailInv
  BY FS_EmptySet DEF Init, TrailInv
<1> QED BY <1>1, <1>2, <1>3 DEF PlacementInv

\* Where one placer works the others are idle.
LEMMA OnePlacer ==
    ASSUME PlacementInv, NEW p \in Placers, NEW q \in Placers, Working(p), Working(q)
    PROVE  p = q
BY DEF PlacementInv, PlacersInv

\* With nothing else at the places of its trail, a reference is followed.
LEMMA LeadsToModel ==
    ASSUME PlacementInv, Cardinality(trail) <= MaxHops + 1
    PROVE  ReferencesFollow
<1> SUFFICES ASSUME reference # NoReference, retaken = "no" PROVE Follows
  BY DEF ReferencesFollow
<1>1. /\ trail \in SUBSET Places /\ IsFiniteSet(trail)
      /\ reference.model # NoModel /\ MaxHops \in Nat
      /\ weights \in [Places -> Models \cup {NoModel}]
  BY PlacementAssumption DEF PlacementInv, TypeOK, TrailInv
<1>2. PICK c \in trail : weights[c] = reference.model /\ Lead(c)
  BY DEF PlacementInv, TrailInv
<1>3. PICK C, rank : Leads(reference.place, c, C, rank)
  BY <1>2 DEF Lead
<1>4. \A q \in C \ {c} : weights[q] = NoModel
  BY <1>1, <1>2, <1>3 DEF Leads, PlacementInv, TrailInv, Unique
<1>5. PICK at : Visits(reference.place, MaxHops, at) /\ Resolve(reference.place) = at[MaxHops]
  BY ResolveVisits
<1>6. at[MaxHops] = c
  BY <1>1, <1>2, <1>3, <1>4, <1>5, VisitsArrive
<1> QED BY <1>2, <1>5, <1>6 DEF Follows

LEMMA Alone ==
    ASSUME PlacementInv, NEW p \in Placers, Working(p)
    PROVE  /\ lock = p
           /\ \A q \in Placers : q # p => placer[q].pc = "idle"
           /\ placer[p] \in Placer
BY DEF PlacementInv, PlacersInv, Working, At, TypeOK

\* An alias from where a model is leads no reference astray.
LEMMA LeadKept ==
    ASSUME PlacementInv, NEW source \in Places, weights[source] # NoModel,
           reference # NoReference, retaken = "no",
           UNCHANGED <<reference, trail>>,
           aliases' \in [Places -> Places \cup {NoPlace}],
           \A q \in Places : q # source => aliases'[q] = aliases[q],
           NEW c \in trail, weights[c] = reference.model, Lead(c)
    PROVE  Lead(c)'
<1>1. PICK C, rank : Leads(reference.place, c, C, rank)
  BY DEF Lead
<1>2. source \notin C \ {c}
  BY <1>1 DEF PlacementInv, TypeOK, TrailInv, Unique, Leads
<1>3. C \in SUBSET Places
  BY <1>1 DEF Leads, PlacementInv, TypeOK
<1>4. \A q \in C \ {c} : aliases'[q] = aliases[q]
  BY <1>2, <1>3
<1>5. Leads(reference.place, c, C, rank)'
  BY <1>1, <1>4 DEF Leads
<1> QED BY <1>5 DEF Lead

\* Where neither the files nor the aliases change, every reference leads to where it led.
LEMMA TrailKept ==
    ASSUME PlacementInv, UNCHANGED <<weights, aliases, reference, trail, retaken>>,
           \A q \in Placers : Halfway(q)' =>
               /\ Halfway(q)
               /\ placer'[q].source = placer[q].source
               /\ placer'[q].destination = placer[q].destination
    PROVE  TrailInv' /\ Unique'
<1>1. \A c : Lead(c)' = Lead(c)
  BY DEF Lead, Leads
<1> QED BY <1>1 DEF PlacementInv, TrailInv, Unique

\* Types of a placer that returns, and of one that goes on.
LEMMA ReturnTypes ==
    ASSUME TypeOK, NEW p \in Placers, Return(p)
    PROVE  /\ placer' \in [Placers -> Placer] /\ lock' \in Placers \cup {NoPlacer}
           /\ placer'[p].pc = "idle"
           /\ \A q \in Placers : q # p => placer'[q] = placer[q]
<1>1. NoAliases \in [Places -> Places \cup {NoPlace}]
  BY DEF NoAliases
<1>2. Idle \in Placer
  BY <1>1 DEF Idle, Placer
<1> QED BY <1>2 DEF Return, TypeOK, Idle

LEMMA GotoTypes ==
    ASSUME TypeOK, NEW p \in Placers,
           NEW pc \in {"idle", "plan", "journal", "weights", "companion", "undo", "restore"},
           Goto(p, pc)
    PROVE  /\ placer' \in [Placers -> Placer]
           /\ placer'[p].pc = pc
           /\ placer'[p].source = placer[p].source
           /\ placer'[p].destination = placer[p].destination
           /\ placer'[p].saved = placer[p].saved
           /\ \A q \in Placers : q # p => placer'[q] = placer[q]
BY DEF Goto, TypeOK, Placer

\* A placer that returns leaves nobody at work.
LEMMA ReturnInv ==
    ASSUME PlacementInv, NEW p \in Placers, Working(p), Return(p)
    PROVE  PlacersInv' /\ JournalInv'
<1>1. \A q \in Placers : placer'[q].pc = "idle"
  BY Alone, ReturnTypes DEF PlacementInv
<1> QED BY <1>1 DEF PlacersInv, JournalInv, Working, Planned, Halfway, At

---------------------------------------------------------------------------

\* One lemma for each step of placing.
LEMMA LockKeeps ==
    ASSUME PlacementInv, NEW p \in Placers, Lock(p) PROVE PlacementInv'
<1>1. \A q \in Placers : placer[q].pc = "idle"
  BY PlacementAssumption DEF PlacementInv, PlacersInv, Working, At, Lock
<1>2. /\ placer' \in [Placers -> Placer] /\ placer'[p].pc = "plan" /\ lock' = p
      /\ \A q \in Placers : q # p => placer'[q].pc = "idle"
  BY <1>1, GotoTypes DEF Lock, PlacementInv
<1>3. UNCHANGED <<weights, companion, aliases, reference, trail, retaken, torn, crashes>>
  BY DEF Lock, files, history
<1>4. TypeOK'
  BY <1>2, <1>3 DEF PlacementInv, TypeOK
<1>5. PlacersInv' /\ JournalInv' /\ CompanionsInv'
  BY <1>1, <1>2, <1>3 DEF PlacementInv, PlacersInv, JournalInv, CompanionsInv, Working, Planned,
     Halfway, At
<1>6. TrailInv' /\ Unique'
  BY <1>1, <1>2, <1>3, TrailKept DEF Halfway, At
<1> QED BY <1>4, <1>5, <1>6 DEF PlacementInv

\* uniquePath finds a place that no file has.
LEMMA FreeName ==
    ASSUME NEW s, NEW type, Free(s, type) # {}, s.name \in 0 .. MaxName
    PROVE  Min(Free(s, type)) \in 0 .. MaxName
<1>1. Free(s, type) \in SUBSET Nat /\ Free(s, type) \in SUBSET (0 .. MaxName)
  BY PlacementAssumption DEF Free, Alternatives
<1>2. PICK n \in Free(s, type) : \A m \in Free(s, type) : n <= m
  BY <1>1, Least
<1>3. Min(Free(s, type)) \in Free(s, type)
  BY <1>2 DEF Min
<1> QED BY <1>1, <1>3

LEMMA PlanKeeps ==
    ASSUME PlacementInv, NEW p \in Placers, Plan(p) PROVE PlacementInv'
<1>1. /\ Working(p) /\ lock = p /\ \A q \in Placers : q # p => placer[q].pc = "idle"
      /\ placer[p].pc = "plan"
  BY Alone DEF Plan, Working, At
<1>2. UNCHANGED <<weights, companion, aliases, reference, trail, retaken, torn, crashes>>
  BY DEF Plan, files, history
<1>3. CASE Return(p)
  <2>1. /\ placer' \in [Placers -> Placer] /\ lock' \in Placers \cup {NoPlacer}
        /\ \A q \in Placers : placer'[q].pc = "idle"
    BY <1>1, <1>3, ReturnTypes DEF PlacementInv
  <2>2. TypeOK'
    BY <1>2, <2>1 DEF PlacementInv, TypeOK
  <2>3. PlacersInv' /\ JournalInv'
    BY <1>1, <1>3, ReturnInv
  <2>4. CompanionsInv'
    BY <1>1, <1>2, <2>1 DEF PlacementInv, CompanionsInv, Halfway, At
  <2>5. TrailInv' /\ Unique'
    BY <1>2, <2>1, TrailKept DEF Halfway, At
  <2> QED BY <2>2, <2>3, <2>4, <2>5 DEF PlacementInv
<1>4. CASE ~Return(p)
  <2>1. PICK s \in Places, type \in Types :
           /\ weights[s] # NoModel /\ s.category # type
           /\ Free(s, type) # {}
           /\ placer' = [placer EXCEPT ![p] =
                    [pc |-> "journal", source |-> s,
                     destination |-> In(type, Min(Free(s, type))), saved |-> aliases]]
           /\ UNCHANGED lock
    BY <1>4 DEF Plan
  <2> DEFINE d == In(type, Min(Free(s, type)))
  <2>2. d \in Places /\ d # s
    <3>1. s.name \in 0 .. MaxName
      BY DEF Places
    <3>2. Min(Free(s, type)) \in 0 .. MaxName
      BY <2>1, <3>1, FreeName
    <3> QED BY <2>1, <3>2 DEF Places, In
  <2> HIDE DEF d
  <2>3. /\ placer'[p] = [pc |-> "journal", source |-> s, destination |-> d, saved |-> aliases]
        /\ \A q \in Placers : q # p => placer'[q] = placer[q]
        /\ placer' \in [Placers -> Placer]
    BY <2>1, <2>2 DEF PlacementInv, TypeOK, Placer, d
  <2>4. TypeOK'
    BY <1>2, <2>1, <2>3 DEF PlacementInv, TypeOK
  <2>5. PlacersInv' /\ JournalInv'
    BY <1>1, <1>2, <2>1, <2>2, <2>3 DEF PlacersInv, JournalInv, Working, Planned, Halfway, At
  <2>6. CompanionsInv'
    BY <1>1, <1>2, <2>3 DEF PlacementInv, CompanionsInv, Halfway, At
  <2>7. TrailInv' /\ Unique'
    BY <1>1, <1>2, <2>3, TrailKept DEF Halfway, At
  <2> QED BY <2>4, <2>5, <2>6, <2>7 DEF PlacementInv
<1> QED BY <1>3, <1>4

\* The journal takes one alias, or goes back to what it was.
LEMMA JournalTypes ==
    ASSUME PlacementInv, NEW p \in Placers, Planned(p)
    PROVE  /\ JournalOf(p) \in [Places -> Places \cup {NoPlace}]
           /\ placer[p].saved \in [Places -> Places \cup {NoPlace}]
           /\ JournalOf(p)[placer[p].source] = placer[p].destination
           /\ \A q \in Places : q # placer[p].source => JournalOf(p)[q] = placer[p].saved[q]
BY DEF PlacementInv, PlacersInv, TypeOK, Placer, JournalOf, Planned, Working

\* TrailInv where one alias changed and nobody is halfway.
LEMMA TrailKeptByJournal ==
    ASSUME PlacementInv, UNCHANGED <<weights, reference, trail, retaken>>,
           NEW source \in Places, weights[source] # NoModel,
           aliases' \in [Places -> Places \cup {NoPlace}],
           \A q \in Places : q # source => aliases'[q] = aliases[q],
           \A q \in Placers : ~Halfway(q)'
    PROVE  TrailInv' /\ Unique'
<1>1. ASSUME reference # NoReference, retaken = "no"
      PROVE  \E c \in trail : weights[c] = reference.model /\ Lead(c)'
  <2>1. PICK c \in trail : weights[c] = reference.model /\ Lead(c)
    BY <1>1 DEF PlacementInv, TrailInv
  <2> QED BY <1>1, <2>1, LeadKept
<1>2. TrailInv'
  BY <1>1 DEF PlacementInv, TrailInv
<1> QED BY <1>2 DEF PlacementInv, Unique

LEMMA SaveJournalKeeps ==
    ASSUME PlacementInv, NEW p \in Placers, SaveJournal(p) PROVE PlacementInv'
<1>1. /\ Working(p) /\ Planned(p) /\ placer[p].pc = "journal" /\ lock = p
      /\ \A q \in Placers : q # p => placer[q].pc = "idle"
  BY Alone DEF SaveJournal, Working, Planned, At
<1>2. UNCHANGED <<weights, companion, reference, trail, retaken, torn, crashes>>
  BY DEF SaveJournal, files, history
<1>3. /\ aliases = placer[p].saved /\ weights[placer[p].source] # NoModel
      /\ placer[p].source \in Places /\ placer[p].destination \in Places
      /\ placer[p].source # placer[p].destination
  BY <1>1 DEF PlacementInv, JournalInv, PlacersInv, Halfway, At
<1>4. CASE Return(p) /\ UNCHANGED aliases
  <2>1. /\ placer' \in [Placers -> Placer] /\ lock' \in Placers \cup {NoPlacer}
        /\ \A q \in Placers : placer'[q].pc = "idle"
    BY <1>1, <1>4, ReturnTypes DEF PlacementInv
  <2>2. TypeOK'
    BY <1>2, <1>4, <2>1 DEF PlacementInv, TypeOK
  <2>3. PlacersInv' /\ JournalInv'
    BY <1>1, <1>4, ReturnInv
  <2>4. CompanionsInv'
    BY <1>1, <1>2, <2>1 DEF PlacementInv, CompanionsInv, Halfway, At
  <2>5. TrailInv' /\ Unique'
    BY <1>2, <1>4, <2>1, TrailKept DEF Halfway, At
  <2> QED BY <2>2, <2>3, <2>4, <2>5 DEF PlacementInv
<1>5. CASE aliases' = JournalOf(p) /\ Goto(p, "weights") /\ UNCHANGED lock
  <2>1. /\ placer' \in [Placers -> Placer] /\ placer'[p].pc = "weights"
        /\ placer'[p].source = placer[p].source
        /\ placer'[p].destination = placer[p].destination
        /\ placer'[p].saved = placer[p].saved
        /\ \A q \in Placers : q # p => placer'[q] = placer[q]
    BY <1>5, GotoTypes DEF PlacementInv
  <2>2. TypeOK'
    BY <1>1, <1>2, <1>5, <2>1, JournalTypes DEF PlacementInv, TypeOK
  <2>3. PlacersInv'
    BY <1>1, <1>3, <1>5, <2>1 DEF PlacersInv, Working, Planned, At
  <2>4. JournalInv'
    BY <1>1, <1>2, <1>3, <1>5, <2>1 DEF JournalInv, JournalOf, Planned, Halfway, At
  <2>5. CompanionsInv'
    BY <1>1, <1>2, <2>1 DEF PlacementInv, CompanionsInv, Halfway, At
  <2>6. TrailInv' /\ Unique'
    BY <1>1, <1>2, <1>3, <1>5, <2>1, JournalTypes, TrailKeptByJournal DEF Halfway, At
  <2> QED BY <2>2, <2>3, <2>4, <2>5, <2>6 DEF PlacementInv
<1> QED BY <1>4, <1>5 DEF SaveJournal

LEMMA RestoreKeeps ==
    ASSUME PlacementInv, NEW p \in Placers, Restore(p) PROVE PlacementInv'
<1>1. /\ Working(p) /\ Planned(p) /\ placer[p].pc = "restore" /\ Return(p)
      /\ \A q \in Placers : q # p => placer[q].pc = "idle"
  BY Alone DEF Restore, Working, Planned, At
<1>2. UNCHANGED <<weights, companion, reference, trail, retaken, torn, crashes>>
  BY DEF Restore, files, history
<1>3. /\ aliases = JournalOf(p) /\ weights[placer[p].source] # NoModel
      /\ placer[p].source \in Places
  BY <1>1 DEF PlacementInv, JournalInv, PlacersInv, Halfway, At
<1>4. /\ aliases' \in [Places -> Places \cup {NoPlace}]
      /\ \A q \in Places : q # placer[p].source => aliases'[q] = aliases[q]
  BY <1>1, <1>3, JournalTypes DEF Restore
<1>5. /\ placer' \in [Placers -> Placer] /\ lock' \in Placers \cup {NoPlacer}
      /\ \A q \in Placers : placer'[q].pc = "idle"
  BY <1>1, ReturnTypes DEF PlacementInv
<1>6. TypeOK'
  BY <1>2, <1>4, <1>5 DEF PlacementInv, TypeOK
<1>7. PlacersInv' /\ JournalInv'
  BY <1>1, ReturnInv
<1>8. CompanionsInv'
  BY <1>1, <1>2, <1>5 DEF PlacementInv, CompanionsInv, Halfway, At
<1>9. TrailInv' /\ Unique'
  BY <1>2, <1>3, <1>4, <1>5, TrailKeptByJournal DEF Halfway, At
<1> QED BY <1>6, <1>7, <1>8, <1>9 DEF PlacementInv

LEMMA CrashKeeps ==
    ASSUME PlacementInv, NEW p \in Placers, Crash(p) PROVE PlacementInv'
<1>1. /\ Working(p) /\ Return(p)
      /\ UNCHANGED <<weights, companion, aliases, reference, trail, retaken>>
      /\ torn' = TRUE /\ crashes' \in 0 .. MaxCrashes
  BY PlacementAssumption DEF Crash, Working, files, PlacementInv, TypeOK
<1>2. /\ placer' \in [Placers -> Placer] /\ lock' \in Placers \cup {NoPlacer}
      /\ \A q \in Placers : placer'[q].pc = "idle"
  BY <1>1, Alone, ReturnTypes DEF PlacementInv
<1>3. TypeOK'
  BY <1>1, <1>2 DEF PlacementInv, TypeOK
<1>4. PlacersInv' /\ JournalInv'
  BY <1>1, ReturnInv
<1>5. CompanionsInv'
  BY <1>1 DEF CompanionsInv
<1>6. TrailInv' /\ Unique'
  BY <1>1, <1>2, TrailKept DEF Halfway, At
<1> QED BY <1>3, <1>4, <1>5, <1>6 DEF PlacementInv

LEMMA MoveCompanionKeeps ==
    ASSUME PlacementInv, NEW p \in Placers, MoveCompanion(p) PROVE PlacementInv'
<1> DEFINE src == placer[p].source
           d == placer[p].destination
<1>1. /\ Working(p) /\ Planned(p) /\ Halfway(p) /\ placer[p].pc = "companion" /\ lock = p
      /\ \A q \in Placers : q # p => placer[q].pc = "idle"
  BY Alone DEF MoveCompanion, Working, Planned, Halfway, At
<1>2. UNCHANGED <<weights, aliases, reference, trail, retaken, torn, crashes>>
  BY DEF MoveCompanion, history
<1>3. /\ src \in Places /\ d \in Places /\ src # d
      /\ weights[d] # NoModel
      /\ companion \in [Places -> Models \cup {NoModel}]
  BY <1>1 DEF PlacementInv, JournalInv, PlacersInv, TypeOK
<1>4. CASE /\ CanRename(companion, src, d)
           /\ companion' = Renamed(companion, src, d)
           /\ Return(p)
  <2>1. /\ placer' \in [Placers -> Placer] /\ lock' \in Placers \cup {NoPlacer}
        /\ \A q \in Placers : placer'[q].pc = "idle"
    BY <1>1, <1>4, ReturnTypes DEF PlacementInv
  <2>2. /\ companion' \in [Places -> Models \cup {NoModel}]
        /\ companion'[src] = NoModel /\ companion'[d] = companion[src]
        /\ \A s \in Places : s # src /\ s # d => companion'[s] = companion[s]
    BY <1>3, <1>4 DEF Renamed
  <2>3. TypeOK'
    BY <1>2, <2>1, <2>2 DEF PlacementInv, TypeOK
  <2>4. PlacersInv' /\ JournalInv'
    BY <1>1, <1>4, ReturnInv
  <2>5. CompanionsInv'
    BY <1>1, <1>2, <1>3, <2>1, <2>2 DEF PlacementInv, CompanionsInv, Halfway, At
  <2>6. TrailInv' /\ Unique'
    BY <1>2, <2>1, TrailKept DEF Halfway, At
  <2> QED BY <2>3, <2>4, <2>5, <2>6 DEF PlacementInv
<1>5. CASE Goto(p, "undo") /\ UNCHANGED <<companion, lock>>
  <2>1. /\ placer' \in [Placers -> Placer] /\ placer'[p].pc = "undo"
        /\ placer'[p].source = src /\ placer'[p].destination = d
        /\ placer'[p].saved = placer[p].saved
        /\ \A q \in Placers : q # p => placer'[q] = placer[q]
    BY <1>5, GotoTypes DEF PlacementInv
  <2>2. TypeOK'
    BY <1>2, <1>5, <2>1 DEF PlacementInv, TypeOK
  <2>3. PlacersInv'
    BY <1>1, <1>3, <1>5, <2>1 DEF PlacersInv, Working, Planned, At
  <2>4. JournalInv'
    BY <1>1, <1>2, <1>3, <1>5, <2>1
    DEF PlacementInv, JournalInv, JournalOf, Planned, Halfway, At
  <2>5. CompanionsInv'
    BY <1>1, <1>2, <1>5, <2>1 DEF PlacementInv, CompanionsInv, Halfway, At
  <2>6. TrailInv' /\ Unique'
    BY <1>1, <1>2, <2>1, TrailKept DEF Halfway, At
  <2> QED BY <2>2, <2>3, <2>4, <2>5, <2>6 DEF PlacementInv
<1> QED BY <1>4, <1>5 DEF MoveCompanion

\* What a renaming of the model at s to the free place t does to the places.
LEMMA RenamedWeights ==
    ASSUME PlacementInv, NEW s \in Places, NEW t \in Places,
           weights[s] # NoModel, weights[t] = NoModel,
           weights' = Renamed(weights, s, t)
    PROVE  /\ s # t /\ weights' \in [Places -> Models \cup {NoModel}]
           /\ weights'[t] = weights[s] /\ weights'[s] = NoModel
           /\ \A q \in Places : q # s /\ q # t => weights'[q] = weights[q]
           /\ Unique'
BY DEF PlacementInv, TypeOK, Renamed, Unique

(* The model of the reference comes from s to t: its trail leads to t, when the
   aliases lead from s to t or led there all along. *)
LEMMA TrailMoves ==
    ASSUME PlacementInv, NEW s \in Places, NEW t \in Places,
           weights[s] # NoModel, weights[t] = NoModel,
           weights' = Renamed(weights, s, t), UNCHANGED <<aliases, reference>>,
           Arrives(weights[s], t, "moved"),
           aliases[s] = t \/ (weights[s] = reference.model /\ reference # NoReference
                                 /\ retaken = "no" => Lead(t)),
           \A q \in Placers : Halfway(q)' =>
               placer'[q].source = s /\ placer'[q].destination = t
    PROVE  TrailInv'
<1>1. /\ s # t /\ weights' \in [Places -> Models \cup {NoModel}]
      /\ weights'[t] = weights[s] /\ weights'[s] = NoModel
      /\ \A q \in Places : q # s /\ q # t => weights'[q] = weights[q]
  BY RenamedWeights
<1>2. /\ trail \in SUBSET Places /\ IsFiniteSet(trail)
      /\ trail' = IF weights[s] = reference.model THEN trail \cup {t} ELSE trail
  BY DEF PlacementInv, TypeOK, TrailInv, Arrives
<1>3. IsFiniteSet(trail') /\ trail \in SUBSET trail'
  BY <1>2, FS_AddElement
<1>4. ASSUME reference = NoReference PROVE trail' = {} /\ retaken' = "no"
  BY <1>4 DEF PlacementInv, TrailInv, Arrives, NoReference
<1>5. ASSUME reference # NoReference
      PROVE  reference.model \in Models /\ \E c \in Places : weights'[c] = reference.model
  BY <1>1, <1>5, PlacementAssumption DEF PlacementInv, TrailInv
<1>6. ASSUME reference # NoReference, retaken' = "no"
      PROVE  /\ \A q \in trail' : weights'[q] \in {NoModel, reference.model}
             /\ \E c \in trail' : weights'[c] = reference.model /\ Lead(c)'
             /\ weights[s] = reference.model => Lead(s)'
  <2>1. retaken = "no"
    BY <1>6 DEF Arrives
  <2>2. PICK c \in trail : weights[c] = reference.model /\ Lead(c)
    BY <1>6, <2>1 DEF PlacementInv, TrailInv
  <2>3. PICK C, rank : Leads(reference.place, c, C, rank)
    BY <2>2 DEF Lead
  <2>4. /\ C \in SUBSET trail' /\ C \in SUBSET Places /\ c \in Places
        /\ rank \in [Places -> Nat]
    BY <1>2, <1>3, <2>3 DEF Leads
  <2>5. Lead(c)'
    BY <2>3, <2>4 DEF Lead, Leads
  <2>6. CASE weights[s] = reference.model
    <3>1. c = s
      BY <1>2, <2>2, <2>6, <1>5, <1>6, PlacementAssumption DEF PlacementInv, Unique
    <3>2. Lead(t)'
      <4>1. CASE aliases[s] = t
        <5> DEFINE D == C \cup {t}
                   rankD == [rank EXCEPT ![t] = rank[s] + 1]
        <5>1. D \in SUBSET trail' /\ reference.place \in D /\ t \in D
          BY <1>2, <2>3, <2>4, <2>6 DEF Leads
        <5>2. rank[s] \in Nat /\ \A q \in C : rank[q] \in Nat /\ rank[q] <= rank[s]
          BY <2>3, <2>4, <3>1 DEF Leads
        <5>3. /\ rankD \in [Places -> Nat] /\ rankD[t] = rank[s] + 1
              /\ \A q \in Places : q # t => rankD[q] = rank[q]
          BY <2>4, <5>2
        <5>4. \A q \in D : rankD[q] <= rankD[t]
          BY <2>4, <5>2, <5>3
        <5>5. \A q \in D \ {t} : aliases[q] \in D /\ rankD[q] < rankD[aliases[q]]
          <6> SUFFICES ASSUME NEW q \in D \ {t}
                       PROVE  aliases[q] \in D /\ rankD[q] < rankD[aliases[q]]
            OBVIOUS
          <6>1. q \in C /\ rankD[q] = rank[q] /\ rank[q] <= rank[s] /\ rank[q] \in Nat
            BY <2>4, <5>2, <5>3
          <6>2. CASE aliases[q] = t
            BY <5>2, <5>3, <6>1, <6>2
          <6>3. CASE aliases[q] # t
            <7>1. q # s
              BY <4>1, <6>3
            <7>2. aliases[q] \in C /\ rank[q] < rank[aliases[q]]
              BY <2>3, <3>1, <6>1, <7>1 DEF Leads
            <7> QED BY <2>4, <5>3, <6>1, <6>3, <7>2
          <6> QED BY <6>2, <6>3
        <5> HIDE DEF D, rankD
        <5>6. Leads(reference.place, t, D, rankD)'
          BY <5>1, <5>3, <5>4, <5>5 DEF Leads
        <5> QED BY <5>6 DEF Lead
      <4>2. CASE Lead(t)
        <5>1. PICK E, rankE : Leads(reference.place, t, E, rankE)
          BY <4>2 DEF Lead
        <5>2. Leads(reference.place, t, E, rankE)'
          BY <1>3, <5>1 DEF Leads
        <5> QED BY <5>2 DEF Lead
      <4> QED BY <4>1, <4>2, <1>6, <2>1, <2>6
    <3>3. t \in trail'
      BY <1>2, <2>6
    <3>4. \A q \in trail' : weights'[q] \in {NoModel, reference.model}
      BY <1>1, <1>2, <1>6, <2>1, <2>6 DEF PlacementInv, TrailInv
    <3> QED BY <1>1, <2>5, <2>6, <3>1, <3>2, <3>3, <3>4
  <2>7. CASE weights[s] # reference.model
    <3>1. trail' = trail /\ t \notin trail
      BY <1>2, <1>6, <2>1, <2>7 DEF Arrives
    <3>2. c # s /\ c # t
      BY <2>2, <2>7, <3>1
    <3>3. weights'[c] = reference.model
      BY <1>1, <2>2, <2>4, <3>2
    <3>4. \A q \in trail' : weights'[q] \in {NoModel, reference.model}
      BY <1>1, <1>2, <1>6, <2>1, <3>1 DEF PlacementInv, TrailInv
    <3> QED BY <2>2, <2>5, <2>7, <3>1, <3>3, <3>4
  <2> QED BY <2>6, <2>7
<1> QED
  <2>1. reference' = reference /\ NoReference' = NoReference
    BY DEF NoReference
  <2>2. ASSUME reference # NoReference, retaken' = "no", NEW q \in Placers, Halfway(q)',
               weights'[placer'[q].destination] = reference.model
        PROVE  Lead(placer[q].source)'
    <3>1. placer'[q].source = s /\ placer'[q].destination = t
      BY <2>2
    <3>2. Lead(s)'
      BY <1>1, <1>6, <2>2, <3>1
    <3> QED BY <3>1, <3>2 DEF Lead
  <2> QED BY <1>3, <1>4, <1>5, <1>6, <2>1, <2>2 DEF TrailInv

\* The types of what a renaming adds to the trail.
LEMMA ArrivesTypes ==
    ASSUME TypeOK, NEW m, NEW s \in Places, NEW how \in {"moved", "imported"},
           Arrives(m, s, how)
    PROVE  trail' \in SUBSET Places /\ retaken' \in {"no", "moved", "imported"}
BY DEF TypeOK, Arrives

LEMMA MoveWeightsKeeps ==
    ASSUME PlacementInv, NEW p \in Placers, MoveWeights(p) PROVE PlacementInv'
<1> DEFINE src == placer[p].source
           d == placer[p].destination
<1>1. /\ Working(p) /\ Planned(p) /\ ~Halfway(p) /\ placer[p].pc = "weights" /\ lock = p
      /\ \A q \in Placers : q # p => placer[q].pc = "idle"
  BY Alone DEF MoveWeights, Working, Planned, Halfway, At
<1>2. UNCHANGED <<aliases, companion, reference, torn, crashes>>
  BY DEF MoveWeights
<1>3. /\ src \in Places /\ d \in Places /\ src # d
      /\ weights[src] # NoModel /\ aliases[src] = d
  BY <1>1, JournalTypes DEF PlacementInv, JournalInv, PlacersInv, At
<1>4. CASE /\ CanRename(weights, src, d)
           /\ weights' = Renamed(weights, src, d)
           /\ Arrives(weights[src], d, "moved")
           /\ IF companion[src] = NoModel THEN Return(p)
                                          ELSE Goto(p, "companion") /\ UNCHANGED lock
  <2>1. /\ weights[d] = NoModel /\ weights' \in [Places -> Models \cup {NoModel}]
        /\ weights'[d] = weights[src] /\ weights'[src] = NoModel
        /\ \A q \in Places : q # src /\ q # d => weights'[q] = weights[q]
        /\ Unique'
    BY <1>3, <1>4, RenamedWeights DEF CanRename
  <2>2. trail' \in SUBSET Places /\ retaken' \in {"no", "moved", "imported"}
    BY <1>3, <1>4, ArrivesTypes DEF PlacementInv
  <2>3. CASE companion[src] = NoModel
    <3>1. /\ placer' \in [Placers -> Placer] /\ lock' \in Placers \cup {NoPlacer}
          /\ \A q \in Placers : placer'[q].pc = "idle"
      BY <1>1, <1>4, <2>3, ReturnTypes DEF PlacementInv
    <3>2. TypeOK'
      BY <1>2, <2>1, <2>2, <3>1 DEF PlacementInv, TypeOK
    <3>3. PlacersInv' /\ JournalInv'
      BY <1>1, <1>4, <2>3, ReturnInv
    <3>4. CompanionsInv'
      BY <1>1, <1>2, <1>3, <2>1, <2>3, <3>1 DEF PlacementInv, CompanionsInv, Halfway, At
    <3>5. TrailInv'
      <4>1. \A q \in Placers : ~Halfway(q)'
        BY <3>1 DEF Halfway, At
      <4> QED BY <1>2, <1>3, <1>4, <2>1, <4>1, TrailMoves
    <3> QED BY <2>1, <3>2, <3>3, <3>4, <3>5 DEF PlacementInv
  <2>4. CASE companion[src] # NoModel
    <3>1. /\ placer' \in [Placers -> Placer] /\ placer'[p].pc = "companion" /\ lock' = lock
          /\ placer'[p].source = src /\ placer'[p].destination = d
          /\ placer'[p].saved = placer[p].saved
          /\ \A q \in Placers : q # p => placer'[q] = placer[q]
      BY <1>4, <2>4, GotoTypes DEF PlacementInv
    <3>2. TypeOK'
      BY <1>2, <2>1, <2>2, <3>1 DEF PlacementInv, TypeOK
    <3>3. PlacersInv'
      BY <1>1, <1>3, <3>1 DEF PlacersInv, Working, Planned, At
    <3>4. JournalInv'
      BY <1>1, <1>2, <1>3, <2>1, <3>1
      DEF PlacementInv, JournalInv, JournalOf, Planned, Halfway, At
    <3>5. CompanionsInv'
      BY <1>1, <1>2, <1>3, <2>1, <2>4, <3>1 DEF PlacementInv, CompanionsInv, Halfway, At
    <3>6. TrailInv'
      <4>1. \A q \in Placers : Halfway(q)' =>
                placer'[q].source = src /\ placer'[q].destination = d
        BY <1>1, <3>1 DEF Halfway, At
      <4> QED BY <1>2, <1>3, <1>4, <2>1, <4>1, TrailMoves
    <3> QED BY <2>1, <3>2, <3>3, <3>4, <3>5, <3>6 DEF PlacementInv
  <2> QED BY <2>3, <2>4
<1>5. CASE Goto(p, "restore") /\ UNCHANGED <<weights, trail, retaken, lock>>
  <2>1. /\ placer' \in [Placers -> Placer] /\ placer'[p].pc = "restore"
        /\ placer'[p].source = src /\ placer'[p].destination = d
        /\ placer'[p].saved = placer[p].saved
        /\ \A q \in Placers : q # p => placer'[q] = placer[q]
    BY <1>5, GotoTypes DEF PlacementInv
  <2>2. TypeOK'
    BY <1>2, <1>5, <2>1 DEF PlacementInv, TypeOK
  <2>3. PlacersInv'
    BY <1>1, <1>3, <1>5, <2>1 DEF PlacersInv, Working, Planned, At
  <2>4. JournalInv'
    BY <1>1, <1>2, <1>3, <1>5, <2>1
    DEF PlacementInv, JournalInv, JournalOf, Planned, Halfway, At
  <2>5. CompanionsInv'
    BY <1>1, <1>2, <1>5, <2>1 DEF PlacementInv, CompanionsInv, Halfway, At
  <2>6. TrailInv' /\ Unique'
    BY <1>1, <1>2, <1>5, <2>1, TrailKept DEF Halfway, At
  <2> QED BY <2>2, <2>3, <2>4, <2>5, <2>6 DEF PlacementInv
<1> QED BY <1>4, <1>5 DEF MoveWeights

LEMMA UndoKeeps ==
    ASSUME PlacementInv, NEW p \in Placers, Undo(p) PROVE PlacementInv'
<1> DEFINE src == placer[p].source
           d == placer[p].destination
<1>1. /\ Working(p) /\ Planned(p) /\ Halfway(p) /\ placer[p].pc = "undo" /\ lock = p
      /\ \A q \in Placers : q # p => placer[q].pc = "idle"
  BY Alone DEF Undo, Working, Planned, Halfway, At
<1>2. UNCHANGED <<aliases, companion, reference, crashes>>
  BY DEF Undo
<1>3. /\ src \in Places /\ d \in Places /\ src # d
      /\ weights[d] # NoModel
  BY <1>1 DEF PlacementInv, JournalInv, PlacersInv
<1>4. CASE /\ CanRename(weights, d, src)
           /\ weights' = Renamed(weights, d, src)
           /\ Arrives(weights[d], src, "moved")
           /\ Goto(p, "restore")
           /\ UNCHANGED <<lock, torn>>
  <2>1. /\ weights[src] = NoModel /\ weights' \in [Places -> Models \cup {NoModel}]
        /\ weights'[src] = weights[d] /\ weights'[d] = NoModel
        /\ \A q \in Places : q # src /\ q # d => weights'[q] = weights[q]
        /\ Unique'
    BY <1>3, <1>4, RenamedWeights DEF CanRename
  <2>2. trail' \in SUBSET Places /\ retaken' \in {"no", "moved", "imported"}
    BY <1>3, <1>4, ArrivesTypes DEF PlacementInv
  <2>3. /\ placer' \in [Placers -> Placer] /\ placer'[p].pc = "restore"
        /\ placer'[p].source = src /\ placer'[p].destination = d
        /\ placer'[p].saved = placer[p].saved
        /\ \A q \in Placers : q # p => placer'[q] = placer[q]
    BY <1>4, GotoTypes DEF PlacementInv
  <2>4. TypeOK'
    BY <1>2, <1>4, <2>1, <2>2, <2>3 DEF PlacementInv, TypeOK
  <2>5. PlacersInv'
    BY <1>1, <1>3, <1>4, <2>3 DEF PlacersInv, Working, Planned, At
  <2>6. JournalInv'
    BY <1>1, <1>2, <1>3, <2>1, <2>3
    DEF PlacementInv, JournalInv, JournalOf, Planned, Halfway, At
  <2>7. CompanionsInv'
    <3>1. ASSUME ~torn
          PROVE  companion[src] = weights[d] /\ companion[d] = NoModel
      BY <1>1, <3>1 DEF PlacementInv, CompanionsInv
    <3>2. ASSUME ~torn, NEW s \in Places, s # src, s # d, companion[s] # NoModel
          PROVE  weights'[s] = companion[s]
      BY <1>1, <2>1, <3>2 DEF PlacementInv, CompanionsInv, Halfway, At
    <3>3. \A q \in Placers : ~Halfway(q)'
      BY <1>1, <2>3 DEF Halfway, At
    <3> QED BY <1>2, <1>4, <2>1, <3>1, <3>2, <3>3 DEF CompanionsInv
  <2>8. TrailInv'
    <3>1. \A q \in Placers : ~Halfway(q)'
      BY <1>1, <2>3 DEF Halfway, At
    <3>2. reference # NoReference /\ retaken = "no" /\ weights[d] = reference.model
             => Lead(src)
      BY <1>1 DEF PlacementInv, TrailInv
    <3> QED BY <1>2, <1>3, <1>4, <2>1, <3>1, <3>2, TrailMoves
  <2> QED BY <2>1, <2>4, <2>5, <2>6, <2>7, <2>8 DEF PlacementInv
<1>5. CASE torn' = TRUE /\ Return(p) /\ UNCHANGED <<weights, trail, retaken>>
  <2>1. /\ placer' \in [Placers -> Placer] /\ lock' \in Placers \cup {NoPlacer}
        /\ \A q \in Placers : placer'[q].pc = "idle"
    BY <1>1, <1>5, ReturnTypes DEF PlacementInv
  <2>2. TypeOK'
    BY <1>2, <1>5, <2>1 DEF PlacementInv, TypeOK
  <2>3. PlacersInv' /\ JournalInv'
    BY <1>1, <1>5, ReturnInv
  <2>4. CompanionsInv'
    BY <1>5 DEF CompanionsInv
  <2>5. TrailInv' /\ Unique'
    BY <1>2, <1>5, <2>1, TrailKept DEF Halfway, At
  <2> QED BY <2>2, <2>3, <2>4, <2>5 DEF PlacementInv
<1> QED BY <1>4, <1>5 DEF Undo

LEMMA ImportKeeps ==
    ASSUME PlacementInv, NEW m \in Models, NEW s \in Places, Import(m, s)
    PROVE  PlacementInv'
<1>1. /\ weights[s] = NoModel /\ \A q \in Places : weights[q] # m
      /\ weights' \in [Places -> Models \cup {NoModel}] /\ weights'[s] = m
      /\ \A q \in Places : q # s => weights'[q] = weights[q]
      /\ m # NoModel
  BY PlacementAssumption DEF Import, PlacementInv, TypeOK
<1>2. UNCHANGED <<aliases, lock, placer, reference, torn, crashes>>
  BY DEF Import
<1>3. /\ companion' \in [Places -> Models \cup {NoModel}]
      /\ \A q \in Places : companion'[q] # companion[q] =>
            q = s /\ companion[s] = NoModel /\ companion'[s] = m
  BY <1>1 DEF Import, PlacementInv, TypeOK
<1>4. m # reference.model /\ trail' = trail
  <2>1. reference = NoReference => reference.model = NoModel
    BY DEF NoReference
  <2> QED BY <1>1, <2>1 DEF Import, Arrives, PlacementInv, TrailInv
<1>5. TypeOK'
  BY <1>1, <1>2, <1>3, ArrivesTypes DEF Import, PlacementInv, TypeOK
<1>6. PlacersInv'
  BY <1>2 DEF PlacementInv, PlacersInv, Working, Planned, At
<1>7. JournalInv'
  BY <1>1, <1>2 DEF PlacementInv, JournalInv, PlacersInv, JournalOf, Planned, Halfway, At
<1>8. Unique'
  BY <1>1 DEF PlacementInv, Unique
<1>9. CompanionsInv'
  <2>1. \A p \in Placers : /\ Halfway(p)' = Halfway(p)
                           /\ Halfway(p) => /\ placer[p].source \in Places
                                            /\ placer[p].destination \in Places
                                            /\ weights[placer[p].destination] # NoModel
    BY <1>2 DEF PlacementInv, PlacersInv, JournalInv, Planned, Halfway, At
  <2>2. ASSUME ~torn, NEW q \in Places, companion'[q] # NoModel
        PROVE  weights'[q] = companion'[q]
                  \/ \E p \in Placers : Halfway(p) /\ q = placer[p].source
    <3>1. CASE companion'[q] = companion[q]
      BY <1>1, <2>2, <3>1 DEF PlacementInv, CompanionsInv
    <3>2. CASE companion'[q] # companion[q]
      BY <1>1, <1>3, <3>2
    <3> QED BY <3>1, <3>2
  <2>3. ASSUME ~torn, NEW p \in Placers, Halfway(p)
        PROVE  /\ companion'[placer[p].source] = weights'[placer[p].destination]
               /\ companion'[placer[p].destination] = NoModel
    BY <1>1, <1>3, <2>1, <2>3 DEF PlacementInv, CompanionsInv
  <2> QED BY <1>2, <2>1, <2>2, <2>3 DEF CompanionsInv
<1>10. TrailInv'
  <2>1. /\ \A c : Lead(c)' = Lead(c)
        /\ \A p \in Placers : Halfway(p)' = Halfway(p)
    BY <1>2, <1>4 DEF Lead, Leads, Halfway, At
  <2>2. ASSUME reference = NoReference PROVE retaken' = "no"
    BY <2>2 DEF PlacementInv, TrailInv, Import, Arrives
  <2>3. ASSUME reference # NoReference
        PROVE  reference.model \in Models /\ \E c \in Places : weights'[c] = reference.model
    BY <1>1, <2>3, PlacementAssumption DEF PlacementInv, TrailInv
  <2>4. ASSUME reference # NoReference, retaken' = "no"
        PROVE  /\ retaken = "no" /\ s \notin trail
               /\ \A q \in trail : weights'[q] = weights[q]
               /\ \A p \in Placers :
                    Halfway(p) /\ weights'[placer[p].destination] = reference.model
                        => weights[placer[p].destination] = reference.model
    <3>1. retaken = "no" /\ s \notin trail
      BY <1>4, <2>4 DEF Import, Arrives
    <3>2. trail \in SUBSET Places
      BY DEF PlacementInv, TypeOK
    <3>3. \A p \in Placers : Halfway(p) => placer[p].destination \in Places
      BY DEF PlacementInv, PlacersInv, Planned, Halfway, At
    <3> QED BY <1>1, <1>4, <3>1, <3>2, <3>3
  <2>5. NoReference' = NoReference
    BY DEF NoReference
  <2>6. IsFiniteSet(trail) /\ (reference = NoReference => trail = {})
    BY DEF PlacementInv, TrailInv
  <2>7. ASSUME reference # NoReference, retaken' = "no"
        PROVE  /\ \A q \in trail : weights'[q] \in {NoModel, reference.model}
               /\ \E c \in trail : weights'[c] = reference.model /\ Lead(c)
               /\ \A p \in Placers :
                    Halfway(p) /\ weights'[placer[p].destination] = reference.model
                       => Lead(placer[p].source)
    BY <2>4, <2>7 DEF PlacementInv, TrailInv
  <2>8. \A p \in Placers : Lead(placer[p].source)' = Lead(placer[p].source)
    BY <1>2, <1>4 DEF Lead, Leads
  <2> QED BY <1>2, <1>4, <2>1, <2>2, <2>3, <2>5, <2>6, <2>7, <2>8 DEF TrailInv
<1> QED BY <1>5, <1>6, <1>7, <1>8, <1>9, <1>10 DEF PlacementInv

LEMMA ListKeeps ==
    ASSUME PlacementInv, NEW s \in Places, List(s) PROVE PlacementInv'
<1>1. UNCHANGED <<weights, companion, aliases, lock, placer, retaken, torn, crashes>>
  BY DEF List, files
<1>2. /\ reference = NoReference /\ retaken = "no" /\ weights[s] \in Models
      /\ reference' = [model |-> weights[s], place |-> s] /\ trail' = {s}
  BY DEF List, PlacementInv, TrailInv, TypeOK
<1>3. TypeOK'
  BY <1>1, <1>2 DEF PlacementInv, TypeOK, Reference
<1>4. PlacersInv' /\ JournalInv' /\ Unique' /\ CompanionsInv'
  BY <1>1 DEF PlacementInv, PlacersInv, JournalInv, JournalOf, Unique, CompanionsInv, Working,
     Planned, Halfway, At
<1>5. TrailInv'
  <2>1. reference' # NoReference
    BY <1>2, PlacementAssumption DEF NoReference
  <2>2. Lead(s)'
    <3> DEFINE C == {s}
               rank == [q \in Places |-> 0]
    <3>1. Leads(reference.place, s, C, rank)'
      BY <1>2 DEF Leads
    <3> QED BY <3>1 DEF Lead
  <2>3. \A p \in Placers : ~(Halfway(p)' /\ weights[placer[p].destination] = weights[s])
    BY <1>1, <1>2, PlacementAssumption
    DEF List, PlacementInv, PlacersInv, Unique, Planned, Halfway, At
  <2>4. IsFiniteSet(trail')
    BY <1>2, FS_Singleton
  <2>5. NoReference' = NoReference
    BY DEF NoReference
  <2> QED BY <1>1, <1>2, <2>1, <2>2, <2>3, <2>4, <2>5 DEF TrailInv
<1> QED BY <1>3, <1>4, <1>5 DEF PlacementInv

\* Every step of placing keeps the invariant.
LEMMA PlacementNext == PlacementInv /\ [Next]_vars => PlacementInv'
<1> SUFFICES ASSUME PlacementInv, [Next]_vars PROVE PlacementInv'
  OBVIOUS
<1>1. ASSUME NEW p \in Placers, Step(p) PROVE PlacementInv'
  BY <1>1, LockKeeps, PlanKeeps, SaveJournalKeeps, MoveWeightsKeeps, MoveCompanionKeeps, UndoKeeps,
     RestoreKeeps, CrashKeeps DEF Step
<1>2. CASE UNCHANGED vars
  <2>1. \A c : Lead(c)' = Lead(c)
    BY <1>2 DEF vars, Lead, Leads
  <2>2. \A p \in Placers : Lead(placer[p].source)' = Lead(placer[p].source)
    BY <1>2 DEF vars, Lead, Leads
  <2> QED BY <1>2, <2>1, <2>2 DEF vars, PlacementInv, TypeOK, PlacersInv, JournalInv, JournalOf, Unique,
     CompanionsInv, TrailInv, Working, Planned, Halfway, At
<1> QED BY <1>1, <1>2, ImportKeeps, ListKeeps DEF Next

\* What the invariant says where no move is under way.
LEMMA InvImpliesCompanions == PlacementInv => CompanionsFollow
<1> SUFFICES ASSUME PlacementInv, lock = NoPlacer, ~torn,
                    NEW s \in Places, companion[s] # NoModel
             PROVE  weights[s] = companion[s]
  BY DEF CompanionsFollow
<1>1. \A p \in Placers : ~Halfway(p)
  BY PlacementAssumption DEF PlacementInv, PlacersInv, Working, Halfway, At
<1> QED BY <1>1 DEF PlacementInv, CompanionsInv

\* The invariant.
THEOREM PlacementInvariant == Spec => []PlacementInv
<1> QED BY PlacementInit, PlacementNext, PTL DEF Spec

(* Whenever no move is under way the companion is where its model is, whatever
   failed, crashed or was taken back, for any places, placers and bounds. *)
THEOREM CompanionsFollowAlways == Spec => []CompanionsFollow
<1> QED BY PlacementInvariant, InvImpliesCompanions, PTL

(* A reference leads to its model wherever placing has taken it, as long as its
   trail has no more places than resolve will hop over: whatever failed moves,
   crashes and reused names the journal has been through. *)
THEOREM ReferencesFollowWithinHops ==
    Spec => [](Cardinality(trail) <= MaxHops + 1 => ReferencesFollow)
<1>1. PlacementInv => (Cardinality(trail) <= MaxHops + 1 => ReferencesFollow)
  BY LeadsToModel
<1> QED BY <1>1, PlacementInvariant, PTL

---------------------------------------------------------------------------
(* Directories within each other                                           *)

Names == UNION {{f.dir[i] : i \in DOMAIN f.dir} : f \in Files}
Dirs == Seq(Names)

\* A file's directory is a sequence of names.
LEMMA DirOfFile == \A f \in Files : f.dir \in Dirs
<1> SUFFICES ASSUME NEW f \in Files PROVE f.dir \in Seq(Names)
  BY DEF Dirs
<1>1. f.dir \in Seq({f.dir[i] : i \in DOMAIN f.dir})
  BY InventoryAssumption
<1>2. \A i \in 1 .. Len(f.dir) : f.dir[i] \in Names
  BY <1>1 DEF Names
<1> DEFINE d == f.dir
<1>3. /\ Len(d) \in Nat /\ DOMAIN d = 1 .. Len(d) /\ d = [i \in 1 .. Len(d) |-> d[i]]
  BY <1>1
<1>4. d \in [1 .. Len(d) -> Names]
  BY <1>2, <1>3
<1> QED BY <1>3, <1>4

\* A directory that is a prefix agrees with the other one up to its length.
LEMMA PrefixElements ==
    ASSUME NEW d \in Dirs, NEW e \in Dirs
    PROVE  Inventory!IsPrefix(d, e) <=> Len(d) <= Len(e) /\ \A i \in 1 .. Len(d) : d[i] = e[i]
<1> USE DEF Dirs
<1>1. ASSUME Len(d) <= Len(e)
      PROVE  /\ SubSeq(d, 1, Len(d)) = [i \in 1 .. Len(d) |-> d[i]]
             /\ SubSeq(e, 1, Len(d)) = [i \in 1 .. Len(d) |-> e[i]]
  BY <1>1
<1> QED BY <1>1 DEF Inventory!IsPrefix

\* Of two prefixes of one directory the shorter is a prefix of the longer.
LEMMA PrefixOrder ==
    ASSUME NEW d \in Dirs, NEW e \in Dirs, NEW f \in Dirs
    PROVE  /\ Inventory!IsPrefix(d, d)
           /\ Inventory!IsPrefix(d, e) /\ Inventory!IsPrefix(e, f) => Inventory!IsPrefix(d, f)
           /\ Inventory!IsPrefix(d, f) /\ Inventory!IsPrefix(e, f) => Inventory!IsPrefix(d, e) \/ Inventory!IsPrefix(e, d)
           /\ Inventory!IsPrefix(d, e) /\ d # e => Len(d) < Len(e)
<1>1. /\ Len(d) \in Nat /\ Len(e) \in Nat /\ Len(f) \in Nat
      /\ Len(d) = Len(e) /\ (\A i \in 1 .. Len(d) : d[i] = e[i]) => d = e
  BY SeqEqual DEF Dirs
<1> QED BY <1>1, PrefixElements

\* Above every directory of a set there is an outermost one.
LEMMA OutermostAbove ==
    ASSUME NEW S \in SUBSET Dirs, NEW d \in S
    PROVE  \E r \in Inventory!Outermost(S) : Inventory!IsPrefix(r, d)
<1> DEFINE Above == {e \in S : Inventory!IsPrefix(e, d)}
           Lengths == {Len(e) : e \in Above}
<1>1. d \in Above /\ \A e \in Above : e \in Dirs /\ Len(e) \in Nat
  BY PrefixOrder DEF Dirs
<1>2. PICK n \in Lengths : \A m \in Lengths : n <= m
  <2>1. Lengths \in SUBSET Nat /\ Lengths # {}
    BY <1>1
  <2> HIDE DEF Lengths
  <2> QED BY <2>1, Least
<1>3. PICK r \in Above : n = Len(r)
  BY <1>2
<1>4. ASSUME NEW e \in S, Inventory!IsStrictPrefix(e, r) PROVE FALSE
  <2>1. e \in Dirs /\ r \in Dirs /\ Inventory!IsPrefix(e, r) /\ e # r
    BY <1>1, <1>3, <1>4 DEF Inventory!IsStrictPrefix
  <2>2. e \in Above /\ Len(e) < Len(r) /\ Len(e) \in Nat /\ Len(r) \in Nat
    BY <1>1, <1>3, <1>4, <2>1, PrefixOrder DEF Dirs
  <2> QED BY <1>2, <1>3, <2>2
<1>5. r \in Inventory!Outermost(S)
  BY <1>3, <1>4 DEF Inventory!Outermost
<1> QED BY <1>3, <1>5

\* Outermost directories lie side by side.
LEMMA OutermostApart ==
    ASSUME NEW S \in SUBSET Dirs, NEW d \in Inventory!Outermost(S),
           NEW e \in Inventory!Outermost(S), NEW f \in Dirs, Inventory!IsPrefix(d, f), Inventory!IsPrefix(e, f)
    PROVE  d = e
BY PrefixOrder DEF Inventory!Outermost, Inventory!IsStrictPrefix

\* What the inventory keeps of a file, and a list of files with their versions,
\* each with the size that the version names.
Stamps == [size : {1, 2}, time : Nat]
Versions == {"local", "head", "index"} \X {1, 2} \X Nat
Entry == {e \in [version : Versions, size : {1, 2}, resident : BOOLEAN] : e.version[2] = e.size}
Lists == UNION {[D -> Entry] : D \in SUBSET Files}

InventoryTypes ==
    /\ native \in [Files -> Stamps \cup {None}]
    /\ host \in [Files -> Stamps \cup {None}]
    /\ catalog \in Lists \cup {None}
    /\ call.objects \in Lists \cup {None}
    /\ changes \in 0 .. MaxChanges

\* A list is indexed by files.
LEMMA ListDomain ==
    ASSUME NEW e \in Lists
    PROVE  /\ DOMAIN e \in SUBSET Files /\ e \in [DOMAIN e -> Entry]
           /\ \A f \in DOMAIN e : e[f] \in Entry
BY DEF Lists

\* What a walk enters is a list of files.
LEMMA EntriesAreLists ==
    ASSUME InventoryTypes, NEW objects \in Lists \cup {None}
    PROVE  /\ Inventory!Entries(objects) \in Lists
           /\ DOMAIN Inventory!Entries(objects) =
                IF authority \/ objects = None THEN Inventory!There(native) ELSE DOMAIN objects
<1>1. Inventory!There(native) \in SUBSET Files
  BY DEF Inventory!There
<1>2. ASSUME NEW f \in Inventory!There(native)
      PROVE  native[f].size \in {1, 2} /\ native[f].time \in Nat
  BY DEF InventoryTypes, Inventory!There, Stamps
<1>3. ASSUME NEW f \in Inventory!There(native)
      PROVE  Inventory!LocalEntry(f) \in Entry /\ Inventory!NativeEntry(f) \in Entry
  <2> DEFINE v == <<"local", native[f].size, native[f].time>>
  <2>1. v \in Versions /\ v[2] = native[f].size
    BY <1>2, <1>3 DEF Versions
  <2>2. Inventory!LocalEntry(f) = [version |-> v, size |-> native[f].size, resident |-> TRUE]
    BY DEF Inventory!LocalEntry
  <2>3. Inventory!LocalEntry(f) \in Entry
    BY <1>2, <1>3, <2>1, <2>2 DEF Entry
  <2> DEFINE w == <<"head", native[f].size, native[f].time>>
  <2>4. w \in Versions /\ w[2] = native[f].size /\ [v EXCEPT ![1] = "head"] = w
    BY <1>2, <1>3 DEF Versions
  <2>5. Inventory!NativeEntry(f) = [version |-> w, size |-> native[f].size, resident |-> TRUE]
    <3>1. Inventory!NativeEntry(f)
            = [[version |-> v, size |-> native[f].size, resident |-> TRUE]
                 EXCEPT !.version = [v EXCEPT ![1] = "head"]]
      BY <2>2 DEF Inventory!NativeEntry
    <3> HIDE DEF v, w
    <3> QED BY <3>1, <2>4
  <2>6. Inventory!NativeEntry(f) \in Entry
    BY <1>2, <1>3, <2>4, <2>5 DEF Entry
  <2> QED BY <2>3, <2>6
<1>4. CASE objects = None
  <2>1. Inventory!Entries(objects) = [f \in Inventory!There(native) |-> Inventory!NativeEntry(f)]
    BY <1>4 DEF Inventory!Entries
  <2> QED BY <1>1, <1>3, <1>4, <2>1 DEF Lists
<1>5. CASE objects # None /\ authority
  <2>1. Inventory!Entries(objects)
           = [f \in Inventory!There(native) |-> Inventory!OwnedEntry(objects, f)]
    BY <1>5 DEF Inventory!Entries
  <2>2. ASSUME NEW f \in Inventory!There(native)
        PROVE  Inventory!OwnedEntry(objects, f) \in Entry
    <3>1. ASSUME f \in DOMAIN objects PROVE [objects[f] EXCEPT !.resident = TRUE] \in Entry
      BY <1>5, <3>1, ListDomain DEF Entry
    <3> QED BY <1>3, <3>1 DEF Inventory!OwnedEntry
  <2> QED BY <1>1, <1>5, <2>1, <2>2 DEF Lists
<1>6. CASE objects # None /\ ~authority
  BY <1>6 DEF Inventory!Entries
<1> QED BY <1>4, <1>5, <1>6

---------------------------------------------------------------------------
(* Every weights file in one row                                           *)

\* Rows that are the outermost packages and single files outside of them.
RowsLike(rows, roots) ==
    \A r \in rows : \/ \E d \in roots : r = Inventory!PackageRow(d)
                    \/ \E f \in Files : r = Inventory!FileRow(f) /\ Inventory!Loose(f, roots)

\* No file is in two rows.
LEMMA RowsApart ==
    ASSUME NEW S \in SUBSET Dirs, NEW rows, RowsLike(rows, Inventory!Outermost(S)),
           NEW listed \in SUBSET Files
    PROVE  Inventory!Apart(rows, listed)
<1> DEFINE roots == Inventory!Outermost(S)
<1>1. ASSUME NEW r \in rows
      PROVE  \/ r.package = TRUE /\ \E d \in roots : r = Inventory!PackageRow(d)
             \/ /\ r.package = FALSE
                /\ r = Inventory!FileRow(r.file) /\ Inventory!Loose(r.file, roots)
  <2>1. CASE \E d \in roots : r = Inventory!PackageRow(d)
    <3>1. r.package = TRUE
      BY <2>1 DEF Inventory!PackageRow
    <3> QED BY <2>1, <3>1
  <2>2. CASE \E f \in Files : r = Inventory!FileRow(f) /\ Inventory!Loose(f, roots)
    BY <2>2 DEF Inventory!FileRow
  <2> QED BY <2>1, <2>2 DEF RowsLike
<1>2. ASSUME NEW r \in rows, NEW s \in rows, NEW f \in listed,
             f \in Inventory!RowFiles(r, listed), f \in Inventory!RowFiles(s, listed)
      PROVE  r = s
  <2>1. f.dir \in Dirs
    BY DirOfFile
  <2>2. /\ r.package => Inventory!Below(r.dir, f)
        /\ s.package => Inventory!Below(s.dir, f)
        /\ ~r.package => f = r.file
        /\ ~s.package => f = s.file
    BY <1>2 DEF Inventory!RowFiles
  <2>3. CASE r.package = TRUE /\ s.package = TRUE
    <3>1. PICK d \in roots, e \in roots :
             r = Inventory!PackageRow(d) /\ s = Inventory!PackageRow(e)
      BY <1>1, <2>3
    <3>2. r.dir = d /\ s.dir = e
      BY <3>1 DEF Inventory!PackageRow
    <3>3. d = e
      BY <2>1, <2>2, <2>3, <3>2, OutermostApart DEF Inventory!Below
    <3> QED BY <3>1, <3>3
  <2>4. CASE r.package = FALSE /\ s.package = FALSE
    BY <1>1, <2>2, <2>4
  <2>5. ASSUME NEW t \in rows, t.package = TRUE, Inventory!Loose(f, roots),
               Inventory!Below(t.dir, f)
        PROVE  FALSE
    <3>1. PICK d \in roots : t = Inventory!PackageRow(d)
      BY <1>1, <2>5
    <3>2. t.dir = d
      BY <3>1 DEF Inventory!PackageRow
    <3> QED BY <2>5, <3>2 DEF Inventory!Loose
  <2>6. CASE r.package = TRUE /\ s.package = FALSE
    BY <1>1, <2>2, <2>5, <2>6
  <2>7. CASE r.package = FALSE /\ s.package = TRUE
    BY <1>1, <2>2, <2>5, <2>7
  <2> QED BY <1>1, <2>3, <2>4, <2>6, <2>7
<1>3. \A r : Inventory!RowFiles(r, listed) \subseteq listed
  BY DEF Inventory!RowFiles
<1>4. ASSUME NEW r \in rows, NEW s \in rows, r # s
      PROVE  Inventory!RowFiles(r, listed) \cap Inventory!RowFiles(s, listed) = {}
  BY <1>2, <1>3, <1>4
<1> QED BY <1>4 DEF Inventory!Apart

Covers(rows, listed) ==
    \A f \in listed : f.kind = "weights" => \E r \in rows : f \in Inventory!RowFiles(r, listed)

\* A package's row has the files below it, a file's row the file.
LEMMA PackageCovers ==
    ASSUME NEW f, NEW listed, f \in listed, NEW roots, ~Inventory!Loose(f, roots)
    PROVE  \E d \in roots : f \in Inventory!RowFiles(Inventory!PackageRow(d), listed)
BY DEF Inventory!Loose, Inventory!RowFiles, Inventory!PackageRow

LEMMA FileCovers ==
    ASSUME NEW f, NEW listed, f \in listed
    PROVE  f \in Inventory!RowFiles(Inventory!FileRow(f), listed)
BY DEF Inventory!RowFiles, Inventory!FileRow

\* The rows of models are of packages and loose files, side by side, and cover all.
LEMMA RowsOfModels ==
    ASSUME NEW listed \in SUBSET Files
    PROVE  Inventory!Apart(Inventory!Rows(listed), listed) /\ Covers(Inventory!Rows(listed), listed)
<1> DEFINE S == Inventory!Packages(listed)
<1>1. S \in SUBSET Dirs
  BY DirOfFile DEF Inventory!Packages
<1>2. RowsLike(Inventory!Rows(listed), Inventory!Outermost(S))
  BY DEF RowsLike, Inventory!Rows, Inventory!Roots
<1>3. ASSUME NEW f \in listed, f.kind = "weights"
      PROVE  \E r \in Inventory!Rows(listed) : f \in Inventory!RowFiles(r, listed)
  <2>1. CASE Inventory!Loose(f, Inventory!Outermost(S))
    <3>1. Inventory!FileRow(f) \in Inventory!Rows(listed)
      BY <1>3, <2>1 DEF Inventory!Rows, Inventory!Roots
    <3> QED BY <3>1, FileCovers
  <2>2. CASE ~Inventory!Loose(f, Inventory!Outermost(S))
    <3>1. PICK d \in Inventory!Outermost(S) :
             f \in Inventory!RowFiles(Inventory!PackageRow(d), listed)
      BY <2>2, PackageCovers
    <3>2. Inventory!PackageRow(d) \in Inventory!Rows(listed)
      BY DEF Inventory!Rows, Inventory!Roots
    <3> QED BY <3>1, <3>2
  <2> QED BY <2>1, <2>2
<1> QED BY <1>1, <1>2, <1>3, RowsApart DEF Covers

\* So are those of the catalog view.
LEMMA RowsOfCatalog ==
    ASSUME NEW listed \in SUBSET Files, NEW S \in SUBSET Dirs
    PROVE  LET rows == Inventory!RowsOf(listed, Inventory!Outermost(S))
           IN Inventory!Apart(rows, listed) /\ Covers(rows, listed)
<1> DEFINE roots == Inventory!Outermost(S)
           rows == Inventory!RowsOf(listed, roots)
<1>1. RowsLike(rows, roots)
  BY DEF RowsLike, Inventory!RowsOf, Inventory!Companions
<1>2. ASSUME NEW f \in listed, f.kind = "weights"
      PROVE  \E r \in rows : f \in Inventory!RowFiles(r, listed)
  <2>1. CASE Inventory!Loose(f, roots)
    <3>1. f \notin Inventory!Companions(listed) /\ Inventory!CatalogFile(f)
      BY <1>2 DEF Inventory!Companions, Inventory!CatalogFile
    <3>2. Inventory!FileRow(f) \in rows
      BY <2>1, <3>1 DEF Inventory!RowsOf
    <3> QED BY <3>2, FileCovers
  <2>2. CASE ~Inventory!Loose(f, roots)
    <3>1. PICK d \in roots : f \in Inventory!RowFiles(Inventory!PackageRow(d), listed)
      BY <2>2, PackageCovers
    <3>2. Inventory!PackageRow(d) \in rows
      BY DEF Inventory!RowsOf
    <3> QED BY <3>1, <3>2
  <2> QED BY <2>1, <2>2
<1> QED BY <1>1, <1>2, RowsApart DEF Covers

\* The files that the catalog view shows, and its packages.
LEMMA ShownFilesThere ==
    ASSUME InventoryTypes
    PROVE  /\ Inventory!ShownFiles(catalog) \in SUBSET Files
           /\ \E S \in SUBSET Dirs :
                 Inventory!ShownRows(catalog)
                    = Inventory!RowsOf(Inventory!ShownFiles(catalog), Inventory!Outermost(S))
<1>1. /\ Inventory!There(native) \in SUBSET Files
      /\ catalog # None => DOMAIN catalog \in SUBSET Files
  BY ListDomain DEF Inventory!There, InventoryTypes
<1>2. Inventory!ShownFiles(catalog) \in SUBSET Files
  BY <1>1 DEF Inventory!ShownFiles, Inventory!MapFiles, Inventory!MapFilesOfIndex,
              Inventory!Shallow
<1>3. CASE catalog = None
  <2> DEFINE S == {d \in {f.dir : f \in Inventory!There(native)} \ Inventory!TypeDirectories :
                      Inventory!IsPackage(d)}
  <2>1. S \in SUBSET Dirs
    BY <1>1, DirOfFile
  <2>2. Inventory!NativePackages = Inventory!Outermost(S)
    BY DEF Inventory!NativePackages
  <2> QED BY <1>2, <1>3, <2>1, <2>2 DEF Inventory!ShownRows
<1>4. CASE catalog # None
  <2> DEFINE S == (Inventory!Marked(Inventory!MapFilesOfIndex(catalog))
                      \cup Inventory!Configured(Inventory!MapFiles(catalog)))
                     \ Inventory!TypeDirectories
  <2>1. /\ Inventory!MapFilesOfIndex(catalog) \in SUBSET Files
        /\ Inventory!MapFiles(catalog) \in SUBSET Files
    BY <1>1, <1>4 DEF Inventory!MapFiles, Inventory!MapFilesOfIndex, Inventory!Shallow
  <2>2. S \in SUBSET Dirs
    BY <2>1, DirOfFile DEF Inventory!Marked, Inventory!Configured
  <2>3. Inventory!MapPackages(catalog) = Inventory!Outermost(S)
    BY DEF Inventory!MapPackages
  <2> QED BY <1>2, <1>4, <2>2, <2>3 DEF Inventory!ShownRows
<1> QED BY <1>3, <1>4, <1>2

\* Hence the rows partition the files of models, in both.
LEMMA InventoryPartition ==
    ASSUME InventoryTypes PROVE RowsPartition
<1>1. DOMAIN Inventory!Entries(catalog) \in SUBSET Files
  BY EntriesAreLists, ListDomain DEF InventoryTypes
<1>2. PICK S \in SUBSET Dirs :
         Inventory!ShownRows(catalog)
            = Inventory!RowsOf(Inventory!ShownFiles(catalog), Inventory!Outermost(S))
  BY ShownFilesThere
<1>3. LET rows == Inventory!ShownRows(catalog)
          listed == Inventory!ShownFiles(catalog)
      IN Inventory!Apart(rows, listed) /\ Covers(rows, listed)
  BY <1>2, ShownFilesThere, RowsOfCatalog
<1> QED BY <1>1, <1>3, RowsOfModels DEF RowsPartition, Inventory!RowsPartition, Covers

---------------------------------------------------------------------------
(* What models offers the catalog view shows                               *)

\* Every directory that looks like a package to the catalog view has a row around it.
LEMMA PackageShown ==
    ASSUME InventoryTypes, NEW g \in Inventory!ShownFiles(catalog), g.kind = "index",
           g.dir \notin Inventory!TypeDirectories
    PROVE  \E r \in Dirs : /\ Inventory!IsPrefix(r, g.dir)
                           /\ Inventory!PackageRow(r) \in Inventory!ShownRows(catalog)
<1>1. g \in Files /\ g.dir \in Dirs
  BY ShownFilesThere, DirOfFile
<1>2. ASSUME NEW S \in SUBSET Dirs, g.dir \in S,
             Inventory!ShownRows(catalog)
                = Inventory!RowsOf(Inventory!ShownFiles(catalog), Inventory!Outermost(S))
      PROVE  \E r \in Dirs : /\ Inventory!IsPrefix(r, g.dir)
                             /\ Inventory!PackageRow(r) \in Inventory!ShownRows(catalog)
  <2>1. PICK r \in Inventory!Outermost(S) : Inventory!IsPrefix(r, g.dir)
    BY <1>2, OutermostAbove
  <2>2. r \in Dirs
    BY DEF Inventory!Outermost
  <2> QED BY <1>2, <2>1, <2>2 DEF Inventory!RowsOf
<1>3. CASE catalog = None
  <2> DEFINE S == {d \in {f.dir : f \in Inventory!There(native)} \ Inventory!TypeDirectories :
                      Inventory!IsPackage(d)}
  <2>1. g \in Inventory!There(native)
    BY <1>3 DEF Inventory!ShownFiles
  <2>2. S \in SUBSET Dirs
    BY DirOfFile DEF Inventory!There
  <2>3. g.dir \in S
    BY <2>1 DEF Inventory!IsPackage, Inventory!Marked
  <2>4. Inventory!ShownRows(catalog)
          = Inventory!RowsOf(Inventory!ShownFiles(catalog), Inventory!Outermost(S))
    BY <1>3 DEF Inventory!ShownRows, Inventory!NativePackages
  <2> QED BY <1>2, <2>2, <2>3, <2>4
<1>4. CASE catalog # None
  <2> DEFINE S == (Inventory!Marked(Inventory!MapFilesOfIndex(catalog))
                      \cup Inventory!Configured(Inventory!MapFiles(catalog)))
                     \ Inventory!TypeDirectories
  <2>1. /\ Inventory!MapFilesOfIndex(catalog) \in SUBSET Files
        /\ Inventory!MapFiles(catalog) \in SUBSET Files
    BY <1>4, ListDomain DEF Inventory!MapFiles, Inventory!MapFilesOfIndex, Inventory!Shallow,
                            Inventory!There, InventoryTypes
  <2>2. S \in SUBSET Dirs
    BY <2>1, DirOfFile DEF Inventory!Marked, Inventory!Configured
  <2>3. g \in Inventory!MapFilesOfIndex(catalog)
    BY <1>4 DEF Inventory!ShownFiles, Inventory!MapFiles, Inventory!Shallow
  <2>4. g.dir \in S
    BY <2>3 DEF Inventory!Marked
  <2>5. Inventory!ShownRows(catalog)
          = Inventory!RowsOf(Inventory!ShownFiles(catalog), Inventory!Outermost(S))
    BY <1>4 DEF Inventory!ShownRows, Inventory!MapPackages
  <2> QED BY <1>2, <2>2, <2>4, <2>5
<1> QED BY <1>3, <1>4

\* What models offers is below something that the catalog view shows.
LEMMA InventoryOffers ==
    ASSUME InventoryTypes PROVE OfferedIsShown
<1> DEFINE e == DOMAIN Inventory!Entries(catalog)
           m == Inventory!ShownFiles(catalog)
           known == IF catalog = None THEN e ELSE DOMAIN catalog \cup Inventory!Shallow
           shown(listed) == \E s \in Inventory!ShownRows(catalog) :
                              listed \subseteq Inventory!RowFiles(s, m)
<1>1. e = IF authority \/ catalog = None THEN Inventory!There(native) ELSE DOMAIN catalog
  BY EntriesAreLists DEF InventoryTypes
<1>2. m \in SUBSET Files /\ e \in SUBSET Files
  BY ShownFilesThere, EntriesAreLists, ListDomain DEF InventoryTypes
<1>3. ASSUME NEW f \in e, f \in known PROVE f \in m
  BY <1>1, <1>3 DEF Inventory!ShownFiles, Inventory!MapFiles, Inventory!MapFilesOfIndex,
                    Inventory!There
<1>4. Covers(Inventory!ShownRows(catalog), m)
  BY ShownFilesThere, RowsOfCatalog
<1>5. ASSUME NEW f \in e, f.kind = "weights", f \in known
      PROVE  shown(Inventory!RowFiles(Inventory!FileRow(f), e))
  <2>1. PICK s \in Inventory!ShownRows(catalog) : f \in Inventory!RowFiles(s, m)
    BY <1>3, <1>4, <1>5 DEF Covers
  <2>2. Inventory!RowFiles(Inventory!FileRow(f), e) \subseteq {f}
    BY DEF Inventory!RowFiles, Inventory!FileRow
  <2> QED BY <2>1, <2>2
<1>6. ASSUME NEW g \in e, g.kind = "index", g.dir \notin Inventory!TypeDirectories,
             Inventory!RowFiles(Inventory!PackageRow(g.dir), e) \subseteq known
      PROVE  shown(Inventory!RowFiles(Inventory!PackageRow(g.dir), e))
  <2> DEFINE listed == Inventory!RowFiles(Inventory!PackageRow(g.dir), e)
  <2>1. listed = {f \in e : Inventory!Below(g.dir, f)}
    BY DEF Inventory!RowFiles, Inventory!PackageRow
  <2>2. listed \subseteq m
    BY <1>3, <1>6, <2>1
  <2>3. g.dir \in Dirs /\ \A f \in e : f.dir \in Dirs
    BY <1>2, DirOfFile
  <2>4. g \in m
    BY <2>1, <2>2, <2>3, PrefixOrder DEF Inventory!Below
  <2>5. PICK r \in Dirs : /\ Inventory!IsPrefix(r, g.dir)
                          /\ Inventory!PackageRow(r) \in Inventory!ShownRows(catalog)
    BY <1>6, <2>4, PackageShown
  <2>6. ASSUME NEW f \in listed PROVE f \in Inventory!RowFiles(Inventory!PackageRow(r), m)
    <3>1. f \in m /\ f.dir \in Dirs /\ Inventory!Below(g.dir, f)
      BY <2>1, <2>2, <2>3
    <3>2. Inventory!Below(r, f)
      BY <2>3, <2>5, <3>1, PrefixOrder DEF Inventory!Below
    <3> QED BY <3>1, <3>2 DEF Inventory!RowFiles, Inventory!PackageRow
  <2> QED BY <2>5, <2>6
<1>7. ASSUME NEW r \in Inventory!Rows(e)
      PROVE  \/ r.package /\ r.dir \in Inventory!TypeDirectories
             \/ ~(Inventory!RowFiles(r, e) \subseteq known)
             \/ shown(Inventory!RowFiles(r, e))
  <2>1. CASE \E d \in Inventory!Outermost(Inventory!Packages(e)) : r = Inventory!PackageRow(d)
    <3>1. PICK d \in Inventory!Outermost(Inventory!Packages(e)) : r = Inventory!PackageRow(d)
      BY <2>1
    <3>2. r.package /\ r.dir = d
      BY <3>1 DEF Inventory!PackageRow
    <3>3. PICK g \in e : g.kind = "index" /\ d = g.dir
      BY DEF Inventory!Outermost, Inventory!Packages
    <3> QED BY <1>6, <3>1, <3>2, <3>3
  <2>2. CASE \E f \in e : f.kind = "weights" /\ r = Inventory!FileRow(f)
    <3>1. PICK f \in e : f.kind = "weights" /\ r = Inventory!FileRow(f)
      BY <2>2
    <3>2. f \in Inventory!RowFiles(r, e)
      BY <3>1, FileCovers
    <3> QED BY <1>5, <3>1, <3>2
  <2> QED BY <2>1, <2>2 DEF Inventory!Rows, Inventory!Roots
<1> QED BY <1>7 DEF OfferedIsShown, Inventory!OfferedIsShown

---------------------------------------------------------------------------
(* A reference over time                                                   *)

\* The reference that is held was taken from some list of entries.
HeldInv ==
    held # Inventory!NoReference =>
        \E e \in Lists : held = Inventory!Reference(held.row, e)

\* Where nothing has changed since the selection began, the authority reads the
\* same catalog again and finds the same row.
ReasonInv ==
    /\ call.act = "resolve" => held # Inventory!NoReference
    /\ authority /\ ~touched =>
          /\ call.act # "none" => call.objects = catalog
          /\ held # Inventory!NoReference =>
                /\ held.row \in Inventory!Rows(DOMAIN Inventory!Entries(catalog))
                /\ held = Inventory!Reference(held.row, Inventory!Entries(catalog))
          /\ answer # "refused"

InventoryInv == InventoryTypes /\ HeldInv /\ ReasonInv

\* What the authority has is available, as it is in its list.
LEMMA OwnIsAvailable ==
    ASSUME InventoryTypes, authority, NEW row
    PROVE  Inventory!Available(row, Inventory!Entries(catalog))
<1> DEFINE e == Inventory!Entries(catalog)
<1>1. DOMAIN e = Inventory!There(native)
  BY EntriesAreLists DEF InventoryTypes
<1>2. ASSUME NEW f \in Inventory!There(native) PROVE Inventory!Resident(f, e[f])
  <2>1. native[f] # None
    BY DEF Inventory!There
  <2>2. CASE catalog = None
    <3>1. e[f] = Inventory!NativeEntry(f)
      BY <2>2 DEF Inventory!Entries
    <3> QED BY <2>1, <3>1 DEF Inventory!Resident, Inventory!NativeEntry, Inventory!LocalEntry
  <2>3. CASE catalog # None
    <3>1. e[f] = Inventory!OwnedEntry(catalog, f)
      BY <2>3 DEF Inventory!Entries
    <3>2. CASE f \in DOMAIN catalog /\ catalog[f].size = native[f].size
      <4>1. e[f] = [catalog[f] EXCEPT !.resident = TRUE]
        BY <3>1, <3>2 DEF Inventory!OwnedEntry
      <4>2. catalog[f] \in Entry
        BY <2>3, <3>2, ListDomain DEF InventoryTypes
      <4>3. e[f].resident = TRUE /\ e[f].size = catalog[f].size
        BY <4>1, <4>2 DEF Entry
      <4> QED BY <2>1, <3>2, <4>3 DEF Inventory!Resident
    <3>3. CASE ~(f \in DOMAIN catalog /\ catalog[f].size = native[f].size)
      <4>1. e[f] = Inventory!LocalEntry(f)
        BY <3>1, <3>3 DEF Inventory!OwnedEntry
      <4> QED BY <2>1, <4>1 DEF Inventory!Resident, Inventory!LocalEntry
    <3> QED BY <3>2, <3>3
  <2> QED BY <2>2, <2>3
<1> QED BY <1>1, <1>2 DEF Inventory!Available, Inventory!RowFiles

\* One lemma for each step of the inventory.
LEMMA AskKeeps ==
    ASSUME InventoryInv, NEW act \in {"select", "resolve"}, Inventory!Ask(act)
    PROVE  InventoryInv'
<1>1. /\ UNCHANGED <<native, host, catalog, authority, held, changes>>
      /\ call' = [act |-> act, objects |-> catalog] /\ answer' = "none"
      /\ touched' = IF act = "select" THEN FALSE ELSE touched
      /\ (act = "select") = (held = Inventory!NoReference)
  BY DEF Inventory!Ask, Inventory!disk
<1>2. InventoryTypes'
  BY <1>1 DEF InventoryInv, InventoryTypes
<1>3. HeldInv'
  BY <1>1 DEF InventoryInv, HeldInv, Inventory!NoReference, Inventory!Reference,
              Inventory!Fingerprint, Inventory!Sizes
<1>4. Inventory!Entries(catalog)' = Inventory!Entries(catalog)
  BY <1>1 DEF Inventory!Entries, Inventory!There, Inventory!NativeEntry, Inventory!LocalEntry,
              Inventory!OwnedEntry
<1>5. ReasonInv'
  BY <1>1, <1>4 DEF InventoryInv, ReasonInv, Inventory!NoReference
<1> QED BY <1>2, <1>3, <1>5 DEF InventoryInv

LEMMA SelectKeeps ==
    ASSUME InventoryInv, Inventory!Select PROVE InventoryInv'
<1> DEFINE e == Inventory!Entries(call.objects)
<1>1. /\ UNCHANGED <<native, host, catalog, authority, answer, touched, changes>>
      /\ call.act = "select" /\ call' = [act |-> "none", objects |-> None]
  BY DEF Inventory!Select, Inventory!Idle, Inventory!disk
<1>2. held' = Inventory!NoReference \/ \E r \in Inventory!Rows(DOMAIN e) :
                                          held' = Inventory!Reference(r, e)
  BY DEF Inventory!Select
<1>3. \A r : Inventory!Reference(r, e).row = r
  BY DEF Inventory!Reference
<1>4. InventoryTypes'
  BY <1>1 DEF InventoryInv, InventoryTypes
<1>5. e \in Lists
  BY EntriesAreLists DEF InventoryInv, InventoryTypes
<1>6. HeldInv'
  <2>1. ASSUME held' # Inventory!NoReference
        PROVE  \E x \in Lists : held' = Inventory!Reference(held'.row, x)
    BY <1>2, <1>3, <1>5, <2>1
  <2> QED BY <2>1 DEF HeldInv, Inventory!NoReference, Inventory!Reference,
                      Inventory!Fingerprint, Inventory!Sizes
<1>7. Inventory!Entries(catalog)' = Inventory!Entries(catalog)
  BY <1>1 DEF Inventory!Entries, Inventory!There, Inventory!NativeEntry, Inventory!LocalEntry,
              Inventory!OwnedEntry
<1>8. ReasonInv'
  <2>1. ASSUME authority, ~touched, held' # Inventory!NoReference
        PROVE  /\ held'.row \in Inventory!Rows(DOMAIN Inventory!Entries(catalog))
               /\ held' = Inventory!Reference(held'.row, Inventory!Entries(catalog))
    <3>1. call.objects = catalog
      BY <1>1, <2>1 DEF InventoryInv, ReasonInv
    <3> QED BY <1>2, <1>3, <2>1, <3>1
  <2>2. authority /\ ~touched => answer # "refused"
    BY DEF InventoryInv, ReasonInv
  <2>3. Inventory!NoReference' = Inventory!NoReference
    BY DEF Inventory!NoReference
  <2> QED BY <1>1, <1>7, <2>1, <2>2, <2>3 DEF ReasonInv
<1> QED BY <1>4, <1>6, <1>8 DEF InventoryInv

LEMMA ResolveKeeps ==
    ASSUME InventoryInv, Inventory!Resolve PROVE InventoryInv'
<1> DEFINE e == Inventory!Entries(call.objects)
           good == /\ call.objects = None \/ held.row \in Inventory!Rows(DOMAIN e)
                   /\ Inventory!Fingerprint(held.row, e) = held.fingerprint
                   /\ Inventory!Available(held.row, e)
<1>1. /\ UNCHANGED <<native, host, catalog, authority, held, touched, changes>>
      /\ call.act = "resolve" /\ call' = [act |-> "none", objects |-> None]
      /\ answer' = IF good THEN "resolved" ELSE "refused"
  BY DEF Inventory!Resolve, Inventory!Idle, Inventory!disk
<1>2. InventoryTypes'
  BY <1>1 DEF InventoryInv, InventoryTypes
<1>3. HeldInv'
  BY <1>1 DEF InventoryInv, HeldInv, Inventory!NoReference, Inventory!Reference,
              Inventory!Fingerprint, Inventory!Sizes
<1>4. Inventory!Entries(catalog)' = Inventory!Entries(catalog)
  BY <1>1 DEF Inventory!Entries, Inventory!There, Inventory!NativeEntry, Inventory!LocalEntry,
              Inventory!OwnedEntry
<1>5. ASSUME authority, ~touched PROVE good
  <2>1. /\ call.objects = catalog
        /\ held.row \in Inventory!Rows(DOMAIN Inventory!Entries(catalog))
        /\ held = Inventory!Reference(held.row, Inventory!Entries(catalog))
    BY <1>1, <1>5 DEF InventoryInv, ReasonInv
  <2>2. held.fingerprint = Inventory!Fingerprint(held.row, Inventory!Entries(catalog))
    BY <2>1 DEF Inventory!Reference
  <2>3. Inventory!Available(held.row, Inventory!Entries(catalog))
    BY <1>5, OwnIsAvailable DEF InventoryInv
  <2> QED BY <2>1, <2>2, <2>3
<1>6. ReasonInv'
  BY <1>1, <1>4, <1>5 DEF InventoryInv, ReasonInv, Inventory!NoReference
<1> QED BY <1>2, <1>3, <1>6 DEF InventoryInv

\* A change is a reason for anything.
LEMMA ChangedInv ==
    ASSUME InventoryInv, Inventory!Change PROVE HeldInv' /\ ReasonInv'
<1>1. UNCHANGED <<authority, call, held, answer>> /\ touched' = TRUE
  BY DEF Inventory!Change
<1> QED BY <1>1 DEF InventoryInv, HeldInv, ReasonInv, Inventory!NoReference, Inventory!Reference,
                   Inventory!Fingerprint, Inventory!Sizes

LEMMA IndexedIsList ==
    ASSUME NEW listed \in [Files -> Stamps \cup {None}]
    PROVE  Inventory!Indexed(listed) \in Lists
<1> DEFINE version(f) == <<"index", listed[f].size, listed[f].time>>
<1>1. Inventory!There(listed) \in SUBSET Files
  BY DEF Inventory!There
<1>2. ASSUME NEW f \in Inventory!There(listed)
      PROVE  Inventory!Indexed(listed)[f] \in Entry
  <2>1. listed[f].size \in {1, 2} /\ listed[f].time \in Nat
    BY DEF Inventory!There, Stamps
  <2>2. version(f) \in Versions /\ version(f)[2] = listed[f].size
    BY <2>1 DEF Versions
  <2>3. Inventory!Indexed(listed)[f]
          = [version |-> version(f), size |-> listed[f].size, resident |-> native[f] = listed[f]]
    BY DEF Inventory!Indexed
  <2> QED BY <2>1, <2>2, <2>3 DEF Entry
<1>3. Inventory!Indexed(listed) \in [Inventory!There(listed) -> Entry]
  BY <1>2 DEF Inventory!Indexed
<1> QED BY <1>1, <1>3 DEF Lists

LEMMA ChangesKeep ==
    ASSUME InventoryInv, Inventory!ChangeFile \/ Inventory!Publish \/ Inventory!Download
    PROVE  InventoryInv'
<1>1. Inventory!Change
  BY DEF Inventory!ChangeFile, Inventory!Publish, Inventory!Download
<1>2. UNCHANGED <<authority, call, held, answer>> /\ changes' \in 0 .. MaxChanges
  BY <1>1, InventoryAssumption DEF Inventory!Change, InventoryInv, InventoryTypes
<1>3. ASSUME NEW listed \in [Files -> Stamps \cup {None}], NEW f \in Files,
             NEW new \in Inventory!Written(listed, f)
      PROVE  new \in [Files -> Stamps \cup {None}]
  <2>1. changes' \in Nat
    BY <1>2, InventoryAssumption
  <2>2. \A s \in {1, 2} : [size |-> s, time |-> changes'] \in Stamps
    BY <2>1 DEF Stamps
  <2> QED BY <2>2 DEF Inventory!Written
<1>4. InventoryTypes'
  <2>1. CASE Inventory!ChangeFile
    BY <1>2, <1>3, <2>1 DEF Inventory!ChangeFile, InventoryInv, InventoryTypes
  <2>2. CASE Inventory!Publish
    BY <1>2, <2>2, IndexedIsList DEF Inventory!Publish, InventoryInv, InventoryTypes
  <2>3. CASE Inventory!Download
    BY <1>2, <2>3 DEF Inventory!Download, Inventory!There, InventoryInv, InventoryTypes
  <2> QED BY <2>1, <2>2, <2>3
<1> QED BY <1>1, <1>4, ChangedInv DEF InventoryInv

\* Lists of the same fingerprint have the same files, each at the same size.
LEMMA SameFingerprint ==
    ASSUME NEW row, NEW d \in Lists, NEW e \in Lists,
           Inventory!Fingerprint(row, d) = Inventory!Fingerprint(row, e)
    PROVE  Inventory!Sizes(row, d) = Inventory!Sizes(row, e)
<1>1. \A x \in Lists :
        /\ Inventory!RowFiles(row, DOMAIN x) \subseteq DOMAIN x
        /\ \A f \in DOMAIN x : x[f].version[2] = x[f].size
  BY ListDomain DEF Inventory!RowFiles, Entry
<1>2. ASSUME NEW x \in Lists, NEW y \in Lists,
             Inventory!Fingerprint(row, x) = Inventory!Fingerprint(row, y),
             NEW p \in Inventory!Sizes(row, x)
      PROVE  p \in Inventory!Sizes(row, y)
  <2>1. PICK f \in Inventory!RowFiles(row, DOMAIN x) : p = <<f, x[f].size>>
    BY DEF Inventory!Sizes
  <2>2. <<f, x[f].version>> \in Inventory!Fingerprint(row, y)
    BY <1>2 DEF Inventory!Fingerprint
  <2>3. f \in Inventory!RowFiles(row, DOMAIN y) /\ x[f].version = y[f].version
    BY <2>2 DEF Inventory!Fingerprint
  <2>4. x[f].size = y[f].size
    BY <1>1, <2>3
  <2> QED BY <2>1, <2>3, <2>4 DEF Inventory!Sizes
<1> QED BY <1>2

\* The files here of which the reference may speak.
Concerned == IF authority THEN Inventory!There(native)
             ELSE Inventory!There(native) \cap {s[1] : s \in held.sizes}
SizesHere == {<<f, native[f].size>> : f \in Inventory!RowFiles(held.row, Concerned)}

\* A resolved reference has the fingerprint it was taken with, hence the sizes.
LEMMA ResolvedStands ==
    ASSUME InventoryInv, NEW e \in Lists, e = Inventory!Entries(call.objects),
           held # Inventory!NoReference,
           Inventory!Fingerprint(held.row, e) = held.fingerprint,
           Inventory!Available(held.row, e)
    PROVE  SizesHere = held.sizes
<1> DEFINE F == Inventory!RowFiles(held.row, DOMAIN e)
<1>1. PICK d \in Lists : held = Inventory!Reference(held.row, d)
  BY DEF InventoryInv, HeldInv
<1>2. /\ held.fingerprint = Inventory!Fingerprint(held.row, d)
      /\ held.sizes = Inventory!Sizes(held.row, d)
  BY <1>1 DEF Inventory!Reference
<1>3. held.sizes = Inventory!Sizes(held.row, e)
  BY <1>2, SameFingerprint
<1>4. held.sizes = {<<f, e[f].size>> : f \in F}
  BY <1>3 DEF Inventory!Sizes
<1>5. \A f \in F : f \in DOMAIN e /\ native[f] # None /\ native[f].size = e[f].size
  BY DEF Inventory!Available, Inventory!Resident, Inventory!RowFiles
<1>6. F \subseteq Inventory!There(native)
  BY <1>5, ListDomain DEF Inventory!There
<1>7. {s[1] : s \in held.sizes} = F
  <2> DEFINE P == {s[1] : s \in held.sizes}
  <2>1. ASSUME NEW f \in F PROVE f \in P
    <3>1. <<f, e[f].size>> \in held.sizes
      BY <1>4
    <3> QED BY <3>1
  <2>2. ASSUME NEW f \in P PROVE f \in F
    BY <1>4, <2>2
  <2> QED BY <2>1, <2>2
<1>8. Inventory!RowFiles(held.row, Concerned) = F
  <2>1. CASE authority
    <3>1. DOMAIN e = Inventory!There(native)
      BY <2>1, EntriesAreLists DEF InventoryInv, InventoryTypes
    <3> QED BY <2>1, <3>1 DEF Concerned
  <2>2. CASE ~authority
    <3>1. Concerned = F
      BY <1>6, <1>7, <2>2 DEF Concerned
    <3>2. Inventory!RowFiles(held.row, F) = F
      BY DEF Inventory!RowFiles
    <3> QED BY <3>1, <3>2
  <2> QED BY <2>1, <2>2
<1> QED BY <1>4, <1>5, <1>8 DEF SizesHere

\* A step after which a reference is resolved.
Resolves == answer' = "resolved" /\ answer # "resolved" => SizesHere = held.sizes

\* The same for a step that resolves one.
LEMMA ResolvesStands ==
    ASSUME InventoryInv, Inventory!Next PROVE Resolves
<1> SUFFICES ASSUME answer' = "resolved", answer # "resolved" PROVE SizesHere = held.sizes
  BY DEF Resolves
<1>1. Inventory!Resolve
  BY DEF Inventory!Next, Inventory!Ask, Inventory!Select, Inventory!ChangeFile, Inventory!Publish,
         Inventory!Download, Inventory!Change
<1> DEFINE e == Inventory!Entries(call.objects)
<1>2. /\ Inventory!Fingerprint(held.row, e) = held.fingerprint
      /\ Inventory!Available(held.row, e)
      /\ held # Inventory!NoReference
  BY <1>1 DEF Inventory!Resolve, InventoryInv, ReasonInv
<1>3. e \in Lists
  BY EntriesAreLists DEF InventoryInv, InventoryTypes
<1> QED BY <1>2, <1>3, ResolvedStands

\* Initially nothing is listed, held or answered.
LEMMA InventoryInit == ContainerInit => InventoryInv
<1> SUFFICES ASSUME ContainerInit PROVE InventoryInv
  OBVIOUS
<1>1. 0 \in 0 .. MaxChanges
  BY InventoryAssumption
<1>2. CASE Unread
  BY <1>1, <1>2
  DEF Unread, InventoryInv, InventoryTypes, HeldInv, ReasonInv, Inventory!Idle
<1>3. CASE Inventory!Init
  <2> DEFINE old == [size |-> 1, time |-> 0]
             some(set) == [f \in Files |-> IF f \in set THEN old ELSE None]
  <2>1. \A set : some(set) \in [Files -> Stamps \cup {None}]
    BY DEF Stamps
  <2>2. PICK set \in Initial : native = some(set) /\ host = IF authority THEN some({}) ELSE native
    BY <1>3 DEF Inventory!Init
  <2>3. /\ native \in [Files -> Stamps \cup {None}]
        /\ host \in [Files -> Stamps \cup {None}]
    BY <2>1, <2>2
  <2>4. catalog \in Lists \cup {None}
    BY <1>3, <2>3, IndexedIsList DEF Inventory!Init
  <2> QED BY <1>1, <1>3, <2>3, <2>4
          DEF Inventory!Init, InventoryInv, InventoryTypes, HeldInv, ReasonInv, Inventory!Idle
<1> QED BY <1>2, <1>3 DEF ContainerInit

\* Placing leaves the inventory alone.
LEMMA InventoryStutter == InventoryInv /\ UNCHANGED inventory => InventoryInv'
<1> SUFFICES ASSUME InventoryInv, UNCHANGED inventory PROVE InventoryInv'
  OBVIOUS
<1>1. UNCHANGED <<native, host, catalog, authority, call, held, answer, touched, changes>>
  BY DEF inventory
<1>2. Inventory!Entries(catalog)' = Inventory!Entries(catalog)
  BY <1>1 DEF Inventory!Entries, Inventory!There, Inventory!NativeEntry, Inventory!LocalEntry,
              Inventory!OwnedEntry
<1>3. InventoryTypes' /\ HeldInv'
  BY <1>1 DEF InventoryInv, InventoryTypes, HeldInv, Inventory!NoReference, Inventory!Reference,
              Inventory!Fingerprint, Inventory!Sizes
<1>4. ReasonInv'
  BY <1>1, <1>2 DEF InventoryInv, ReasonInv, Inventory!NoReference
<1> QED BY <1>3, <1>4 DEF InventoryInv

\* Every step of the inventory keeps its invariant.
LEMMA InventoryNext ==
    InventoryInv /\ [PlacersNext \/ ReadersNext]_<<follows, vars, inventory>> => InventoryInv'
<1>1. InventoryInv /\ Inventory!Next => InventoryInv'
  BY AskKeeps, SelectKeeps, ResolveKeeps, ChangesKeep DEF Inventory!Next
<1> QED BY <1>1, InventoryStutter DEF PlacersNext, ReadersNext

---------------------------------------------------------------------------
(* The composition                                                         *)

\* The invariant of the inventory.
THEOREM InventoryInvariant == ContainerSpec => []InventoryInv
<1> QED BY InventoryInit, InventoryNext, PTL DEF ContainerSpec

(* In every list that models gives, a file of a model is in exactly one row. *)
THEOREM RowsPartitionAlways == ContainerSpec => []RowsPartition
<1>1. InventoryInv => RowsPartition
  BY InventoryPartition DEF InventoryInv
<1> QED BY <1>1, InventoryInvariant, PTL

(* What the authority offers, the catalog view of the same files shows. *)
THEOREM OfferedIsShownAlways == ContainerSpec => []OfferedIsShown
<1>1. InventoryInv => OfferedIsShown
  BY InventoryOffers DEF InventoryInv
<1> QED BY <1>1, InventoryInvariant, PTL

(* A reference is refused only when something has changed since it was taken. *)
THEOREM RefusalHasReasonAlways == ContainerSpec => []RefusalHasReason
<1>1. InventoryInv => RefusalHasReason
  BY DEF InventoryInv, ReasonInv, RefusalHasReason, Inventory!RefusalHasReason
<1> QED BY <1>1, InventoryInvariant, PTL

(* A reference that resolves stands for the files, at the sizes, that it was
   taken for, although catalog and native files are read one after the other. *)
THEOREM ResolvedUnchangedAlways == ContainerSpec => ResolvedUnchanged
<1>1. InventoryInv /\ [PlacersNext \/ ReadersNext]_<<follows, vars, inventory>>
        => [Resolves]_inventory
  BY ResolvesStands DEF PlacersNext, ReadersNext
<1>2. [Resolves]_inventory =>
        [answer' = "resolved" /\ answer # "resolved" =>
          {<<f, native[f].size>> : f \in Inventory!RowFiles(held.row,
              IF authority THEN Inventory!There(native)
              ELSE Inventory!There(native) \cap {s[1] : s \in held.sizes})}
              = held.sizes]_(Inventory!vars)
  BY DEF Resolves, SizesHere, Concerned, inventory, Inventory!vars, Inventory!disk
<1> QED BY <1>1, <1>2, InventoryInvariant, PTL
        DEF ContainerSpec, ResolvedUnchanged, Inventory!ResolvedUnchanged

(* A container's placers behave as placing says: what is proved of Spec holds
   for a container too. *)
THEOREM PlacingInContainer == ContainerSpec => Spec
<1>1. ContainerInit => Init
  BY DEF ContainerInit
<1>2. [PlacersNext \/ ReadersNext]_<<follows, vars, inventory>> => [Next]_vars
  BY DEF PlacersNext, ReadersNext
<1> QED BY <1>1, <1>2, PTL DEF ContainerSpec, Spec
=============================================================================
